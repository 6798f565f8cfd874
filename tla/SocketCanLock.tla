----------------------------- MODULE SocketCanLock -----------------------------
(***************************************************************************)
(* The lock file of a SocketCAN interface                                  *)
(* (adapters/socketcan_adapter.rs): processes that start, open the         *)
(* interface, release it or die, and whose numbers the system gives again. *)
(***************************************************************************)
EXTENDS Integers, FiniteSets

CONSTANTS
  Processes,
  LockWorlds

\* Whether opens may overlap, which processes are another user's, and bounds: opens,
\* deaths, numbers given again, numbers that cannot be written.
LockWorld ==
  [overlap : BOOLEAN, others : SUBSET Processes, opens : Nat, deaths : Nat, reuses : Nat, fulls : Nat]

ASSUME LockConstantsOK == IsFiniteSet(Processes) /\ LockWorlds \subseteq LockWorld

VARIABLES
  file,       \* the lock file: its i-node, the process number written to it, whether it
              \* is the other user's
  pc,         \* what each process does with the lock
  attempt,    \* 0 or 1
  node,       \* the i-node a process has created
  pid,        \* its process number
  alive,      \* process numbers in /proc
  ifaceUp,    \* the interface exists, is a CAN interface and is up
  lockCount,  \* how far the environment is
  lockWorld

lockVars == <<file, pc, attempt, node, pid, alive, ifaceUp, lockCount, lockWorld>>

None == 0
NoFile == [node |-> None, text |-> None, other |-> FALSE]

LockInit ==
  /\ file = NoFile
  /\ pc = [p \in Processes |-> "idle"] /\ attempt = [p \in Processes |-> 0]
  /\ node = [p \in Processes |-> None]
  /\ pid = CHOOSE f \in [Processes -> 1..Cardinality(Processes)] :
             \A p, q \in Processes : p # q => f[p] # f[q]
  /\ alive = {pid[p] : p \in Processes} /\ ifaceUp = TRUE
  /\ lockCount = [opens |-> 0, deaths |-> 0, reuses |-> 0, fulls |-> 0]
  /\ lockWorld \in LockWorlds

Acquiring(p) == pc[p] \in {"create", "write", "read", "remove", "socket"}
Holder(p) == pc[p] \in {"socket", "open"}

\* In /tmp a user may remove files of his own; that remove_file fails is ignored.
Other(p) == p \in lockWorld.others
RemoveFile(p) == file' = IF file.other = Other(p) THEN NoFile ELSE file

\* open: the interface is looked at before the lock.
OpenLock(p) ==
  /\ pc[p] \in {"idle", "refused"} /\ lockCount.opens < lockWorld.opens
  /\ lockWorld.overlap \/ \A q \in Processes : ~Acquiring(q)
  /\ lockCount' = [lockCount EXCEPT !.opens = @ + 1]
  /\ pc' = [pc EXCEPT ![p] = IF ifaceUp THEN "create" ELSE "idle"]
  /\ attempt' = [attempt EXCEPT ![p] = 0]
  /\ UNCHANGED <<file, node, pid, alive, ifaceUp, lockWorld>>

\* create_new
Create(p) ==
  /\ pc[p] = "create"
  /\ IF file = NoFile
     THEN LET new == lockCount.opens * 2 + attempt[p] IN
          /\ file' = [node |-> new, text |-> None, other |-> Other(p)]
          /\ node' = [node EXCEPT ![p] = new]
          /\ pc' = [pc EXCEPT ![p] = "write"]
     ELSE pc' = [pc EXCEPT ![p] = "read"] /\ UNCHANGED <<file, node>>
  /\ UNCHANGED <<attempt, pid, alive, ifaceUp, lockCount, lockWorld>>

\* The number goes to the file that was created, wherever that is now; that it could not
\* be written is ignored.
WritePid(p) ==
  /\ pc[p] = "write"
  /\ \/ /\ file' = IF file.node = node[p] THEN [file EXCEPT !.text = pid[p]] ELSE file
        /\ UNCHANGED lockCount
     \/ /\ lockCount.fulls < lockWorld.fulls
        /\ lockCount' = [lockCount EXCEPT !.fulls = @ + 1]
        /\ UNCHANGED file
  /\ pc' = [pc EXCEPT ![p] = "socket"]
  /\ UNCHANGED <<attempt, node, pid, alive, ifaceUp, lockWorld>>

\* Mutant: a file without a number counts as held.
ReadHolderStrict(p) ==
  /\ pc[p] = "read"
  /\ pc' = [pc EXCEPT ![p] =
              IF file.text \in alive \union {None} \/ attempt[p] = 1 THEN "refused" ELSE "remove"]
  /\ UNCHANGED <<file, attempt, node, pid, alive, ifaceUp, lockCount, lockWorld>>

\* In use if the file has the number of a live process; any other file is stale, the
\* first time.
ReadHolder(p) ==
  /\ pc[p] = "read"
  /\ pc' = [pc EXCEPT ![p] =
              IF file.text \in alive \/ attempt[p] = 1 THEN "refused" ELSE "remove"]
  /\ UNCHANGED <<file, attempt, node, pid, alive, ifaceUp, lockCount, lockWorld>>

RemoveStale(p) ==
  /\ pc[p] = "remove"
  /\ RemoveFile(p)
  /\ pc' = [pc EXCEPT ![p] = "create"] /\ attempt' = [attempt EXCEPT ![p] = 1]
  /\ UNCHANGED <<node, pid, alive, ifaceUp, lockCount, lockWorld>>

OpenSocket(p) ==
  /\ pc[p] = "socket"
  /\ pc' = [pc EXCEPT ![p] = "open"]
  /\ UNCHANGED <<file, attempt, node, pid, alive, ifaceUp, lockCount, lockWorld>>

\* Drop, when the socket cannot be opened, after an error frame, with the interface down or
\* at the end of the session: whatever file is there is removed.
Release(p) ==
  /\ Holder(p)
  /\ RemoveFile(p)
  /\ pc' = [pc EXCEPT ![p] = "idle"]
  /\ UNCHANGED <<attempt, node, pid, alive, ifaceUp, lockCount, lockWorld>>

\* A process dies anywhere; another one is started with a new number.
Die(p) ==
  /\ lockCount.deaths < lockWorld.deaths
  /\ lockCount' = [lockCount EXCEPT !.deaths = @ + 1]
  /\ pc' = [pc EXCEPT ![p] = "idle"]
  /\ pid' = [pid EXCEPT ![p] = Cardinality(Processes) + lockCount.deaths + 1]
  /\ alive' = (alive \ {pid[p]}) \union {pid'[p]}
  /\ UNCHANGED <<file, attempt, node, ifaceUp, lockWorld>>

\* The system gives a free number to a process of another program.
Reuse ==
  /\ lockCount.reuses < lockWorld.reuses
  /\ file.text \notin alive \union {None}
  /\ alive' = alive \union {file.text}
  /\ lockCount' = [lockCount EXCEPT !.reuses = @ + 1]
  /\ UNCHANGED <<file, pc, attempt, node, pid, ifaceUp, lockWorld>>

\* External: the interface is taken down and brought up.
MoveInterface ==
  /\ ifaceUp' = ~ifaceUp
  /\ UNCHANGED <<file, pc, attempt, node, pid, alive, lockCount, lockWorld>>

LockNext ==
  \/ \E p \in Processes :
       \/ OpenLock(p) \/ Create(p) \/ WritePid(p) \/ ReadHolder(p) \/ RemoveStale(p)
       \/ OpenSocket(p) \/ Release(p) \/ Die(p)
  \/ Reuse
  \/ MoveInterface

-----------------------------------------------------------------------------
(* What the lock promises *)

\* "Holds an exclusive PID lockfile for a SocketCAN interface." (SocketCanLock)
OneHolder == \A p, q \in Processes : Holder(p) /\ Holder(q) => p = q

\* Opens one after the other, of processes whose numbers could be written.
Orderly == ~lockWorld.overlap /\ lockCount.fulls = 0

\* Then one process has the interface, and an open is refused only while one has it, or a
\* program that was given the number of one that died, or by a file that the other user
\* has to remove: a file of one's own, left behind at any point of an open, never keeps
\* the interface locked.
LockIsTrue ==
  /\ [](Orderly => OneHolder)
  /\ [][Orderly =>
          \A p \in Processes :
            pc[p] = "read" /\ pc'[p] = "refused" =>
              \/ \E q \in Processes : Holder(q)
              \/ file.text \in alive \ {pid[q] : q \in Processes}
              \/ file.other # Other(p)]_lockVars
=============================================================================
