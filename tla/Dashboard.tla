------------------------------- MODULE Dashboard -------------------------------
(***************************************************************************)
(* The live dashboard (http_server.rs): how a program that starts takes    *)
(* the port over from the one that has it, the bounded broadcast of log    *)
(* entries (logger.rs) and a browser tab that falls behind, is paused and  *)
(* connects again (assets/index.html).                                     *)
(***************************************************************************)
EXTENDS Integers, Sequences, SequencesExt, FiniteSetsExt

CONSTANTS
  Programs,    \* numbered in the order they are started
  Capacity,    \* BROADCAST_CAPACITY
  MaxRows,     \* MAX_LOG, the rows a tab keeps
  PageWorlds

\* Whether programs may start together and a server may answer late, and bounds: programs
\* started, entries logged, sessions, cables pulled, times the tab is paused, filters chosen.
PageWorld ==
  [together : BOOLEAN, slow : BOOLEAN, starts : Nat, entries : Nat, sessions : Nat, pulls : Nat,
   pauses : Nat, filters : Nat]

ASSUME PageConstantsOK ==
  /\ Programs \subseteq Nat /\ Capacity \in Nat \ {0} /\ MaxRows \in Nat \ {0}
  /\ PageWorlds \subseteq PageWorld

VARIABLES
  http,       \* what each program does for the port
  leaving,    \* programs that were told to shut down
  log,        \* entries each program has broadcast
  can,        \* the session of each program: "none", "up", "lost"
  info,       \* programs with a SessionInfo
  tab,        \* the tab: the program it listens to, the next entry, since when, what it missed
  rows,       \* entries in the tab's list
  held,       \* entries received while it is paused
  paused,
  filters,    \* the filters chosen so far, the active one last
  adapterState,
  pageCount,  \* how far the environment is
  pageWorld

pageVars == <<http, leaving, log, can, info, tab, rows, held, paused, filters, adapterState,
              pageCount, pageWorld>>
programVars == <<leaving, log, can, info>>
tabVars == <<tab, rows, held, paused, filters, adapterState>>

NoProgram == 0
NoTab == [of |-> NoProgram, next |-> 0, since |-> 0, missed |-> {}]

PageInit ==
  /\ http = [p \in Programs |-> "none"] /\ leaving = {}
  /\ log = [p \in Programs |-> <<>>] /\ can = [p \in Programs |-> "none"] /\ info = {}
  /\ tab = NoTab /\ rows = <<>> /\ held = <<>> /\ paused = FALSE /\ filters = <<"ALL">>
  /\ adapterState = "unknown"
  /\ pageCount = [starts |-> 0, sessions |-> 0, pulls |-> 0, pauses |-> 0]
  /\ pageWorld \in PageWorlds

Serving == {p \in Programs : http[p] = "serves"}
Starting == {p \in Programs : http[p] \in {"asks", "waits", "binds"}}

-----------------------------------------------------------------------------
(* SseServer::start *)

Begin(p) ==
  /\ p = pageCount.starts + 1 /\ p <= pageWorld.starts
  /\ pageWorld.together \/ Starting = {}
  /\ http' = [http EXCEPT ![p] = "asks"]
  /\ pageCount' = [pageCount EXCEPT !.starts = @ + 1]
  /\ UNCHANGED <<programVars, tabVars, pageWorld>>

\* GET /shutdown: a server that is there will exit, and is given 600 ms if it says so within
\* 300 ms.
Ask(p) ==
  /\ http[p] = "asks"
  /\ leaving' = leaving \union Serving
  /\ \E answered \in BOOLEAN :
       /\ answered = (Serving # {}) \/ pageWorld.slow
       /\ http' = [http EXCEPT ![p] = IF answered THEN "waits" ELSE "binds"]
  /\ UNCHANGED <<log, can, info, tabVars, pageCount, pageWorld>>

\* Mutant: the port is bound while the one that leaves still has it.
WaitedNot(p) ==
  /\ http[p] = "waits"
  /\ http' = [http EXCEPT ![p] = "binds"]
  /\ UNCHANGED <<programVars, tabVars, pageCount, pageWorld>>

Waited(p) ==
  /\ http[p] = "waits"
  /\ pageWorld.slow \/ leaving \intersect Serving = {}
  /\ http' = [http EXCEPT ![p] = "binds"]
  /\ UNCHANGED <<programVars, tabVars, pageCount, pageWorld>>

\* A port in use leaves the program without a dashboard.
Bind(p) ==
  /\ http[p] = "binds"
  /\ http' = [http EXCEPT ![p] = IF Serving = {} THEN "serves" ELSE "without"]
  /\ UNCHANGED <<programVars, tabVars, pageCount, pageWorld>>

\* handle_shutdown: 100 ms after the answer the process exits.
Exits(p) ==
  /\ p \in leaving /\ http[p] # "gone"
  /\ http' = [http EXCEPT ![p] = "gone"] /\ can' = [can EXCEPT ![p] = "none"]
  /\ UNCHANGED <<leaving, log, info, tabVars, pageCount, pageWorld>>

-----------------------------------------------------------------------------
(* The program: what its session logs is broadcast *)

Broadcast(p, entry) ==
  /\ Len(log[p]) < pageWorld.entries
  /\ log' = [log EXCEPT ![p] = Append(@, entry)]

Connects(p) ==
  /\ http[p] \in {"binds", "serves", "without"} /\ can[p] = "none"
  /\ pageCount.sessions < pageWorld.sessions
  /\ pageCount' = [pageCount EXCEPT !.sessions = @ + 1]
  /\ can' = [can EXCEPT ![p] = "up"] /\ info' = info \union {p}
  /\ Broadcast(p, "session_start")
  /\ UNCHANGED <<http, leaving, tabVars, pageWorld>>

Frame(p) ==
  /\ can[p] = "up" /\ Broadcast(p, "frame")
  /\ UNCHANGED <<http, leaving, can, info, tabVars, pageCount, pageWorld>>

Unplugged(p) ==
  /\ can[p] = "up" /\ pageCount.pulls < pageWorld.pulls
  /\ pageCount' = [pageCount EXCEPT !.pulls = @ + 1]
  /\ can' = [can EXCEPT ![p] = "lost"] /\ Broadcast(p, "ADAPTER_DISCONNECTED")
  /\ UNCHANGED <<http, leaving, info, tabVars, pageWorld>>

Reconnected(p) ==
  /\ can[p] = "lost"
  /\ can' = [can EXCEPT ![p] = "up"] /\ Broadcast(p, "ADAPTER_RECONNECTED")
  /\ UNCHANGED <<http, leaving, info, tabVars, pageCount, pageWorld>>

\* Disconnect: nothing is logged, and the SessionInfo stays.
Disconnects(p) ==
  /\ can[p] # "none"
  /\ can' = [can EXCEPT ![p] = "none"]
  /\ UNCHANGED <<http, leaving, log, info, tabVars, pageCount, pageWorld>>

-----------------------------------------------------------------------------
(* The tab *)

\* A new subscriber gets what is broadcast from now on.
TabConnects(p) ==
  /\ tab.of = NoProgram /\ http[p] = "serves"
  /\ tab' = [of |-> p, next |-> Len(log[p]) + 1, since |-> Len(log[p]) + 1, missed |-> {}]
  /\ UNCHANGED <<http, programVars, rows, held, paused, filters, adapterState, pageCount, pageWorld>>

\* Mutant: a tab that has fallen behind goes on with the next entry to come.
SkippedAll(p) == Len(log[p])

\* sse_handler: entries that were overwritten before the tab read them are skipped.
Skipped(p) == Len(log[p]) - Capacity

\* processEvent: the indicator of the adapter, then the list or what is held back for it.
AdapterState(entry) ==
  CASE entry \in {"session_start", "ADAPTER_RECONNECTED"} -> "ready"
    [] entry = "ADAPTER_DISCONNECTED" -> "disconnected"
    [] OTHER -> IF adapterState = "ready" THEN "capturing" ELSE adapterState

\* matchesFilter: the tab of raw frames takes every entry with the bytes of a frame.
Matches(filter, entry) == filter = "ALL" \/ entry = "frame"

\* pushLogRow: an entry that the active filter does not match is discarded, and of the
\* rows only the newest are kept.
Newest(list) == IF Len(list) <= MaxRows THEN list ELSE SubSeq(list, Len(list) - MaxRows + 1, Len(list))
Pushed(list, entries) ==
  Newest(list \o SelectSeq(entries, LAMBDA e : Matches(Last(filters), log[e[1]][e[2]])))

TabReads(p) ==
  /\ tab.of = p /\ http[p] = "serves" /\ tab.next <= Len(log[p])
  /\ IF tab.next <= Len(log[p]) - Capacity
     THEN /\ tab' = [tab EXCEPT !.next = Skipped(p) + 1, !.missed = @ \union tab.next..Skipped(p)]
          /\ UNCHANGED <<rows, held, adapterState>>
     ELSE /\ tab' = [tab EXCEPT !.next = @ + 1]
          /\ adapterState' = AdapterState(log[p][tab.next])
          /\ IF paused THEN held' = Append(held, <<p, tab.next>>) /\ UNCHANGED rows
             ELSE rows' = Pushed(rows, <<<<p, tab.next>>>>) /\ UNCHANGED held
  /\ UNCHANGED <<http, programVars, paused, filters, pageCount, pageWorld>>

TabPauses ==
  /\ paused \/ pageCount.pauses < pageWorld.pauses
  /\ pageCount' = [pageCount EXCEPT !.pauses = @ + (IF paused THEN 0 ELSE 1)]
  /\ paused' = ~paused
  /\ rows' = IF paused THEN Pushed(rows, held) ELSE rows
  /\ held' = IF paused THEN <<>> ELSE held
  /\ UNCHANGED <<http, programVars, tab, filters, adapterState, pageWorld>>

\* A filter button; rows it does not match are hidden, not removed.
TabFilters ==
  /\ Len(filters) <= pageWorld.filters
  /\ \E filter \in {"ALL", "RAW"} \ {Last(filters)} : filters' = Append(filters, filter)
  /\ UNCHANGED <<http, programVars, tab, rows, held, paused, adapterState, pageCount, pageWorld>>

\* onerror: closed, and connected again later
TabFails ==
  /\ tab.of # NoProgram /\ http[tab.of] # "serves"
  /\ tab' = NoTab
  /\ UNCHANGED <<http, programVars, rows, held, paused, filters, adapterState, pageCount, pageWorld>>

-----------------------------------------------------------------------------
PageNext ==
  \/ \E p \in Programs :
       \/ Begin(p) \/ Ask(p) \/ Waited(p) \/ Bind(p) \/ Exits(p)
       \/ Connects(p) \/ Frame(p) \/ Unplugged(p) \/ Reconnected(p) \/ Disconnects(p)
       \/ TabConnects(p) \/ TabReads(p)
  \/ TabPauses \/ TabFilters \/ TabFails

PageFairness ==
  /\ \A p \in Programs :
       /\ WF_pageVars(Ask(p)) /\ WF_pageVars(Waited(p)) /\ WF_pageVars(Bind(p)) /\ WF_pageVars(Exits(p))
       /\ WF_pageVars(TabReads(p))
  /\ WF_pageVars(\E p \in Programs : TabConnects(p)) /\ WF_pageVars(TabFails)

-----------------------------------------------------------------------------
(* What the dashboard promises *)

\* Of the entries of its connection that every filter chosen so far matches, a tab has each
\* once and in order, but for those it fell behind by more than the channel holds and those
\* older than a full list: pausing it loses and reorders none of the others. Its indicator
\* is right about the adapter if it has received the last notice about it.
PageIsTrue ==
  LET p == tab.of
      all == rows \o held
      received == tab.since..tab.next - 1 \ tab.missed
      Wanted == {n \in received : \A i \in DOMAIN filters : Matches(filters[i], log[p][n])}
      Outdated(n) == Len(rows) = MaxRows /\ rows[1][1] = p /\ rows[1][2] > n
      Notices == {n \in DOMAIN log[p] : log[p][n] # "frame"}
  IN  /\ \A i, j \in DOMAIN all : i < j /\ all[i][1] = all[j][1] => all[i][2] < all[j][2]
      /\ ~paused => held = <<>>
      /\ p # NoProgram =>
           /\ \A n \in Wanted : <<p, n>> \in ToSet(all) \/ Outdated(n)
           /\ \A n \in tab.missed : n <= Len(log[p]) - Capacity
           /\ can[p] # "none" /\ tab.next > Len(log[p]) /\ Max(Notices) \in received =>
                adapterState = IF can[p] = "lost" THEN "disconnected"
                               ELSE IF Max(Notices) = Len(log[p]) THEN "ready" ELSE "capturing"

\* "Buffer events while paused; flush on resume so nothing is lost." (index.html:731)
\* Does not hold: the flush goes through the filter and the limit of the list.
PauseLosesNothing ==
  [][paused /\ ~paused' => \A e \in ToSet(held) : e \in ToSet(rows')]_pageVars

\* Programs that start end up with one that has the port and keeps it, whoever had it before;
\* a tab finds the server and reads all it has.
PageIsServed ==
  /\ Starting # {} ~> Starting = {} /\ Serving \ leaving # {}
  /\ tab.of # NoProgram ~> tab.of = NoProgram \/ tab.next > Len(log[tab.of])
  /\ tab.of = NoProgram /\ Serving # {} ~> tab.of # NoProgram \/ Serving = {}

\* "Returns 204 No Content when no session is currently active." (serve_info)
\* Does not hold: clear_session_info has no caller.
InfoIsActual == \A p \in Programs : p \in info => can[p] # "none"
=============================================================================
