--------------------------------- MODULE Plots ---------------------------------
(***************************************************************************)
(* The plots of the monitor (gui/plot_view.rs): a ring of samples per      *)
(* signal and chart pages with the signals the user has assigned to them.  *)
(* A signal is known by its source and its name; an event has a source and *)
(* its decoded values.                                                     *)
(***************************************************************************)
EXTENDS Integers, Sequences, SequencesExt

CONSTANTS
  MaxHistoryPoints,
  NumCharts

ASSUME PlotConstantsOK == MaxHistoryPoints \in Nat \ {0} /\ NumCharts \in Nat \ {0}

NewPlots ==
  [registry |-> <<>>, active |-> 1, open |-> FALSE, text |-> "", node |-> 0,
   charts |-> [c \in 1..NumCharts |-> [assigned |-> <<>>, secs |-> 30]]]

History(plots, key) == IF key \in DOMAIN plots.registry THEN plots.registry[key] ELSE <<>>

\* Mutant: a full ring takes no more.
KeptFirst(points) == SubSeq(points, 1, MaxHistoryPoints)

\* Of the samples pushed, the ring has the last.
Kept(points) == SubSeq(points, Len(points) - MaxHistoryPoints + 1, Len(points))

Pushed(points) == IF Len(points) > MaxHistoryPoints THEN Kept(points) ELSE points

pdo_to_f64(value) == value.kind \in {"integer", "unsigned", "float"}

\* The samples of an event get the time at which a frame of the window takes it.
feed_event(plots, ev, now) ==
  LET samples == SelectSeq(ev.values, LAMBDA s : pdo_to_f64(s.value))
      Key(s) == [source |-> ev.source, name |-> s.name]
      Of(key) == SelectSeq(samples, LAMBDA s : Key(s) = key)
      keys == DOMAIN plots.registry \union {Key(s) : s \in ToSet(samples)}
  IN  [plots EXCEPT !.registry =
         [key \in keys |->
            Pushed(History(plots, key) \o [n \in DOMAIN Of(key) |-> [t |-> now, v |-> Of(key)[n].value.value]])]]

\* The lines of the active chart: the samples in its window, nothing for a signal without any.
render_chart(plots, now) ==
  LET chart == plots.charts[plots.active]
      Line(key) == [key |-> key,
                    points |-> SelectSeq(History(plots, key), LAMBDA p : p.t >= now - chart.secs)]
  IN  SelectSeq([n \in DOMAIN chart.assigned |-> Line(chart.assigned[n])],
                LAMBDA line : line.points # <<>>)

\* Signals the picker offers: by text, and those of a PDO by node; 0 stands for all nodes.
Available(plots) ==
  {key \in DOMAIN plots.registry :
     /\ plots.text \in {"", key.name}
     /\ key.source.kind = "pdo" => plots.node \in {0, key.source.node}}

\* A click on an offered signal assigns it to the active chart or takes it away.
Toggled(plots, key) ==
  [plots EXCEPT !.charts[plots.active].assigned =
     IF Contains(@, key) THEN SelectSeq(@, LAMBDA k : k # key) ELSE Append(@, key)]

Removed(plots, n) == [plots EXCEPT !.charts[plots.active].assigned = RemoveAt(@, n)]

\* One click in the window of the plots.
Clicked(plots, seconds, texts, nodes) ==
  {[plots EXCEPT !.active = c] : c \in 1..NumCharts}
  \union {[plots EXCEPT !.open = ~@]}
  \union {[plots EXCEPT !.charts[plots.active].secs = s] : s \in seconds}
  \union (IF ~plots.open THEN {}
          ELSE {[plots EXCEPT !.text = x] : x \in texts} \union {[plots EXCEPT !.node = n] : n \in nodes}
               \union {Toggled(plots, key) : key \in Available(plots)}
               \union {Removed(plots, n) : n \in DOMAIN plots.charts[plots.active].assigned})
=============================================================================
