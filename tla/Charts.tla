------------------------------- MODULE Charts -------------------------------
(***************************************************************************)
(* The report's charts in the browser (render/assets/app-js): the registry  *)
(* of uPlot instances, the store that keeps their x-windows together        *)
(* (05.js), the legends that show statistics of that window, and the cards  *)
(* of the mysqladmin section (02.js), each a chart with counters of its own.*)
(*                                                                          *)
(* Clicks, timers and animation frames are tasks that run to completion;    *)
(* the microtasks they leave are drained, in order, before the next task.   *)
(* uPlot's setScale only notes the new range: a microtask commits it and    *)
(* then calls the setScale hooks.  So isBroadcasting, which is set while    *)
(* setScale is called, is always false again in the hook that tests it, and *)
(* has no variable here.                                                    *)
(***************************************************************************)
EXTENDS Naturals, SequencesExt

CONSTANTS
  Page,      \* the chart containers of the page, in document order
  Windows,   \* ranges of the x-axis
  Extents,   \* of each container: the ranges that the charts it may show are drawn with
  Moment,    \* of the extent of a chart with one sample, which uPlot widens to a day:
             \* the range from that sample to itself
  Counters,  \* data.variables
  MaxCards,  \* bound: cards created since the page was loaded
  Layouts,   \* the layouts that an earlier visit may have stored
  DefaultVisible,  \* the counters of the chart of a first visit
  None       \* no window, no chart

Panels == ToSet(Page)
Cards == 1..MaxCards
Containers == Panels \cup Cards

ASSUME ContainerAssumption ==
  /\ Page \in Seq(Panels) /\ IsInjective(Page)
  /\ Panels \cap Cards = {}
ASSUME ExtentAssumption == Extents \in [Containers -> (SUBSET Windows) \ {{}}]
\* Ranges of no length; no chart is drawn with one.
Instants == {Moment[e] : e \in DOMAIN Moment}
ASSUME MomentAssumption ==
  Instants \subseteq Windows /\ \A p \in Containers : Extents[p] \cap Instants = {}
\* A range of the axis is a pair of numbers.
ASSUME NoneAssumption == None \notin Windows /\ "reset" \notin Windows \cup {None}
ASSUME LayoutAssumption ==
  /\ MaxCards \in Nat \ {0} /\ DefaultVisible \in SUBSET Counters
  /\ \A l \in Layouts : l \in Seq(SUBSET Counters) /\ Len(l) <= MaxCards

VARIABLES
  page,      \* registry: CHARTS; win: the store's window; plot, legend: what
             \* each container shows; tasks: microtasks; cards: charts, whose
             \* ids grow in the order in which they were added
  created,   \* nextChartNum
  active,    \* activeChartId
  frames,    \* cards whose rebuildChart waits for requestAnimationFrame
  timers,    \* cards whose throttle is set
  selected,  \* the counters picked for each card
  drawn,     \* those its chart was built from
  layout,    \* localStorage: the selections of the cards, <<>> if nothing is stored
  asked      \* history: the window the reader asked for last, or "reset"

cardVars == <<created, active, frames, timers, selected, drawn, layout>>
vars == <<page, cardVars, asked>>

NoPlot == [extent |-> None, shown |-> None, pending |-> None]
\* The pills show a dash until setStats is called.
Blank == "blank"
\* The microtasks: uPlot's commit, and the stats of applyToChart.
Commit(p) == [kind |-> "commit", of |-> p]
Stats(p) == [kind |-> "stats", of |-> p]

Present(s, p) == p \in ToSet(s)
Connected(pg, p) == p \in Panels \/ p \in pg.cards
HasPlot(pg, p) == pg.plot[p].extent # None

\* The charts of ps that are in S, in their order.
Among(ps, S) ==
  LET kept[n \in 0..Len(ps)] ==
        IF n = 0 THEN <<>> ELSE IF ps[n] \in S THEN Append(kept[n - 1], ps[n]) ELSE kept[n - 1]
  IN kept[Len(ps)]
-----------------------------------------------------------------------------
FirstToLast(extent) == IF extent \in DOMAIN Moment THEN Moment[extent] ELSE extent

\* A chart of more than one sample ignores a range of no length.
Ignores(pg, p, w) == w \in Instants /\ pg.plot[p].extent \notin DOMAIN Moment

\* uPlot.setScale("x", range[p]) on each of a sequence of charts, in order: at
\* most one commit of a chart is queued.
Uncommitted(pg, ps) == Among(ps, {p \in Containers : ~Present(pg.tasks, Commit(p))})
SetScale(pg, ps, range) ==
  LET taking == Among(ps, {p \in ToSet(ps) : ~Ignores(pg, p, range[p])})
      new == Uncommitted(pg, taking)
  IN [pg EXCEPT !.plot = [p \in Containers |-> IF Present(taking, p) THEN [@[p] EXCEPT !.pending = range[p]] ELSE @[p]],
                !.tasks = @ \o [n \in DOMAIN new |-> Commit(new[n])]]

\* Every subscriber is initChartSync's: the stats of all registered charts.
Notify(pg) ==
  [pg EXCEPT !.legend = [p \in Containers |-> IF Present(pg.registry, p) THEN pg.win ELSE @[p]]]

Others(pg, source) == Among(pg.registry, {p \in Containers \ {source} : Connected(pg, p)})
Broadcast(pg, source) == Notify(SetScale(pg, Others(pg, source), [p \in Containers |-> pg.win]))

\* The hook of a chart; a window that is the store's already goes no further.
SetWindow(pg, w, source) ==
  IF w = pg.win THEN pg ELSE Broadcast([pg EXCEPT !.win = w], source)

\* The range of the data itself: of a chart with one sample, no more than a moment.
ResetStore(pg) ==
  Notify([SetScale(pg, pg.registry, [p \in Containers |-> FirstToLast(pg.plot[p].extent)]) EXCEPT !.win = None])

\* Mutant of ApplyToChart: the legend does not follow.
ApplyRangeOnly(pg, p) ==
  IF pg.win = None THEN pg ELSE SetScale(pg, <<p>>, [q \in {p} |-> pg.win])

\* registerChart runs before mountLegend: the stats have to wait.
ApplyToChart(pg, p) ==
  IF pg.win = None THEN pg
  ELSE [SetScale(pg, <<p>>, [q \in {p} |-> pg.win]) EXCEPT !.tasks = Append(@, Stats(p))]

\* unregisterChart and destroy.
Drop(pg, p) == [pg EXCEPT !.registry = Among(@, Containers \ {p}), !.plot[p] = NoPlot]

\* A new uPlot, whose constructor auto-scales to its data, is registered and
\* gets a legend without numbers.
Draw(pg, p, extent) ==
  LET built == SetScale([Drop(pg, p) EXCEPT !.plot[p].extent = extent, !.legend[p] = Blank],
                        <<p>>, [q \in {p} |-> extent])
  IN ApplyToChart([built EXCEPT !.registry = Append(@, p)], p)

\* The head of the queue is a commit: the range is applied and, if it is
\* another one, the hook publishes it.
CommitScale(pg, p) ==
  LET w == pg.plot[p].pending
      done == [pg EXCEPT !.plot[p] = [@ EXCEPT !.shown = w, !.pending = None], !.tasks = Tail(@)]
  IN IF w = pg.plot[p].shown THEN done ELSE SetWindow(done, w, p)

ShowStats(pg, p) ==
  [pg EXCEPT !.legend[p] = IF pg.win = None THEN @ ELSE pg.win, !.tasks = Tail(@)]
-----------------------------------------------------------------------------
AtRest == page.tasks = <<>>

Microtask ==
  /\ ~AtRest
  /\ LET t == Head(page.tasks) IN
     page' = IF t.kind = "commit" THEN CommitScale(page, t.of) ELSE ShowStats(page, t.of)
  /\ UNCHANGED <<cardVars, asked>>

Shows(p) == Connected(page, p) /\ Present(page.registry, p)

\* A drag over a chart, or a double click, which asks for the chart's own extent,
\* as drawn.
\* (Of the range that is shown already nothing comes.)
Zoom(p, w) ==
  /\ AtRest
  /\ Shows(p) /\ w \notin Instants /\ w # page.plot[p].shown
  /\ page' = SetScale(page, <<p>>, [q \in {p} |-> w])
  /\ asked' = w
  /\ UNCHANGED cardVars

\* The reset button of any chart.
Reset ==
  /\ AtRest
  /\ page' = ResetStore(page)
  /\ asked' = "reset"
  /\ UNCHANGED cardVars

\* Another view, dimension or tab, or a pill of a stacked chart.
Redraw(p, extent) ==
  /\ AtRest
  /\ page' = Draw(page, p, extent)
  /\ UNCHANGED <<cardVars, asked>>

\* A tab of vmstat without any series.
RedrawEmpty(p) ==
  /\ AtRest
  /\ page' = Drop(page, p)
  /\ UNCHANGED <<cardVars, asked>>
-----------------------------------------------------------------------------
Selections(cards, sel) == [c \in cards |-> sel[c]]

\* createChart, setActive and persistLayout: "+ New chart", or a duplicate.
CreateChart(selection) ==
  LET c == created + 1 IN
  /\ AtRest
  /\ created < MaxCards
  /\ created' = c
  /\ page' = [page EXCEPT !.cards = @ \cup {c}]
  /\ selected' = [selected EXCEPT ![c] = selection]
  /\ frames' = Append(frames, c)
  /\ active' = c
  /\ layout' = Selections(page'.cards, selected')
  /\ UNCHANGED <<timers, drawn, asked>>

AddNewChart == CreateChart({})
DuplicateChart(c) == c \in page.cards /\ CreateChart(selected[c])

SetActive(c) ==
  /\ AtRest
  /\ c \in page.cards
  /\ active' = c
  /\ UNCHANGED <<page, created, frames, timers, selected, drawn, layout, asked>>

\* The throttle is cleared, a frame that was requested is not.
RemoveChart(c) ==
  /\ AtRest
  /\ c \in page.cards /\ Cardinality(page.cards) > 1
  /\ page' = [Drop(page, c) EXCEPT !.cards = @ \ {c}]
  /\ timers' = timers \ {c}
  /\ active' = IF active = c THEN Min(page'.cards) ELSE active
  /\ layout' = Selections(page'.cards, selected)
  /\ UNCHANGED <<created, frames, selected, drawn, asked>>

\* A counter is ticked, a category loaded, the list cleared; persistLayout and
\* scheduleActiveRedraw.
Select(selection) ==
  /\ AtRest
  /\ selected' = [selected EXCEPT ![active] = selection]
  /\ layout' = Selections(page.cards, selected')
  /\ timers' = timers \cup {active}
  /\ UNCHANGED <<page, created, active, frames, drawn, asked>>

\* rebuildChart: a chart of what is selected now; none if nothing is.
RebuildChart(c) ==
  /\ \E extent \in Extents[c] :
       page' = IF selected[c] = {} THEN Drop(page, c) ELSE Draw(page, c, extent)
  /\ drawn' = [drawn EXCEPT ![c] = selected[c]]
  /\ UNCHANGED <<created, active, selected, layout, asked>>

AnimationFrame ==
  /\ AtRest
  /\ frames # <<>>
  /\ RebuildChart(Head(frames))
  /\ frames' = Tail(frames)
  /\ UNCHANGED timers

\* Mutant of Throttled: one throttle for all the cards.
ThrottledTogether(c) ==
  /\ AtRest
  /\ c \in timers
  /\ RebuildChart(c)
  /\ timers' = {}
  /\ UNCHANGED frames

\* The timer of scheduleActiveRedraw, set for the card active at the time.
Throttled(c) ==
  /\ AtRest
  /\ c \in timers
  /\ RebuildChart(c)
  /\ timers' = timers \ {c}
  /\ UNCHANGED frames

\* boot: every panel is drawn, initChartSync asks for the stats of the whole
\* data, and the cards of the stored layout, or one of the defaults, are created.
Loaded(extents, n) ==
  [registry |-> Page, win |-> None,
   plot |-> [p \in Containers |-> IF p \in Panels THEN [extent |-> extents[p], shown |-> None, pending |-> extents[p]]
                                  ELSE NoPlot],
   legend |-> [p \in Containers |-> IF p \in Panels THEN None ELSE Blank],
   tasks |-> [i \in DOMAIN Page |-> Commit(Page[i])],
   cards |-> 1..n]

Init ==
  /\ layout \in Layouts
  /\ LET selections == IF layout = <<>> THEN <<DefaultVisible>> ELSE layout
         n == Len(selections)
     IN /\ \E extents \in [Panels -> Windows] :
             /\ \A p \in Panels : extents[p] \in Extents[p]
             /\ page = Loaded(extents, n)
        /\ created = n
        /\ frames = [i \in 1..n |-> i]
        /\ selected = [c \in Cards |-> IF c <= n THEN selections[c] ELSE {}]
  /\ active = 1
  /\ timers = {}
  /\ drawn = [c \in Cards |-> {}]
  /\ asked = None

Next ==
  \/ Microtask
  \/ Reset
  \/ \E p \in Containers, w \in Windows : Zoom(p, w)
  \/ \E p \in Panels : RedrawEmpty(p) \/ \E extent \in Extents[p] : Redraw(p, extent)
  \/ AddNewChart
  \/ \E c \in Cards : DuplicateChart(c) \/ SetActive(c) \/ RemoveChart(c) \/ Throttled(c)
  \/ \E selection \in SUBSET Counters : Select(selection)
  \/ AnimationFrame

Spec == Init /\ [][Next]_vars
-----------------------------------------------------------------------------
TypeOK ==
  /\ page.registry \in Seq(Containers)
  /\ page.win \in Windows \cup {None}
  /\ page.plot \in [Containers -> [extent : Windows \cup {None}, shown : Windows \cup {None},
                                   pending : Windows \cup {None}]]
  /\ page.legend \in [Containers -> Windows \cup {None, Blank}]
  /\ page.tasks \in Seq([kind : {"commit", "stats"}, of : Containers])
  /\ page.cards \in SUBSET Cards
  /\ created \in 0..MaxCards
  /\ active \in Cards
  /\ frames \in Seq(Cards)
  /\ timers \in SUBSET Cards
  /\ selected \in [Cards -> SUBSET Counters]
  /\ drawn \in [Cards -> SUBSET Counters]
  /\ layout = <<>> \/ DOMAIN layout \subseteq Cards
  /\ \A c \in DOMAIN layout : layout[c] \in SUBSET Counters
  /\ asked \in Windows \cup {None, "reset"}

Shown == {p \in Containers : Connected(page, p) /\ HasPlot(page, p)}

\* specs/017 (SC-001, SC-002, FR-004), 05.js: once the microtasks are done, the
\* charts show one window, the store's, or each its own data if there is none, and
\* the numbers in a legend are those of that window; after the reader zoomed, it is
\* the one that was asked for, in every chart, also in one that was drawn, redrawn
\* or added since then.  It is otherwise with the charts of more than one sample when
\* the window is a moment, which only a reset with a chart of one sample brings
\* about: uPlot ignores it there, and they go on showing a window of their own, under
\* a legend of that moment.
ZoomedTogether ==
  AtRest =>
    /\ \A p \in Shown :
         LET plot == page.plot[p] IN
         /\ \/ plot.shown = IF page.win = None THEN FirstToLast(plot.extent) ELSE page.win
            \/ Ignores(page, p, page.win)
         /\ page.legend[p] = page.win
    /\ asked \in Windows => page.win = asked
    /\ page.win \in Instants => asked = "reset"

\* 02.js: when no redraw of a card is due, its chart has the counters that are
\* picked, and is there if any is; and what a reload would bring back is what
\* the cards have picked.
CardsAsSelected ==
  /\ \A c \in page.cards \ (ToSet(frames) \cup timers) :
       drawn[c] = selected[c] /\ (HasPlot(page, c) <=> selected[c] # {})
  /\ layout # <<>> => layout = Selections(page.cards, selected)

\* specs/017 (FR-005, SC-004): reset returns every chart to its full data extent.
ResetRestoresExtents ==
  AtRest /\ asked = "reset" =>
    \A p \in Shown : LET plot == page.plot[p] IN plot.shown \in {plot.extent, FirstToLast(plot.extent)}
=============================================================================
