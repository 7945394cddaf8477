---------------------------- MODULE ChartsProofs ----------------------------
(***************************************************************************)
(* Proofs about the cards and the x-windows of Charts, for any panels,     *)
(* windows and counters and any number of cards.                           *)
(***************************************************************************)
EXTENDS Charts, SequenceTheorems, WellFoundedInduction, FiniteSetTheorems, TLAPS

\* What the operators on a page rely on: its fields, and a plot per container.
IsRecord(r, fields) == DOMAIN r = fields /\ r = [x \in fields |-> r[x]]
PageShape(pg) ==
  /\ IsRecord(pg, {"registry", "win", "plot", "legend", "tasks", "cards"})
  /\ IsRecord(pg.plot, Containers)
  /\ \A p \in Containers : IsRecord(pg.plot[p], {"extent", "shown", "pending"})

\* The page qg has the cards of pg, and charts of the same data.
SameCharts(pg, qg) ==
  /\ PageShape(qg)
  /\ qg.cards = pg.cards
  /\ \A p \in Containers : qg.plot[p].extent = pg.plot[p].extent

\* The page qg differs from pg in the chart of p at most, which has that extent.
ChartOf(pg, qg, p, extent) ==
  /\ PageShape(qg)
  /\ qg.cards = pg.cards
  /\ \A q \in Containers : qg.plot[q].extent = IF q = p THEN extent ELSE pg.plot[q].extent

LEMMA SetScaleKeepsCharts ==
  ASSUME NEW pg, PageShape(pg), NEW ps, NEW range
  PROVE  SameCharts(pg, SetScale(pg, ps, range))
<1> DEFINE taking == Among(ps, {p \in ToSet(ps) : ~Ignores(pg, p, range[p])})
           new == Uncommitted(pg, taking)
           plot == [p \in Containers |-> IF Present(taking, p) THEN [pg.plot[p] EXCEPT !.pending = range[p]]
                                         ELSE pg.plot[p]]
           tasks == pg.tasks \o [n \in DOMAIN new |-> Commit(new[n])]
<1>1. SetScale(pg, ps, range) = [pg EXCEPT !.plot = plot, !.tasks = tasks]
  BY Zenon DEF SetScale
<1>2. IsRecord(plot, Containers)
  BY DEF IsRecord
<1>3. \A p \in Containers :
        IsRecord(plot[p], {"extent", "shown", "pending"}) /\ plot[p].extent = pg.plot[p].extent
  BY DEF IsRecord, PageShape
<1> HIDE DEF plot, tasks
<1> QED BY <1>1, <1>2, <1>3 DEF IsRecord, PageShape, SameCharts

LEMMA NotifyKeepsCharts ==
  ASSUME NEW pg, PageShape(pg)
  PROVE  SameCharts(pg, Notify(pg))
BY DEF IsRecord, PageShape, SameCharts, Notify

LEMMA SetWindowKeepsCharts ==
  ASSUME NEW pg, PageShape(pg), NEW w, NEW source
  PROVE  SameCharts(pg, SetWindow(pg, w, source))
<1> DEFINE moved == [pg EXCEPT !.win = w]
           ps == Others(moved, source)
           scaled == SetScale(moved, ps, [p \in Containers |-> moved.win])
<1>1. SameCharts(pg, pg) /\ SameCharts(pg, moved)
  BY DEF IsRecord, PageShape, SameCharts
<1>2. SameCharts(moved, scaled)
  <2> HIDE DEF ps, moved
  <2> QED BY <1>1, SetScaleKeepsCharts DEF SameCharts
<1>3. SameCharts(scaled, Notify(scaled))
  <2> HIDE DEF scaled
  <2> QED BY <1>2, NotifyKeepsCharts DEF SameCharts
<1>4. SameCharts(pg, Notify(scaled))
  <2> HIDE DEF scaled, moved
  <2> QED BY <1>1, <1>2, <1>3 DEF SameCharts
<1>5. SetWindow(pg, w, source) \in {pg, Notify(scaled)}
  BY DEF SetWindow, Broadcast
<1> QED BY <1>1, <1>4, <1>5

LEMMA ResetKeepsCharts ==
  ASSUME NEW pg, PageShape(pg)
  PROVE  SameCharts(pg, ResetStore(pg))
<1> DEFINE range == [p \in Containers |-> FirstToLast(pg.plot[p].extent)]
           scaled == SetScale(pg, pg.registry, range)
           unzoomed == [scaled EXCEPT !.win = None]
<1>1. SameCharts(pg, scaled)
  <2> HIDE DEF range
  <2> QED BY SetScaleKeepsCharts
<1>2. SameCharts(pg, unzoomed)
  <2> HIDE DEF scaled
  <2> QED BY <1>1 DEF IsRecord, PageShape, SameCharts
<1>3. SameCharts(unzoomed, Notify(unzoomed))
  <2> HIDE DEF unzoomed
  <2> QED BY <1>2, NotifyKeepsCharts DEF SameCharts
<1>4. SameCharts(pg, Notify(unzoomed))
  <2> HIDE DEF unzoomed
  <2> QED BY <1>2, <1>3 DEF SameCharts
<1> QED BY <1>4 DEF ResetStore

LEMMA ApplyKeepsCharts ==
  ASSUME NEW pg, PageShape(pg), NEW p
  PROVE  SameCharts(pg, ApplyToChart(pg, p))
<1> DEFINE range == [q \in {p} |-> pg.win]
           scaled == SetScale(pg, <<p>>, range)
           applied == [scaled EXCEPT !.tasks = Append(@, Stats(p))]
<1>1. SameCharts(pg, pg)
  BY DEF IsRecord, PageShape, SameCharts
<1>2. SameCharts(pg, scaled)
  <2> HIDE DEF range
  <2> QED BY SetScaleKeepsCharts
<1>3. SameCharts(pg, applied)
  <2> HIDE DEF scaled
  <2> QED BY <1>2 DEF IsRecord, PageShape, SameCharts
<1>4. ApplyToChart(pg, p) \in {pg, applied}
  BY DEF ApplyToChart
<1> QED BY <1>1, <1>3, <1>4

LEMMA DropClears ==
  ASSUME NEW pg, PageShape(pg), NEW p \in Containers
  PROVE  ChartOf(pg, Drop(pg, p), p, None)
<1> DEFINE registry == Among(pg.registry, Containers \ {p})
<1>1. Drop(pg, p) = [pg EXCEPT !.registry = registry, !.plot[p] = NoPlot]
  BY Zenon DEF Drop
<1>2. IsRecord(NoPlot, {"extent", "shown", "pending"}) /\ NoPlot.extent = None
  BY DEF NoPlot, IsRecord
<1> DEFINE qg == [pg EXCEPT !.registry = registry, !.plot[p] = NoPlot]
<1> HIDE DEF registry
<1>3. /\ IsRecord(qg, {"registry", "win", "plot", "legend", "tasks", "cards"})
      /\ qg.cards = pg.cards /\ IsRecord(qg.plot, Containers)
      /\ qg.plot[p] = NoPlot /\ \A q \in Containers : q # p => qg.plot[q] = pg.plot[q]
  BY DEF IsRecord, PageShape
<1> HIDE DEF qg
<1> QED BY <1>1, <1>2, <1>3 DEF PageShape, ChartOf, qg

LEMMA DrawGivesExtent ==
  ASSUME NEW pg, PageShape(pg), NEW p \in Containers, NEW extent
  PROVE  ChartOf(pg, Draw(pg, p, extent), p, extent)
<1> DEFINE fresh == [Drop(pg, p) EXCEPT !.plot[p].extent = extent, !.legend[p] = Blank]
           range == [q \in {p} |-> extent]
           built == SetScale(fresh, <<p>>, range)
           known == [built EXCEPT !.registry = Append(@, p)]
<1>1. ChartOf(pg, Drop(pg, p), p, None)
  BY DropClears
<1>2. ChartOf(pg, fresh, p, extent)
  BY <1>1 DEF IsRecord, PageShape, ChartOf
<1>3. SameCharts(fresh, built)
  <2> HIDE DEF fresh, range
  <2> QED BY <1>2, SetScaleKeepsCharts DEF ChartOf
<1>4. ChartOf(pg, known, p, extent)
  <2>1. ChartOf(pg, built, p, extent)
    <3> HIDE DEF fresh, built
    <3> QED BY <1>2, <1>3 DEF ChartOf, SameCharts
  <2> HIDE DEF built
  <2> QED BY <2>1 DEF IsRecord, PageShape, ChartOf
<1>5. SameCharts(known, ApplyToChart(known, p))
  <2> HIDE DEF known
  <2> QED BY <1>4, ApplyKeepsCharts DEF ChartOf
<1>6. ChartOf(pg, ApplyToChart(known, p), p, extent)
  <2> HIDE DEF known
  <2> QED BY <1>4, <1>5 DEF ChartOf, SameCharts
<1> QED BY <1>6 DEF Draw
-----------------------------------------------------------------------------
\* The strengthening of CardsAsSelected: what waits for a frame is a card,
\* and a card that is still to be created is on no list.
CardInv ==
  /\ PageShape(page)
  /\ created \in 0..MaxCards
  /\ page.cards \subseteq 1..created
  /\ frames \in Seq(Cards)
  /\ selected \in [Cards -> SUBSET Counters]
  /\ drawn \in [Cards -> SUBSET Counters]
  /\ CardsAsSelected

\* A card has a chart of what is selected, or none if nothing is.
Fresh(c) == drawn[c] = selected[c] /\ (HasPlot(page, c) <=> selected[c] # {})

LEMMA CardsAreContainers ==
  ASSUME CardInv
  PROVE  page.cards \subseteq Cards /\ Cards \subseteq Containers
BY LayoutAssumption DEF CardInv, Cards, Containers

LEMMA AppendAddsOne ==
  ASSUME NEW S, NEW s \in Seq(S), NEW e \in S
  PROVE  Append(s, e) \in Seq(S) /\ ToSet(Append(s, e)) = ToSet(s) \cup {e}
<1>1. Append(s, e) \in Seq(S) /\ Len(Append(s, e)) = Len(s) + 1
  BY AppendProperties
<1>2. DOMAIN s = 1..Len(s) /\ DOMAIN Append(s, e) = 1..(Len(s) + 1) /\ Len(s) \in Nat
  BY <1>1, LenProperties
<1>3. \A i \in 1..Len(s) : Append(s, e)[i] = s[i]
  BY AppendProperties
<1>4. Append(s, e)[Len(s) + 1] = e
  BY AppendProperties
<1>5. ToSet(s) \cup {e} \subseteq ToSet(Append(s, e))
  BY <1>2, <1>3, <1>4 DEF ToSet
<1>6. ToSet(Append(s, e)) \subseteq ToSet(s) \cup {e}
  <2> SUFFICES ASSUME NEW i \in 1..(Len(s) + 1)
               PROVE  Append(s, e)[i] \in ToSet(s) \cup {e}
    BY <1>2 DEF ToSet
  <2>1. CASE i = Len(s) + 1
    BY <2>1, <1>4
  <2>2. CASE i \in 1..Len(s)
    BY <2>2, <1>2, <1>3 DEF ToSet
  <2> QED BY <2>1, <2>2, <1>2
<1> QED BY <1>1, <1>5, <1>6

LEMMA TailLosesHead ==
  ASSUME NEW S, NEW s \in Seq(S), s # <<>>
  PROVE  Head(s) \in S /\ Tail(s) \in Seq(S) /\ ToSet(s) = ToSet(Tail(s)) \cup {Head(s)}
<1>1. Head(s) = s[1] /\ Head(s) \in S /\ Tail(s) \in Seq(S) /\ Len(Tail(s)) = Len(s) - 1
  BY HeadTailProperties
<1>2. DOMAIN s = 1..Len(s) /\ DOMAIN Tail(s) = 1..(Len(s) - 1) /\ Len(s) \in Nat \ {0}
  BY <1>1, LenProperties, EmptySeq
<1>3. \A i \in 1..(Len(s) - 1) : Tail(s)[i] = s[i + 1]
  BY HeadTailProperties
<1>4. ToSet(Tail(s)) \cup {Head(s)} \subseteq ToSet(s)
  BY <1>1, <1>2, <1>3 DEF ToSet
<1>5. ToSet(s) \subseteq ToSet(Tail(s)) \cup {Head(s)}
  <2> SUFFICES ASSUME NEW i \in 1..Len(s)
               PROVE  s[i] \in ToSet(Tail(s)) \cup {Head(s)}
    BY <1>2 DEF ToSet
  <2>1. CASE i = 1
    BY <2>1, <1>1
  <2>2. CASE i # 1
    <3>1. i - 1 \in 1..(Len(s) - 1) /\ s[i] = Tail(s)[i - 1]
      BY <2>2, <1>2, <1>3
    <3> QED BY <3>1, <1>2 DEF ToSet
  <2> QED BY <2>1, <2>2
<1> QED BY <1>1, <1>4, <1>5
-----------------------------------------------------------------------------
\* A page that is loaded waits for a frame of every card.
LEMMA InitEstablishesCardInv ==
  Init => CardInv
<1> SUFFICES ASSUME Init PROVE CardInv
  OBVIOUS
<1> DEFINE selections == IF layout = <<>> THEN <<DefaultVisible>> ELSE layout
           n == Len(selections)
<1>1. selections \in Seq(SUBSET Counters) /\ n \in 1..MaxCards
  <2>1. layout \in Seq(SUBSET Counters) /\ Len(layout) <= MaxCards /\ MaxCards \in Nat \ {0}
    BY LayoutAssumption DEF Init
  <2>2. CASE layout = <<>>
    BY <2>1, <2>2, LayoutAssumption
  <2>3. CASE layout # <<>>
    BY <2>1, <2>3, LenProperties, EmptySeq
  <2> QED BY <2>2, <2>3
<1>2. PICK extents : page = Loaded(extents, n)
  BY DEF Init
<1>3. /\ created = n /\ frames = [i \in 1..n |-> i] /\ timers = {}
      /\ selected = [c \in Cards |-> IF c <= n THEN selections[c] ELSE {}]
      /\ drawn = [c \in Cards |-> {}]
  BY DEF Init
<1>4. \A c \in 1..n : selections[c] \in SUBSET Counters
  BY <1>1, LenProperties
<1> HIDE DEF selections, n
<1>5. PageShape(page) /\ page.cards = 1..n
  BY <1>2 DEF Loaded, PageShape, IsRecord, NoPlot
<1>6. created \in 0..MaxCards /\ page.cards \subseteq 1..created
  BY <1>1, <1>3, <1>5
<1>7. frames \in Seq(Cards) /\ ToSet(frames) = 1..n
  <2>1. \A i \in 1..n : i \in Cards
    BY <1>1, LayoutAssumption DEF Cards
  <2>2. frames \in [1..n -> Cards] /\ n \in Nat
    BY <1>1, <1>3, <2>1
  <2>3. frames \in Seq(Cards)
    BY <2>2
  <2>4. DOMAIN frames = 1..n /\ \A i \in 1..n : frames[i] = i
    BY <1>3
  <2> QED BY <2>3, <2>4 DEF ToSet
<1>8. selected \in [Cards -> SUBSET Counters] /\ drawn \in [Cards -> SUBSET Counters]
  <2>1. \A c \in Cards : c <= n => selections[c] \in SUBSET Counters
    BY <1>1, <1>4, LayoutAssumption DEF Cards
  <2> QED BY <1>3, <2>1
<1>9. layout # <<>> => layout = Selections(page.cards, selected)
  <2> SUFFICES ASSUME layout # <<>> PROVE layout = Selections(page.cards, selected)
    OBVIOUS
  <2>1. layout = selections /\ n = Len(layout)
    BY DEF selections, n
  <2>2. layout = [c \in 1..n |-> layout[c]]
    BY <1>1, <2>1, LenProperties
  <2>3. \A c \in 1..n : selected[c] = layout[c]
    BY <1>1, <1>3, <2>1, LayoutAssumption DEF Cards
  <2> QED BY <1>5, <2>2, <2>3 DEF Selections
<1>10. CardsAsSelected
  BY <1>5, <1>7, <1>9 DEF CardsAsSelected
<1> QED BY <1>3, <1>5, <1>6, <1>7, <1>8, <1>10 DEF CardInv

\* A step of the page that leaves the cards and their charts' data alone.
LEMMA PageStepKeepsCardInv ==
  ASSUME CardInv, PageShape(page'), page'.cards = page.cards,
         \A c \in Cards : page'.plot[c].extent = page.plot[c].extent,
         UNCHANGED cardVars
  PROVE  CardInv'
<1>1. \A c \in page.cards : HasPlot(page', c) <=> HasPlot(page, c)
  BY CardsAreContainers DEF HasPlot
<1>2. CardsAsSelected'
  BY <1>1 DEF CardInv, CardsAsSelected, cardVars, Selections
<1> QED BY <1>2 DEF CardInv, cardVars

LEMMA SameChartsKeepCardInv ==
  ASSUME CardInv, SameCharts(page, page'), UNCHANGED cardVars
  PROVE  CardInv'
BY CardsAreContainers, PageStepKeepsCardInv DEF SameCharts

\* A commit or the stats of a legend leave the data of the charts alone.
LEMMA MicrotaskKeepsCharts ==
  ASSUME CardInv, Microtask
  PROVE  SameCharts(page, page') /\ UNCHANGED cardVars
<1> DEFINE p == Head(page.tasks).of
           w == page.plot[p].pending
           rest == Tail(page.tasks)
           committed == [page.plot[p] EXCEPT !.shown = w, !.pending = None]
           done == [page EXCEPT !.plot[p] = committed, !.tasks = rest]
           blank == [page EXCEPT !.legend[p] = IF page.win = None THEN @ ELSE page.win, !.tasks = rest]
<1>1. UNCHANGED cardVars /\ page' \in {CommitScale(page, p), ShowStats(page, p)}
  BY DEF Microtask
<1>2. PageShape(page)
  BY DEF CardInv
<1>3. SameCharts(page, done)
  <2>1. p \in Containers =>
          IsRecord(committed, {"extent", "shown", "pending"}) /\ committed.extent = page.plot[p].extent
    <3> HIDE DEF p, w
    <3> QED BY <1>2 DEF IsRecord, PageShape
  <2> HIDE DEF committed, p, w, rest
  <2> QED BY <1>2, <2>1 DEF IsRecord, PageShape, SameCharts
<1>4. CommitScale(page, p) \in {done, SetWindow(done, w, p)}
  BY DEF CommitScale
<1>5. SameCharts(done, SetWindow(done, w, p))
  <2> HIDE DEF done, w, p
  <2> QED BY <1>3, SetWindowKeepsCharts DEF SameCharts
<1>6. SameCharts(page, SetWindow(done, w, p))
  <2> HIDE DEF done, w, p
  <2> QED BY <1>3, <1>5 DEF SameCharts
<1>7. SameCharts(page, blank)
  <2> HIDE DEF p, rest
  <2> QED BY <1>2 DEF IsRecord, PageShape, SameCharts
<1>8. ShowStats(page, p) = blank
  BY Zenon DEF ShowStats
<1>9. SameCharts(page, page')
  <2> HIDE DEF done, blank, w, p
  <2> QED BY <1>1, <1>3, <1>4, <1>6, <1>7, <1>8
<1> QED BY <1>1, <1>9

LEMMA MicrotaskKeepsCardInv ==
  ASSUME CardInv, Microtask
  PROVE  CardInv'
BY MicrotaskKeepsCharts, SameChartsKeepCardInv

LEMMA ZoomKeepsCardInv ==
  ASSUME CardInv, NEW p \in Containers, NEW w \in Windows, Zoom(p, w)
  PROVE  CardInv'
<1> DEFINE range == [q \in {p} |-> w]
<1>1. page' = SetScale(page, <<p>>, range) /\ UNCHANGED cardVars
  BY DEF Zoom
<1> HIDE DEF range
<1> QED BY <1>1, SetScaleKeepsCharts, SameChartsKeepCardInv DEF CardInv

LEMMA ResetKeepsCardInv ==
  ASSUME CardInv, Reset
  PROVE  CardInv'
BY ResetKeepsCharts, SameChartsKeepCardInv DEF CardInv, Reset

\* A panel is no card.
LEMMA RedrawKeepsCardInv ==
  ASSUME CardInv, NEW p \in Panels,
         RedrawEmpty(p) \/ \E extent \in Extents[p] : Redraw(p, extent)
  PROVE  CardInv'
<1>1. PageShape(page) /\ p \in Containers /\ p \notin Cards /\ Cards \subseteq Containers
  BY ContainerAssumption DEF CardInv, Containers
<1>2. UNCHANGED cardVars /\ \E extent : ChartOf(page, page', p, extent)
  <2>1. CASE RedrawEmpty(p)
    BY <1>1, <2>1, DropClears DEF RedrawEmpty
  <2>2. ASSUME NEW extent, Redraw(p, extent)
        PROVE  UNCHANGED cardVars /\ ChartOf(page, page', p, extent)
    BY <1>1, <2>2, DrawGivesExtent DEF Redraw
  <2> QED BY <2>1, <2>2
<1> QED BY <1>1, <1>2, PageStepKeepsCardInv DEF ChartOf
-----------------------------------------------------------------------------
\* What is picked for the cards is stored whenever it, or the cards, change.
StoredNow == layout' = Selections(page'.cards, selected')

LEMMA CreateKeepsCardInv ==
  ASSUME CardInv, NEW selection \in SUBSET Counters, CreateChart(selection)
  PROVE  CardInv'
<1> DEFINE c == created + 1
<1>1. /\ created < MaxCards /\ created' = c
      /\ page' = [page EXCEPT !.cards = @ \cup {c}]
      /\ selected' = [selected EXCEPT ![c] = selection]
      /\ frames' = Append(frames, c)
      /\ UNCHANGED <<timers, drawn>> /\ StoredNow
  BY DEF CreateChart, StoredNow
<1>2. c \in Cards /\ c \in 1..created' /\ created' \in 0..MaxCards
  BY <1>1, LayoutAssumption DEF CardInv, Cards
<1>3. PageShape(page') /\ page'.cards = page.cards \cup {c} /\ page'.plot = page.plot
  <2> HIDE DEF c
  <2> QED BY <1>1 DEF CardInv, PageShape, IsRecord
<1>4. page'.cards \subseteq 1..created'
  BY <1>1, <1>2, <1>3, LayoutAssumption DEF CardInv
<1> HIDE DEF c
<1>5. frames' \in Seq(Cards) /\ ToSet(frames') = ToSet(frames) \cup {c}
  BY <1>1, <1>2, AppendAddsOne DEF CardInv
<1>6. selected' \in [Cards -> SUBSET Counters] /\ \A d \in Cards : d # c => selected'[d] = selected[d]
  BY <1>1, <1>2 DEF CardInv
<1>7. \A d \in page'.cards \ (ToSet(frames') \cup timers') : Fresh(d)'
  <2> SUFFICES ASSUME NEW d \in page'.cards \ (ToSet(frames') \cup timers')
               PROVE  Fresh(d)'
    OBVIOUS
  <2>1. d # c /\ d \in page.cards \ (ToSet(frames) \cup timers)
    BY <1>1, <1>3, <1>5
  <2>2. d \in Cards /\ Fresh(d)
    BY <2>1, CardsAreContainers DEF CardInv, CardsAsSelected, Fresh
  <2> QED BY <1>1, <1>3, <1>6, <2>1, <2>2 DEF Fresh, HasPlot
<1>8. CardsAsSelected'
  BY <1>1, <1>7 DEF CardsAsSelected, Fresh, StoredNow
<1> QED BY <1>1, <1>2, <1>3, <1>4, <1>5, <1>6, <1>8 DEF CardInv

LEMMA RemoveKeepsCardInv ==
  ASSUME CardInv, NEW c \in Cards, RemoveChart(c)
  PROVE  CardInv'
<1> DEFINE dropped == Drop(page, c)
<1>1. /\ page' = [dropped EXCEPT !.cards = @ \ {c}]
      /\ timers' = timers \ {c}
      /\ UNCHANGED <<created, frames, selected, drawn>> /\ StoredNow
  BY DEF RemoveChart, StoredNow
<1>2. ChartOf(page, dropped, c, None)
  BY CardsAreContainers, DropClears DEF CardInv
<1> HIDE DEF dropped
<1>3. /\ PageShape(page') /\ page'.cards = page.cards \ {c}
      /\ \A d \in Containers : d # c => page'.plot[d].extent = page.plot[d].extent
  BY <1>1, <1>2 DEF ChartOf, PageShape, IsRecord
<1>4. \A d \in page'.cards \ (ToSet(frames') \cup timers') : Fresh(d)'
  <2> SUFFICES ASSUME NEW d \in page'.cards \ (ToSet(frames') \cup timers')
               PROVE  Fresh(d)'
    OBVIOUS
  <2>1. d # c /\ d \in page.cards \ (ToSet(frames) \cup timers)
    BY <1>1, <1>3
  <2>2. d \in Containers /\ Fresh(d)
    BY <2>1, CardsAreContainers DEF CardInv, CardsAsSelected, Fresh
  <2> QED BY <1>1, <1>3, <2>1, <2>2 DEF Fresh, HasPlot
<1>5. CardsAsSelected'
  BY <1>1, <1>4 DEF CardsAsSelected, Fresh, StoredNow
<1> QED BY <1>1, <1>3, <1>5 DEF CardInv

LEMMA SelectKeepsCardInv ==
  ASSUME CardInv, NEW selection \in SUBSET Counters, Select(selection)
  PROVE  CardInv'
<1>1. /\ selected' = [selected EXCEPT ![active] = selection]
      /\ timers' = timers \cup {active}
      /\ UNCHANGED <<page, created, frames, drawn>> /\ StoredNow
  BY DEF Select, StoredNow
<1>2. selected' \in [Cards -> SUBSET Counters] /\ \A d \in Cards : d # active => selected'[d] = selected[d]
  BY <1>1 DEF CardInv
<1>3. \A d \in page'.cards \ (ToSet(frames') \cup timers') : Fresh(d)'
  <2> SUFFICES ASSUME NEW d \in page'.cards \ (ToSet(frames') \cup timers')
               PROVE  Fresh(d)'
    OBVIOUS
  <2>1. d # active /\ d \in page.cards \ (ToSet(frames) \cup timers)
    BY <1>1
  <2>2. d \in Cards /\ Fresh(d)
    BY <2>1, CardsAreContainers DEF CardInv, CardsAsSelected, Fresh
  <2> QED BY <1>1, <1>2, <2>1, <2>2 DEF Fresh, HasPlot
<1>4. CardsAsSelected'
  BY <1>1, <1>3 DEF CardsAsSelected, Fresh, StoredNow
<1> QED BY <1>1, <1>2, <1>4 DEF CardInv

\* rebuildChart brings its own card up to date and touches no other.
LEMMA RebuildRefreshes ==
  ASSUME CardInv, NEW c \in Cards, RebuildChart(c)
  PROVE  /\ PageShape(page') /\ page'.cards = page.cards
         /\ drawn' \in [Cards -> SUBSET Counters]
         /\ UNCHANGED <<created, selected, layout>>
         /\ Fresh(c)'
         /\ \A d \in Cards : d # c /\ Fresh(d) => Fresh(d)'
<1>1. /\ drawn' = [drawn EXCEPT ![c] = selected[c]]
      /\ UNCHANGED <<created, selected, layout>>
  BY DEF RebuildChart
<1>2. PICK extent \in Extents[c] :
        page' = IF selected[c] = {} THEN Drop(page, c) ELSE Draw(page, c, extent)
  BY DEF RebuildChart
<1>3. c \in Containers /\ Cards \subseteq Containers /\ extent # None
  BY CardsAreContainers, ExtentAssumption, NoneAssumption
<1>4. ChartOf(page, page', c, IF selected[c] = {} THEN None ELSE extent)
  BY <1>2, <1>3, DropClears, DrawGivesExtent DEF CardInv
<1>5. HasPlot(page', c) <=> selected[c] # {}
  BY <1>3, <1>4 DEF ChartOf, HasPlot
<1>6. /\ drawn' \in [Cards -> SUBSET Counters] /\ drawn'[c] = selected[c]
      /\ \A d \in Cards : d # c => drawn'[d] = drawn[d]
  BY <1>1 DEF CardInv
<1>7. Fresh(c)'
  BY <1>1, <1>5, <1>6 DEF Fresh
<1>8. \A d \in Cards : d # c /\ Fresh(d) => Fresh(d)'
  BY <1>1, <1>3, <1>4, <1>6 DEF ChartOf, Fresh, HasPlot
<1> QED BY <1>1, <1>4, <1>6, <1>7, <1>8 DEF ChartOf

LEMMA FrameKeepsCardInv ==
  ASSUME CardInv, AnimationFrame
  PROVE  CardInv'
<1> SUFFICES ASSUME NEW c, c = Head(frames) PROVE CardInv'
  OBVIOUS
<1>1. frames # <<>> /\ RebuildChart(c) /\ frames' = Tail(frames) /\ timers' = timers
  BY DEF AnimationFrame
<1>2. c \in Cards /\ frames' \in Seq(Cards) /\ ToSet(frames) = ToSet(frames') \cup {c}
  BY <1>1, TailLosesHead DEF CardInv
<1>3. /\ PageShape(page') /\ page'.cards = page.cards
      /\ drawn' \in [Cards -> SUBSET Counters]
      /\ UNCHANGED <<created, selected, layout>>
      /\ Fresh(c)' /\ \A d \in Cards : d # c /\ Fresh(d) => Fresh(d)'
  BY <1>1, <1>2, RebuildRefreshes
<1>4. \A d \in page'.cards \ (ToSet(frames') \cup timers') : Fresh(d)'
  BY <1>1, <1>2, <1>3, CardsAreContainers DEF CardInv, CardsAsSelected, Fresh
<1>5. CardsAsSelected'
  BY <1>3, <1>4 DEF CardInv, CardsAsSelected, Fresh, Selections
<1> QED BY <1>1, <1>2, <1>3, <1>5 DEF CardInv

LEMMA ThrottledKeepsCardInv ==
  ASSUME CardInv, NEW c \in Cards, Throttled(c)
  PROVE  CardInv'
<1>1. RebuildChart(c) /\ timers' = timers \ {c} /\ frames' = frames
  BY DEF Throttled
<1>2. /\ PageShape(page') /\ page'.cards = page.cards
      /\ drawn' \in [Cards -> SUBSET Counters]
      /\ UNCHANGED <<created, selected, layout>>
      /\ Fresh(c)' /\ \A d \in Cards : d # c /\ Fresh(d) => Fresh(d)'
  BY <1>1, RebuildRefreshes
<1>3. \A d \in page'.cards \ (ToSet(frames') \cup timers') : Fresh(d)'
  BY <1>1, <1>2, CardsAreContainers DEF CardInv, CardsAsSelected, Fresh
<1>4. CardsAsSelected'
  BY <1>2, <1>3 DEF CardInv, CardsAsSelected, Fresh, Selections
<1> QED BY <1>1, <1>2, <1>4 DEF CardInv
LEMMA StepKeepsCardInv ==
  ASSUME CardInv, [Next]_vars
  PROVE  CardInv'
<1>1. CASE Microtask
  BY <1>1, MicrotaskKeepsCardInv
<1>2. CASE Reset
  BY <1>2, ResetKeepsCardInv
<1>3. CASE \E p \in Containers, w \in Windows : Zoom(p, w)
  BY <1>3, ZoomKeepsCardInv
<1>4. CASE \E p \in Panels : RedrawEmpty(p) \/ \E extent \in Extents[p] : Redraw(p, extent)
  BY <1>4, RedrawKeepsCardInv
<1>5. CASE AddNewChart
  BY <1>5, CreateKeepsCardInv DEF AddNewChart
<1>6. ASSUME NEW c \in Cards, DuplicateChart(c)
      PROVE  CardInv'
  <2>1. selected[c] \in SUBSET Counters
    BY DEF CardInv
  <2> QED BY <1>6, <2>1, CreateKeepsCardInv DEF DuplicateChart
<1>7. CASE UNCHANGED cardVars /\ UNCHANGED page
  BY <1>7, PageStepKeepsCardInv DEF CardInv
<1>8. ASSUME NEW c \in Cards, SetActive(c)
      PROVE  CardInv'
  BY <1>8 DEF SetActive, CardInv, CardsAsSelected
<1>9. ASSUME NEW c \in Cards, RemoveChart(c)
      PROVE  CardInv'
  BY <1>9, RemoveKeepsCardInv
<1>10. ASSUME NEW c \in Cards, Throttled(c)
       PROVE  CardInv'
  BY <1>10, ThrottledKeepsCardInv
<1>11. CASE \E selection \in SUBSET Counters : Select(selection)
  BY <1>11, SelectKeepsCardInv
<1>12. CASE AnimationFrame
  BY <1>12, FrameKeepsCardInv
<1>13. CASE UNCHANGED vars
  BY <1>7, <1>13 DEF vars
<1> QED
  BY <1>1, <1>2, <1>3, <1>4, <1>5, <1>6, <1>8, <1>9, <1>10, <1>11, <1>12, <1>13 DEF Next

\* 02.js: in any order of clicks, timers and animation frames, over any number of
\* cards, a card for which no redraw is due shows what is picked for it, and the
\* stored layout is what the cards have picked.
THEOREM CardsFollowSelection ==
  Spec => []CardsAsSelected
<1>1. Init => CardInv
  BY InitEstablishesCardInv
<1>2. CardInv /\ [Next]_vars => CardInv'
  BY StepKeepsCardInv
<1>3. CardInv => CardsAsSelected
  BY DEF CardInv
<1> QED BY <1>1, <1>2, <1>3, PTL DEF Spec
-----------------------------------------------------------------------------
(* What Among selects. *)
\* A set of numbers that is not empty has a least one: how the lemmas below
\* make their inductions.
LEMMA LeastNumber ==
  ASSUME NEW T, T \subseteq Nat, T # {}
  PROVE  \E m \in T : \A n \in T : m <= n
<1> DEFINE R == {ss \in Nat \X Nat : ss[1] < ss[2]}
<1>1. IsWellFoundedOn(R, Nat)
  BY NatLessThanWellFounded DEF OpToRel
<1> HIDE DEF R
<1>2. PICK m \in T : \A n \in T : <<n, m>> \notin R
  BY <1>1, WFMin
<1>3. ASSUME NEW n \in T PROVE m <= n
  <2>1. m \in Nat /\ n \in Nat /\ <<n, m>> \notin R
    BY <1>2
  <2> QED
    BY <2>1 DEF R
<1> QED
  BY <1>2, <1>3

\* A sequence stays injective when what it does not have is appended.
LEMMA AppendInjects ==
  ASSUME NEW T, NEW s \in Seq(T), IsInjective(s), NEW e \in T, e \notin ToSet(s)
  PROVE  IsInjective(Append(s, e))
<1>1. /\ DOMAIN s = 1..Len(s) /\ DOMAIN Append(s, e) = 1..(Len(s) + 1) /\ Len(s) \in Nat
      /\ \A i \in 1..Len(s) : Append(s, e)[i] = s[i] /\ s[i] # e
      /\ Append(s, e)[Len(s) + 1] = e
  BY AppendProperties, LenProperties DEF ToSet
<1> SUFFICES ASSUME NEW i \in 1..(Len(s) + 1), NEW j \in 1..(Len(s) + 1),
                    Append(s, e)[i] = Append(s, e)[j]
             PROVE  i = j
  BY <1>1 DEF IsInjective
<1>2. CASE i \in 1..Len(s) /\ j \in 1..Len(s)
  BY <1>1, <1>2 DEF IsInjective
<1>3. CASE i = Len(s) + 1 \/ j = Len(s) + 1
  BY <1>1, <1>3
<1> QED
  BY <1>1, <1>2, <1>3

\* kept[n]: what of the first n of ps is in S.
Keeps(N, ps, S, kept) ==
  /\ DOMAIN kept = 0..N
  /\ kept[0] = <<>>
  /\ \A n \in 1..N : kept[n] = IF ps[n] \in S THEN Append(kept[n - 1], ps[n]) ELSE kept[n - 1]

LEMMA KeptExist ==
  ASSUME NEW ps, NEW S, NEW N \in Nat
  PROVE  \E kept : Keeps(N, ps, S, kept)
<1> DEFINE T == {n \in Nat : ~\E kept : Keeps(n, ps, S, kept)}
<1> SUFFICES ASSUME T # {} PROVE FALSE
  OBVIOUS
<1>1. PICK m \in T : \A n \in T : m <= n
  BY LeastNumber
<1>2. CASE m = 0
  <2>1. Keeps(0, ps, S, [n \in 0..0 |-> <<>>])
    BY DEF Keeps
  <2> QED
    BY <1>2, <2>1
<1>3. CASE m # 0
  <2>1. m \in Nat /\ m - 1 \in Nat /\ m - 1 \notin T
    BY <1>1, <1>3
  <2>2. PICK f : Keeps(m - 1, ps, S, f)
    BY <2>1
  <2> DEFINE last == IF ps[m] \in S THEN Append(f[m - 1], ps[m]) ELSE f[m - 1]
             g == [n \in 0..m |-> IF n = m THEN last ELSE f[n]]
  <2> HIDE DEF last
  <2>3. DOMAIN g = 0..m /\ g[0] = <<>>
    BY <1>3, <2>1, <2>2 DEF Keeps
  <2>4. g[m] = last /\ \A n \in 0..(m - 1) : g[n] = f[n]
    BY <2>1
  <2> HIDE DEF g
  <2>5. ASSUME NEW n \in 1..m
        PROVE  g[n] = IF ps[n] \in S THEN Append(g[n - 1], ps[n]) ELSE g[n - 1]
    <3>1. CASE n = m
      <4>1. g[n - 1] = f[m - 1]
        BY <2>1, <2>4, <3>1
      <4> QED
        BY <2>4, <3>1, <4>1 DEF last
    <3>2. CASE n # m
      <4>1. n \in 1..(m - 1) /\ n \in 0..(m - 1) /\ n - 1 \in 0..(m - 1)
        BY <2>1, <3>2
      <4>2. g[n] = f[n] /\ g[n - 1] = f[n - 1]
        BY <2>4, <4>1
      <4> QED
        BY <2>2, <4>1, <4>2 DEF Keeps
    <3> QED
      BY <3>1, <3>2
  <2>6. Keeps(m, ps, S, g)
    BY <2>3, <2>5 DEF Keeps
  <2> QED
    BY <1>1, <2>6
<1> QED
  BY <1>2, <1>3

\* Among selects the elements of S, in the order of ps.
LEMMA AmongSelects ==
  ASSUME NEW T, NEW ps \in Seq(T), NEW S
  PROVE  /\ Among(ps, S) \in Seq(T)
         /\ ToSet(Among(ps, S)) = ToSet(ps) \cap S
         /\ IsInjective(ps) => IsInjective(Among(ps, S))
<1> DEFINE Solves(f) == f = [n \in 0..Len(ps) |->
                               IF n = 0 THEN <<>>
                               ELSE IF ps[n] \in S THEN Append(f[n - 1], ps[n]) ELSE f[n - 1]]
           kept == CHOOSE f : Solves(f)
<1>1. Len(ps) \in Nat /\ DOMAIN ps = 1..Len(ps) /\ \A n \in 1..Len(ps) : ps[n] \in T
  BY LenProperties, ElementOfSeq
<1>2. \E f : Solves(f)
  <2>1. PICK f : Keeps(Len(ps), ps, S, f)
    BY <1>1, KeptExist
  <2> DEFINE g == [n \in 0..Len(ps) |-> f[n]]
  <2>2. \A n \in 0..Len(ps) : g[n] = f[n]
    OBVIOUS
  <2>3. g = [n \in 0..Len(ps) |-> g[n]]
    OBVIOUS
  <2> HIDE DEF g
  <2>4. ASSUME NEW n \in 0..Len(ps)
        PROVE  g[n] = IF n = 0 THEN <<>> ELSE IF ps[n] \in S THEN Append(g[n - 1], ps[n]) ELSE g[n - 1]
    <3>1. CASE n = 0
      BY <2>1, <2>2, <3>1 DEF Keeps
    <3>2. CASE n # 0
      <4>1. n \in 1..Len(ps) /\ n - 1 \in 0..Len(ps)
        BY <1>1, <3>2
      <4> QED
        BY <2>1, <2>2, <3>2, <4>1 DEF Keeps
    <3> QED
      BY <3>1, <3>2
  <2>5. Solves(g)
    BY <2>3, <2>4
  <2> QED
    BY <2>5
<1>3. Solves(kept)
  <2> HIDE DEF Solves
  <2> QED
    BY <1>2
<1>4. Among(ps, S) = kept[Len(ps)]
  BY DEF Among
<1> HIDE DEF kept
<1>5. kept[0] = <<>>
  BY <1>1, <1>3
<1>6. \A n \in 1..Len(ps) : kept[n] = IF ps[n] \in S THEN Append(kept[n - 1], ps[n]) ELSE kept[n - 1]
  <2> SUFFICES ASSUME NEW n \in 1..Len(ps)
               PROVE  kept[n] = IF ps[n] \in S THEN Append(kept[n - 1], ps[n]) ELSE kept[n - 1]
    OBVIOUS
  <2>1. n \in 0..Len(ps) /\ n # 0
    BY <1>1
  <2> QED
    BY <1>3, <2>1
<1> HIDE DEF Solves
<1> DEFINE Selected(n) ==
      /\ kept[n] \in Seq(T)
      /\ ToSet(kept[n]) = {ps[i] : i \in 1..n} \cap S
      /\ IsInjective(ps) => IsInjective(kept[n])
    W == {n \in 0..Len(ps) : ~Selected(n)}
<1>7. W = {}
  <2> SUFFICES ASSUME W # {} PROVE FALSE
    OBVIOUS
  <2>1. PICK m \in W : \A n \in W : m <= n
    <3>1. W \subseteq Nat
      OBVIOUS
    <3> HIDE DEF W
    <3> QED
      BY <3>1, LeastNumber
  <2>2. m \in 0..Len(ps) /\ ~Selected(m)
    BY <2>1
  <2>3. m # 0
    <3>1. Selected(0)
      <4>1. ToSet(<<>>) = {} /\ IsInjective(<<>>) /\ <<>> \in Seq(T)
        BY DEF ToSet, IsInjective
      <4>2. {ps[i] : i \in 1..0} = {}
        OBVIOUS
      <4> QED
        BY <1>5, <4>1, <4>2
    <3> HIDE DEF Selected
    <3> QED
      BY <2>2, <3>1
  <2>4. m \in 1..Len(ps) /\ m - 1 \in 0..Len(ps) /\ m - 1 \notin W /\ m \in Nat
    <3>1. m \in 1..Len(ps) /\ m - 1 \in 0..Len(ps) /\ m \in Nat
      BY <1>1, <2>2, <2>3
    <3>2. ~(m <= m - 1)
      BY <3>1
    <3> HIDE DEF W
    <3> QED
      BY <2>1, <3>1, <3>2
  <2>5. Selected(m - 1)
    <3> HIDE DEF Selected
    <3> QED
      BY <2>4
  <2>6. {ps[i] : i \in 1..m} = {ps[i] : i \in 1..(m - 1)} \cup {ps[m]}
    <3>1. 1..m = 1..(m - 1) \cup {m}
      BY <2>4
    <3> QED
      BY <3>1
  <2>7. ps[m] \in T
    BY <1>1, <2>4
  <2>8. CASE ps[m] \in S
    <3>1. kept[m] = Append(kept[m - 1], ps[m])
      BY <1>6, <2>4, <2>8
    <3>2. kept[m] \in Seq(T) /\ ToSet(kept[m]) = ToSet(kept[m - 1]) \cup {ps[m]}
      BY <2>5, <2>7, <3>1, AppendAddsOne
    <3>3. IsInjective(ps) => IsInjective(kept[m])
      <4> SUFFICES ASSUME IsInjective(ps) PROVE IsInjective(kept[m])
        OBVIOUS
      <4>1. ps[m] \notin {ps[i] : i \in 1..(m - 1)}
        <5> SUFFICES ASSUME NEW i \in 1..(m - 1) PROVE ps[i] # ps[m]
          OBVIOUS
        <5>1. i \in DOMAIN ps /\ m \in DOMAIN ps /\ i # m
          BY <1>1, <2>4
        <5> QED
          BY <5>1 DEF IsInjective
      <4>2. ps[m] \notin ToSet(kept[m - 1])
        BY <2>5, <4>1
      <4> QED
        BY <2>5, <2>7, <3>1, <4>2, AppendInjects
    <3>4. ToSet(kept[m]) = {ps[i] : i \in 1..m} \cap S
      BY <2>5, <2>6, <2>8, <3>2
    <3> QED
      BY <2>2, <3>2, <3>3, <3>4
  <2>9. CASE ps[m] \notin S
    <3>1. kept[m] = kept[m - 1]
      BY <1>6, <2>4, <2>9
    <3>2. {ps[i] : i \in 1..m} \cap S = {ps[i] : i \in 1..(m - 1)} \cap S
      BY <2>6, <2>9
    <3> QED
      BY <2>2, <2>5, <3>1, <3>2
  <2> QED
    BY <2>8, <2>9
<1>8. Selected(Len(ps))
  <2>1. Len(ps) \in 0..Len(ps)
    BY <1>1
  <2> HIDE DEF Selected
  <2> QED
    BY <1>7, <2>1
<1>9. {ps[i] : i \in 1..Len(ps)} = ToSet(ps)
  BY <1>1 DEF ToSet
<1> QED
  BY <1>4, <1>8, <1>9
-----------------------------------------------------------------------------
(* The queue of microtasks, and setScale. *)
Tasks == [kind : {"commit", "stats"}, of : Containers]
\* A queue of microtasks, with one commit of a chart at most.
Queued(ts) ==
  /\ ts \in Seq(Tasks)
  /\ \A i, j \in DOMAIN ts : ts[i] = ts[j] /\ ts[i].kind = "commit" => i = j

LEMMA CommitsOf ==
  /\ \A p \in Containers : Commit(p) \in Tasks /\ Stats(p) \in Tasks
  /\ \A p, q : /\ Commit(p) # Stats(q)
               /\ (Commit(p) = Commit(q) => p = q) /\ (Stats(p) = Stats(q) => p = q)
  /\ \A t \in Tasks : t.of \in Containers /\ t \in {Commit(t.of), Stats(t.of)}
  /\ \A p : Commit(p).kind = "commit" /\ Stats(p).kind = "stats" /\ Commit(p).of = p /\ Stats(p).of = p
<1>1. \A p : Commit(p).kind = "commit" /\ Stats(p).kind = "stats" /\ Commit(p).of = p /\ Stats(p).of = p
  BY DEF Commit, Stats
<1>2. \A p \in Containers : Commit(p) \in Tasks /\ Stats(p) \in Tasks
  BY DEF Commit, Stats, Tasks
<1>3. \A t \in Tasks : t.of \in Containers /\ t \in {Commit(t.of), Stats(t.of)}
  BY DEF Commit, Stats, Tasks
<1> QED
  BY <1>1, <1>2, <1>3

\* Commits that are not in the queue yet are appended to it.
LEMMA CommitsJoin ==
  ASSUME NEW ts, Queued(ts), NEW new \in Seq(Containers), IsInjective(new),
         \A p \in ToSet(new) : ~Present(ts, Commit(p)),
         NEW joined, joined = ts \o [n \in DOMAIN new |-> Commit(new[n])]
  PROVE  Queued(joined) /\ ToSet(joined) = ToSet(ts) \cup {Commit(p) : p \in ToSet(new)}
<1> DEFINE more == [n \in DOMAIN new |-> Commit(new[n])]
           T == Tasks
<1>1. ts \in Seq(T) /\ Len(ts) \in Nat /\ DOMAIN ts = 1..Len(ts)
  BY LenProperties DEF Queued
<1>2. Len(new) \in Nat /\ DOMAIN new = 1..Len(new) /\ \A n \in 1..Len(new) : new[n] \in Containers
  BY LenProperties, ElementOfSeq
<1>3. more \in Seq(T) /\ Len(more) = Len(new) /\ \A n \in 1..Len(new) : more[n] = Commit(new[n])
  <2>1. \A n \in 1..Len(new) : Commit(new[n]) \in T
    BY <1>2, CommitsOf
  <2>2. more = [n \in 1..Len(new) |-> Commit(new[n])]
    BY <1>2
  <2> HIDE DEF T, more
  <2>3. more \in [1..Len(new) -> T]
    BY <2>1, <2>2
  <2> QED
    BY <1>2, <2>2, <2>3
<1>4. joined = ts \o more
  OBVIOUS
<1> HIDE DEF T, more
<1>5. /\ joined \in Seq(T) /\ Len(joined) = Len(ts) + Len(new)
      /\ \A i \in 1..(Len(ts) + Len(new)) : joined[i] = IF i <= Len(ts) THEN ts[i] ELSE more[i - Len(ts)]
  <2>1. /\ ts \o more \in Seq(T) /\ Len(ts \o more) = Len(ts) + Len(more)
        /\ \A i \in 1..(Len(ts) + Len(more)) : (ts \o more)[i] = IF i <= Len(ts) THEN ts[i] ELSE more[i - Len(ts)]
    BY Zenon, <1>1, <1>3, ConcatProperties
  <2> QED
    BY Zenon, <1>3, <1>4, <2>1
<1>6. DOMAIN joined = 1..(Len(ts) + Len(new))
  BY <1>5, LenProperties
<1>7. \A i \in 1..Len(ts) : i \in 1..(Len(ts) + Len(new)) /\ joined[i] = ts[i] /\ joined[i] \in ToSet(ts)
  <2> SUFFICES ASSUME NEW i \in 1..Len(ts)
               PROVE  i \in 1..(Len(ts) + Len(new)) /\ joined[i] = ts[i] /\ joined[i] \in ToSet(ts)
    OBVIOUS
  <2>1. i \in 1..(Len(ts) + Len(new)) /\ i <= Len(ts)
    BY <1>1, <1>2
  <2>2. joined[i] = ts[i]
    BY <1>5, <2>1
  <2>3. ts[i] \in ToSet(ts)
    BY <1>1 DEF ToSet
  <2> QED
    BY <2>1, <2>2, <2>3
<1>8. \A n \in 1..Len(new) : Len(ts) + n \in 1..(Len(ts) + Len(new)) /\ joined[Len(ts) + n] = Commit(new[n])
  <2> SUFFICES ASSUME NEW n \in 1..Len(new)
               PROVE  Len(ts) + n \in 1..(Len(ts) + Len(new)) /\ joined[Len(ts) + n] = Commit(new[n])
    OBVIOUS
  <2>1. /\ Len(ts) + n \in 1..(Len(ts) + Len(new)) /\ ~(Len(ts) + n <= Len(ts))
        /\ Len(ts) + n - Len(ts) = n
    BY <1>1, <1>2
  <2> QED
    BY <1>3, <1>5, <2>1
<1>9. \A i \in DOMAIN joined : i \in 1..Len(ts) \/ \E n \in 1..Len(new) : i = Len(ts) + n
  <2> SUFFICES ASSUME NEW i \in 1..(Len(ts) + Len(new)), i \notin 1..Len(ts)
               PROVE  \E n \in 1..Len(new) : i = Len(ts) + n
    BY <1>6
  <2>1. i - Len(ts) \in 1..Len(new) /\ i = Len(ts) + (i - Len(ts))
    BY <1>1, <1>2
  <2> QED
    BY <2>1
<1>10. ToSet(joined) = ToSet(ts) \cup {Commit(p) : p \in ToSet(new)}
  <2>1. ToSet(joined) \subseteq ToSet(ts) \cup {Commit(p) : p \in ToSet(new)}
    <3> SUFFICES ASSUME NEW i \in DOMAIN joined
                 PROVE  joined[i] \in ToSet(ts) \cup {Commit(p) : p \in ToSet(new)}
      BY DEF ToSet
    <3>1. CASE i \in 1..Len(ts)
      BY <1>7, <3>1
    <3>2. CASE \E n \in 1..Len(new) : i = Len(ts) + n
      <4>1. PICK n \in 1..Len(new) : i = Len(ts) + n
        BY <3>2
      <4>2. joined[i] = Commit(new[n]) /\ new[n] \in ToSet(new)
        BY <1>2, <1>8, <4>1 DEF ToSet
      <4> QED
        BY <4>2
    <3> QED
      BY <1>9, <3>1, <3>2
  <2>2. ToSet(ts) \subseteq ToSet(joined)
    BY <1>1, <1>6, <1>7 DEF ToSet
  <2>3. \A n \in 1..Len(new) : Commit(new[n]) \in ToSet(joined)
    BY <1>6, <1>8 DEF ToSet
  <2>4. {Commit(p) : p \in ToSet(new)} \subseteq ToSet(joined)
    BY <1>2, <2>3 DEF ToSet
  <2> QED
    BY <2>1, <2>2, <2>4
<1>11. ASSUME NEW i \in DOMAIN joined, NEW j \in DOMAIN joined, joined[i] = joined[j], joined[i].kind = "commit"
       PROVE  i = j
  <2>1. CASE i \in 1..Len(ts) /\ j \in 1..Len(ts)
    BY <1>1, <1>7, <1>11, <2>1 DEF Queued
  <2>2. ASSUME NEW m \in 1..Len(new), NEW n \in 1..Len(new), i = Len(ts) + m, j = Len(ts) + n
        PROVE  i = j
    <3>1. Commit(new[m]) = Commit(new[n])
      BY <1>8, <1>11, <2>2
    <3>2. new[m] = new[n]
      BY <3>1, CommitsOf
    <3> QED
      BY <1>2, <2>2, <3>2 DEF IsInjective
  <2>3. \A n \in 1..Len(new) : Commit(new[n]) \notin ToSet(ts)
    BY <1>2 DEF ToSet, Present
  <2>4. ~(i \in 1..Len(ts) /\ \E n \in 1..Len(new) : j = Len(ts) + n)
    BY <1>7, <1>8, <1>11, <2>3
  <2>5. ~(j \in 1..Len(ts) /\ \E n \in 1..Len(new) : i = Len(ts) + n)
    BY <1>7, <1>8, <1>11, <2>3
  <2> QED
    BY <1>9, <2>1, <2>2, <2>4, <2>5
<1> QED
  BY <1>5, <1>10, <1>11 DEF Queued, T

\* The first task is taken from the queue; a commit is then gone from it.
LEMMA QueueAdvances ==
  ASSUME NEW ts, Queued(ts), ts # <<>>
  PROVE  /\ Head(ts) \in Tasks /\ Queued(Tail(ts))
         /\ ToSet(ts) = ToSet(Tail(ts)) \cup {Head(ts)}
         /\ Head(ts).kind = "commit" => Head(ts) \notin ToSet(Tail(ts))
<1> DEFINE T == Tasks
<1>1. ts \in Seq(T) /\ Len(ts) \in Nat /\ DOMAIN ts = 1..Len(ts)
  BY LenProperties DEF Queued
<1>2. Head(ts) \in T /\ Tail(ts) \in Seq(T) /\ ToSet(ts) = ToSet(Tail(ts)) \cup {Head(ts)}
  <2> HIDE DEF T
  <2> QED
    BY <1>1, TailLosesHead
<1>3. /\ Head(ts) = ts[1] /\ 1 \in DOMAIN ts
      /\ DOMAIN Tail(ts) = 1..(Len(ts) - 1) /\ \A i \in 1..(Len(ts) - 1) : Tail(ts)[i] = ts[i + 1]
  <2>1. Head(ts) = ts[1] /\ Len(Tail(ts)) = Len(ts) - 1 /\ \A i \in 1..(Len(ts) - 1) : Tail(ts)[i] = ts[i + 1]
    <3> HIDE DEF T
    <3> QED
      BY <1>1, HeadTailProperties
  <2>2. Len(ts) # 0
    <3> HIDE DEF T
    <3> QED
      BY <1>1, EmptySeq
  <2>3. DOMAIN Tail(ts) = 1..Len(Tail(ts))
    <3> HIDE DEF T
    <3> QED
      BY <1>2, LenProperties
  <2> QED
    BY <1>1, <2>1, <2>2, <2>3
<1>4. \A i \in DOMAIN Tail(ts) : i + 1 \in DOMAIN ts /\ Tail(ts)[i] = ts[i + 1] /\ i \in Nat \ {0}
  BY <1>1, <1>3
<1>5. ASSUME NEW i \in DOMAIN Tail(ts), NEW j \in DOMAIN Tail(ts),
             Tail(ts)[i] = Tail(ts)[j], Tail(ts)[i].kind = "commit"
      PROVE  i = j
  <2>1. i + 1 = j + 1
    BY <1>4, <1>5 DEF Queued
  <2> QED
    BY <1>4, <2>1
<1>6. ASSUME Head(ts).kind = "commit", Head(ts) \in ToSet(Tail(ts))
      PROVE  FALSE
  <2>1. PICK i \in DOMAIN Tail(ts) : Head(ts) = Tail(ts)[i]
    BY <1>6 DEF ToSet
  <2>2. ts[1] = ts[i + 1] /\ i + 1 \in DOMAIN ts /\ i + 1 # 1 /\ ts[1].kind = "commit"
    BY <1>3, <1>4, <1>6, <2>1
  <2> QED
    BY <1>3, <2>2 DEF Queued
<1> QED
  BY <1>2, <1>5, <1>6 DEF Queued, T

\* qg is pg after setScale on the charts in S: nothing moves before the commit.
Rescaled(pg, qg, S, range) ==
  /\ PageShape(qg) /\ Queued(qg.tasks)
  /\ qg.registry = pg.registry /\ qg.win = pg.win /\ qg.legend = pg.legend /\ qg.cards = pg.cards
  /\ ToSet(qg.tasks) = ToSet(pg.tasks) \cup {Commit(p) : p \in S}
  /\ \A p \in Containers :
       /\ qg.plot[p].extent = pg.plot[p].extent /\ qg.plot[p].shown = pg.plot[p].shown
       /\ qg.plot[p].pending = IF p \in S THEN range[p] ELSE pg.plot[p].pending

LEMMA SetScaleRescales ==
  ASSUME NEW pg, PageShape(pg), Queued(pg.tasks),
         NEW ps \in Seq(Containers), IsInjective(ps), NEW range
  PROVE  Rescaled(pg, SetScale(pg, ps, range), {p \in ToSet(ps) : ~Ignores(pg, p, range[p])}, range)
<1> DEFINE idle == {p \in Containers : ~Present(pg.tasks, Commit(p))}
           S == {p \in ToSet(ps) : ~Ignores(pg, p, range[p])}
           taking == Among(ps, S)
           new == Uncommitted(pg, taking)
           plot == [p \in Containers |-> IF Present(taking, p) THEN [pg.plot[p] EXCEPT !.pending = range[p]]
                                         ELSE pg.plot[p]]
           tasks == pg.tasks \o [n \in DOMAIN new |-> Commit(new[n])]
           qg == SetScale(pg, ps, range)
<1>1. qg = [pg EXCEPT !.plot = plot, !.tasks = tasks]
  BY Zenon DEF SetScale
<1>2. taking \in Seq(Containers) /\ IsInjective(taking) /\ ToSet(taking) = S
  <2>1. S \subseteq ToSet(ps) /\ taking = Among(ps, S)
    OBVIOUS
  <2> HIDE DEF S, taking
  <2> QED
    <3>1. /\ Among(ps, S) \in Seq(Containers) /\ ToSet(Among(ps, S)) = ToSet(ps) \cap S
          /\ IsInjective(Among(ps, S))
      BY AmongSelects
    <3> QED
      BY <2>1, <3>1
<1> HIDE DEF S, taking
<1>3. new \in Seq(Containers) /\ IsInjective(new) /\ ToSet(new) = ToSet(taking) \cap idle
  <2> HIDE DEF idle
  <2>1. new = Among(taking, idle)
    BY DEF Uncommitted, idle
  <2> HIDE DEF new
  <2> QED
    BY <1>2, <2>1, AmongSelects
<1>4. Queued(tasks) /\ ToSet(tasks) = ToSet(pg.tasks) \cup {Commit(p) : p \in ToSet(new)}
  <2>1. \A p \in ToSet(new) : ~Present(pg.tasks, Commit(p))
    BY <1>3
  <2> HIDE DEF new
  <2> QED
    BY <1>3, <2>1, CommitsJoin
<1>5. ToSet(tasks) = ToSet(pg.tasks) \cup {Commit(p) : p \in ToSet(taking)}
  <2>1. \A p \in ToSet(taking) : p \in Containers
    BY <1>2, ElementOfSeq, LenProperties DEF ToSet
  <2>2. \A p \in ToSet(taking) : p \in ToSet(new) \/ Commit(p) \in ToSet(pg.tasks)
    BY <1>3, <2>1 DEF Present
  <2> HIDE DEF tasks, new
  <2> QED
    BY <1>3, <1>4, <2>2
<1>6. IsRecord(plot, Containers)
  BY DEF IsRecord
<1>7. \A p \in Containers :
        /\ IsRecord(plot[p], {"extent", "shown", "pending"})
        /\ plot[p].extent = pg.plot[p].extent /\ plot[p].shown = pg.plot[p].shown
        /\ plot[p].pending = IF p \in ToSet(taking) THEN range[p] ELSE pg.plot[p].pending
  BY DEF IsRecord, PageShape, Present
<1> HIDE DEF plot, tasks, qg
<1>8. /\ qg.plot = plot /\ qg.tasks = tasks /\ qg.registry = pg.registry /\ qg.win = pg.win
      /\ qg.legend = pg.legend /\ qg.cards = pg.cards
      /\ IsRecord(qg, {"registry", "win", "plot", "legend", "tasks", "cards"})
  BY <1>1 DEF PageShape, IsRecord
<1>9. PageShape(qg)
  BY <1>6, <1>7, <1>8 DEF PageShape
<1>10. Rescaled(pg, qg, S, range)
  BY <1>2, <1>4, <1>5, <1>7, <1>8, <1>9 DEF Rescaled
<1> QED
  BY <1>10 DEF qg, S
-----------------------------------------------------------------------------
(* The invariant of the page: the charts follow the store's window. *)
\* A chart is registered as long as it has a plot, and only such a chart waits
\* for a commit, which is then in the queue; no stats are due without a window.
PageOK(pg) ==
  /\ PageShape(pg) /\ Queued(pg.tasks) /\ IsRecord(pg.legend, Containers)
  /\ pg.registry \in Seq(Containers) /\ IsInjective(pg.registry)
  /\ \A p \in Containers :
       /\ HasPlot(pg, p) <=> p \in ToSet(pg.registry)
       /\ pg.plot[p].pending # None <=> Commit(p) \in ToSet(pg.tasks)
       /\ pg.plot[p].pending # None => HasPlot(pg, p)
       /\ Stats(p) \in ToSet(pg.tasks) => pg.win # None
       /\ pg.plot[p].extent \notin Instants

LEMMA NoneIsNoInstant ==
  None \notin Instants
BY NoneAssumption, MomentAssumption

\* What the chart of p has to show.
Target(pg, p) == IF pg.win = None THEN FirstToLast(pg.plot[p].extent) ELSE pg.win

\* A chart shows its target, or waits for a commit that brings it there, or for
\* one that will move the target, or ignores it; its legend has the numbers of the store's window,
\* or will get them from the stats or the commit that are due.
Follows(pg, p) ==
  /\ \/ IF pg.plot[p].pending = None THEN pg.plot[p].shown = Target(pg, p)
        ELSE pg.plot[p].pending = Target(pg, p) \/ pg.plot[p].pending # pg.plot[p].shown
     \/ Ignores(pg, p, pg.win)
  /\ \/ pg.legend[p] = pg.win
     \/ Stats(p) \in ToSet(pg.tasks)
     \/ pg.win = None /\ pg.plot[p].shown = None /\ pg.plot[p].pending # None

Together(pg) ==
  /\ PageOK(pg)
  /\ \A p \in Containers : Connected(pg, p) /\ HasPlot(pg, p) => Follows(pg, p)

\* qg is pg after the window of the store became w: what is registered is told
\* and, but for the source and what ignores it, goes to show it.
Moved(pg, qg, w, source) ==
  LET told == {q \in ToSet(pg.registry) : q # source /\ Connected(pg, q) /\ ~Ignores(pg, q, w)} IN
  /\ PageShape(qg) /\ Queued(qg.tasks) /\ IsRecord(qg.legend, Containers)
  /\ qg.registry = pg.registry /\ qg.win = w /\ qg.cards = pg.cards
  /\ ToSet(qg.tasks) = ToSet(pg.tasks) \cup {Commit(q) : q \in told}
  /\ \A q \in Containers :
       /\ qg.plot[q].extent = pg.plot[q].extent /\ qg.plot[q].shown = pg.plot[q].shown
       /\ qg.plot[q].pending = IF q \in told THEN w ELSE pg.plot[q].pending
       /\ qg.legend[q] = IF q \in ToSet(pg.registry) THEN w ELSE pg.legend[q]

\* What Notify does to a page.
LEMMA NotifyTells ==
  ASSUME NEW pg, PageShape(pg)
  PROVE  LET qg == Notify(pg) IN
         /\ PageShape(qg) /\ IsRecord(qg.legend, Containers)
         /\ qg.registry = pg.registry /\ qg.win = pg.win /\ qg.cards = pg.cards
         /\ qg.tasks = pg.tasks /\ qg.plot = pg.plot
         /\ \A q \in Containers : qg.legend[q] = IF q \in ToSet(pg.registry) THEN pg.win ELSE pg.legend[q]
<1> DEFINE legend == [p \in Containers |-> IF Present(pg.registry, p) THEN pg.win ELSE pg.legend[p]]
           qg == Notify(pg)
<1>1. qg = [pg EXCEPT !.legend = legend]
  BY Zenon DEF Notify
<1>2. IsRecord(legend, Containers)
  BY DEF IsRecord
<1>3. \A q \in Containers : legend[q] = IF q \in ToSet(pg.registry) THEN pg.win ELSE pg.legend[q]
  BY DEF Present
<1> HIDE DEF legend, qg
<1>4. /\ qg.legend = legend /\ qg.registry = pg.registry /\ qg.win = pg.win /\ qg.cards = pg.cards
      /\ qg.tasks = pg.tasks /\ qg.plot = pg.plot
      /\ IsRecord(qg, {"registry", "win", "plot", "legend", "tasks", "cards"})
  BY <1>1 DEF PageShape, IsRecord
<1>5. PageShape(qg)
  BY <1>4 DEF PageShape
<1>6. \A q \in Containers : qg.legend[q] = IF q \in ToSet(pg.registry) THEN pg.win ELSE pg.legend[q]
  BY <1>3, <1>4
<1> QED
  BY <1>2, <1>4, <1>5, <1>6 DEF qg

LEMMA BroadcastMoves ==
  ASSUME NEW pg, PageShape(pg), Queued(pg.tasks),
         pg.registry \in Seq(Containers), IsInjective(pg.registry), NEW w, NEW source
  PROVE  Moved(pg, Broadcast([pg EXCEPT !.win = w], source), w, source)
<1> DEFINE moved == [pg EXCEPT !.win = w]
           able == {q \in Containers \ {source} : Connected(moved, q)}
           ps == Others(moved, source)
           range == [p \in Containers |-> moved.win]
           scaled == SetScale(moved, ps, range)
           told == {q \in ToSet(pg.registry) : q # source /\ Connected(pg, q) /\ ~Ignores(pg, q, w)}
<1>1. /\ PageShape(moved) /\ moved.registry = pg.registry /\ moved.win = w /\ moved.cards = pg.cards
      /\ moved.tasks = pg.tasks /\ moved.plot = pg.plot /\ moved.legend = pg.legend
  BY DEF PageShape, IsRecord
<1>2. ps = Among(pg.registry, able)
  BY <1>1 DEF Others
<1>3. \A q \in Containers : range[q] = w
  BY <1>1
<1>4. able = {q \in Containers : q # source /\ Connected(pg, q)}
  <2> HIDE DEF moved
  <2> QED
    BY <1>1 DEF Connected
<1>5. Broadcast(moved, source) = Notify(scaled)
  BY DEF Broadcast
<1> HIDE DEF moved, able, range
<1>6. ps \in Seq(Containers) /\ IsInjective(ps) /\ ToSet(ps) = ToSet(pg.registry) \cap able
  <2> HIDE DEF ps
  <2> QED
    BY <1>2, AmongSelects
<1>7. told \subseteq Containers /\ {q \in ToSet(ps) : ~Ignores(moved, q, range[q])} = told
  <2>1. \A q \in ToSet(pg.registry) : q \in Containers
    BY ElementOfSeq, LenProperties DEF ToSet
  <2>2. \A q \in Containers : Ignores(moved, q, range[q]) <=> Ignores(pg, q, w)
    BY <1>1, <1>3 DEF Ignores
  <2> HIDE DEF ps
  <2> QED
    BY <1>4, <1>6, <2>1, <2>2
<1> HIDE DEF ps, told
<1>8. Rescaled(moved, scaled, told, range)
  <2>1. Rescaled(moved, scaled, {q \in ToSet(ps) : ~Ignores(moved, q, range[q])}, range)
    BY <1>1, <1>6, SetScaleRescales
  <2> QED
    BY <1>7, <2>1
<1> HIDE DEF scaled
<1>9. PageShape(scaled)
  BY <1>8 DEF Rescaled
<1> DEFINE qg == Notify(scaled)
<1>10. /\ PageShape(qg) /\ IsRecord(qg.legend, Containers)
       /\ qg.registry = scaled.registry /\ qg.win = scaled.win /\ qg.cards = scaled.cards
       /\ qg.tasks = scaled.tasks /\ qg.plot = scaled.plot
       /\ \A q \in Containers : qg.legend[q] = IF q \in ToSet(scaled.registry) THEN scaled.win ELSE scaled.legend[q]
  BY <1>9, NotifyTells
<1> HIDE DEF qg
<1>11. /\ qg.registry = pg.registry /\ qg.win = w /\ qg.cards = pg.cards
       /\ Queued(qg.tasks) /\ ToSet(qg.tasks) = ToSet(pg.tasks) \cup {Commit(q) : q \in told}
  BY <1>1, <1>8, <1>10 DEF Rescaled
<1>12. \A q \in Containers :
         /\ qg.plot[q].extent = pg.plot[q].extent /\ qg.plot[q].shown = pg.plot[q].shown
         /\ qg.plot[q].pending = IF q \in told THEN w ELSE pg.plot[q].pending
  BY <1>1, <1>3, <1>8, <1>10 DEF Rescaled
<1>13. \A q \in Containers : qg.legend[q] = IF q \in ToSet(pg.registry) THEN w ELSE pg.legend[q]
  BY <1>1, <1>8, <1>10 DEF Rescaled
<1>14. Moved(pg, qg, w, source)
  BY <1>10, <1>11, <1>12, <1>13 DEF Moved, told
<1> QED
  BY <1>5, <1>14 DEF moved, qg

\* qg is pg after the commit of the chart of p, before the hook.
Committed(pg, qg, p) ==
  /\ PageShape(qg) /\ Queued(qg.tasks)
  /\ qg.registry = pg.registry /\ qg.win = pg.win /\ qg.legend = pg.legend /\ qg.cards = pg.cards
  /\ Commit(p) \notin ToSet(qg.tasks) /\ ToSet(pg.tasks) = ToSet(qg.tasks) \cup {Commit(p)}
  /\ \A q \in Containers :
       /\ qg.plot[q].extent = pg.plot[q].extent
       /\ qg.plot[q].shown = IF q = p THEN pg.plot[p].pending ELSE pg.plot[q].shown
       /\ qg.plot[q].pending = IF q = p THEN None ELSE pg.plot[q].pending

LEMMA CommitIsApplied ==
  ASSUME NEW pg, PageOK(pg), NEW p \in Containers, pg.tasks # <<>>, Head(pg.tasks) = Commit(p)
  PROVE  LET qg == CommitScale(pg, p) w == pg.plot[p].pending IN
         \E done :
           /\ Committed(pg, done, p)
           /\ IF w = pg.plot[p].shown \/ w = pg.win THEN qg = done ELSE Moved(done, qg, w, p)
<1> DEFINE w == pg.plot[p].pending
           rest == Tail(pg.tasks)
           plot == [pg.plot[p] EXCEPT !.shown = w, !.pending = None]
           done == [pg EXCEPT !.plot[p] = plot, !.tasks = rest]
<1>1. Queued(rest) /\ Commit(p) \notin ToSet(rest) /\ ToSet(pg.tasks) = ToSet(rest) \cup {Commit(p)}
  BY QueueAdvances, CommitsOf DEF PageOK
<1>2. CommitScale(pg, p) = IF w = pg.plot[p].shown THEN done ELSE SetWindow(done, w, p)
  BY Zenon DEF CommitScale
<1>3. /\ IsRecord(plot, {"extent", "shown", "pending"})
      /\ plot.extent = pg.plot[p].extent /\ plot.shown = w /\ plot.pending = None
  <2> HIDE DEF w
  <2> QED
    BY DEF PageOK, PageShape, IsRecord
<1> HIDE DEF w, rest, plot
<1>4. /\ done.registry = pg.registry /\ done.win = pg.win /\ done.legend = pg.legend /\ done.cards = pg.cards
      /\ done.tasks = rest /\ IsRecord(done.plot, Containers)
      /\ IsRecord(done, {"registry", "win", "plot", "legend", "tasks", "cards"})
      /\ done.plot[p] = plot /\ \A q \in Containers : q # p => done.plot[q] = pg.plot[q]
  BY DEF PageOK, PageShape, IsRecord
<1> HIDE DEF done
<1>5. PageShape(done)
  BY <1>3, <1>4 DEF PageOK, PageShape
<1>6. Committed(pg, done, p)
  BY <1>1, <1>3, <1>4, <1>5 DEF Committed, w
<1>7. SetWindow(done, w, p) = IF w = pg.win THEN done ELSE Broadcast([done EXCEPT !.win = w], p)
  BY <1>4 DEF SetWindow
<1>8. Moved(done, Broadcast([done EXCEPT !.win = w], p), w, p)
  <2>1. Queued(done.tasks) /\ done.registry \in Seq(Containers) /\ IsInjective(done.registry)
    BY <1>1, <1>4 DEF PageOK
  <2> QED
    BY <1>5, <2>1, BroadcastMoves
<1> QED
  BY <1>2, <1>6, <1>7, <1>8 DEF w

LEMMA CommitKeepsTogether ==
  ASSUME NEW pg, Together(pg), NEW p \in Containers, pg.tasks # <<>>, Head(pg.tasks) = Commit(p)
  PROVE  Together(CommitScale(pg, p))
<1> DEFINE w == pg.plot[p].pending
           qg == CommitScale(pg, p)
<1>1. PICK done : /\ Committed(pg, done, p)
                  /\ IF w = pg.plot[p].shown \/ w = pg.win THEN qg = done ELSE Moved(done, qg, w, p)
  BY CommitIsApplied DEF Together
<1>2. w # None
  <2>1. Commit(p) \in ToSet(pg.tasks)
    BY <1>1 DEF Committed
  <2> QED
    BY <2>1 DEF Together, PageOK
<1>3. \A q \in Containers :
        /\ HasPlot(done, q) <=> HasPlot(pg, q)
        /\ Connected(done, q) <=> Connected(pg, q)
        /\ Target(done, q) = Target(pg, q)
        /\ \A v : Ignores(done, q, v) <=> Ignores(pg, q, v)
        /\ Stats(q) \in ToSet(done.tasks) <=> Stats(q) \in ToSet(pg.tasks)
        /\ q # p => (Commit(q) \in ToSet(done.tasks) <=> Commit(q) \in ToSet(pg.tasks))
  BY <1>1, CommitsOf DEF Committed, HasPlot, Connected, Target, Ignores
<1>4. PageOK(done)
  <2>1. \A q \in Containers : done.plot[q].pending # None <=> Commit(q) \in ToSet(done.tasks)
    BY <1>1, <1>3 DEF Committed, Together, PageOK
  <2>2. \A q \in Containers :
          /\ HasPlot(done, q) <=> q \in ToSet(done.registry)
          /\ done.plot[q].pending # None => HasPlot(done, q)
          /\ Stats(q) \in ToSet(done.tasks) => done.win # None
          /\ done.plot[q].extent \notin Instants
    BY <1>1, <1>3 DEF Committed, Together, PageOK
  <2> QED
    BY <1>1, <2>1, <2>2 DEF Committed, Together, PageOK
<1>5. ASSUME NEW q \in Containers, q # p, Connected(pg, q), HasPlot(pg, q)
      PROVE  Follows(done, q)
  <2>1. Follows(pg, q)
    BY <1>5 DEF Together
  <2>2. /\ done.plot[q].pending = pg.plot[q].pending /\ done.plot[q].shown = pg.plot[q].shown
        /\ done.legend[q] = pg.legend[q] /\ done.win = pg.win
    BY <1>1, <1>5 DEF Committed
  <2> QED
    BY <1>3, <2>1, <2>2 DEF Follows
<1>6. CASE w = pg.plot[p].shown \/ w = pg.win
  <2>1. ASSUME Connected(pg, p), HasPlot(pg, p)
        PROVE  Follows(done, p)
    <3>1. Follows(pg, p)
      BY <2>1 DEF Together
    <3>2. done.plot[p].pending = None /\ done.plot[p].shown = w /\ done.win = pg.win /\ done.legend[p] = pg.legend[p]
      BY <1>1 DEF Committed
    <3>3. w = Target(pg, p) \/ Ignores(pg, p, pg.win)
      BY <1>2, <1>6, <3>1 DEF Follows, Target
    <3>4. pg.legend[p] = pg.win \/ Stats(p) \in ToSet(pg.tasks)
      BY <1>2, <1>6, <3>1 DEF Follows
    <3> QED
      BY <1>3, <3>2, <3>3, <3>4 DEF Follows
  <2>2. \A q \in Containers : Connected(done, q) /\ HasPlot(done, q) => Follows(done, q)
    BY <1>3, <1>5, <2>1
  <2>3. qg = done
    BY <1>1, <1>6
  <2> HIDE DEF qg
  <2>4. Together(qg)
    BY <1>4, <2>2, <2>3 DEF Together
  <2> QED
    BY <2>4 DEF qg
<1>7. CASE ~(w = pg.plot[p].shown \/ w = pg.win)
  <2>1. Moved(done, qg, w, p)
    BY <1>1, <1>7
  <2> HIDE DEF qg, w
  <2>2. \A q \in Containers :
          /\ HasPlot(qg, q) <=> HasPlot(done, q)
          /\ Connected(qg, q) <=> Connected(done, q)
          /\ Ignores(qg, q, w) <=> Ignores(done, q, w)
          /\ Stats(q) \in ToSet(qg.tasks) <=> Stats(q) \in ToSet(done.tasks)
    BY <2>1, CommitsOf DEF Moved, HasPlot, Connected, Ignores
  <2>3. PageOK(qg)
    <3>1. \A q \in Containers : qg.plot[q].pending # None <=> Commit(q) \in ToSet(qg.tasks)
      BY <1>2, <1>4, <2>1, CommitsOf DEF Moved, PageOK
    <3>2. \A q \in Containers :
            /\ HasPlot(qg, q) <=> q \in ToSet(qg.registry)
            /\ qg.plot[q].pending # None => HasPlot(qg, q)
            /\ Stats(q) \in ToSet(qg.tasks) => qg.win # None
            /\ qg.plot[q].extent \notin Instants
      BY <1>2, <1>4, <2>1, <2>2 DEF Moved, PageOK
    <3>3. /\ PageShape(qg) /\ Queued(qg.tasks) /\ IsRecord(qg.legend, Containers)
          /\ qg.registry \in Seq(Containers) /\ IsInjective(qg.registry)
      BY <1>4, <2>1 DEF Moved, PageOK
    <3> QED
      BY <3>1, <3>2, <3>3 DEF PageOK
  <2>4. ASSUME NEW q \in Containers, Connected(qg, q), HasPlot(qg, q)
        PROVE  Follows(qg, q)
    <3>1. q \in ToSet(done.registry) /\ Connected(done, q)
      BY <1>4, <2>2, <2>4 DEF PageOK
    <3>2. qg.win = w /\ qg.legend[q] = w /\ Target(qg, q) = w
      BY <1>2, <2>1, <3>1 DEF Moved, Target
    <3>3. CASE q = p
      <4>1. qg.plot[q].pending = None /\ qg.plot[q].shown = w
        BY <1>1, <2>1, <3>3 DEF Moved, Committed, w
      <4> QED
        BY <3>2, <4>1 DEF Follows
    <3>4. CASE q # p /\ ~Ignores(done, q, w)
      <4>1. qg.plot[q].pending = w
        BY <2>1, <3>1, <3>4 DEF Moved
      <4> QED
        BY <1>2, <3>2, <4>1 DEF Follows
    <3>5. CASE Ignores(done, q, w)
      BY <2>2, <3>2, <3>5 DEF Follows
    <3> QED
      BY <3>3, <3>4, <3>5
  <2>5. Together(qg)
    BY <2>3, <2>4 DEF Together
  <2> QED
    BY <2>5 DEF qg
<1> QED
  BY <1>6, <1>7

\* ShowStats gives the legend the numbers of the window: there is one.
LEMMA StatsKeepTogether ==
  ASSUME NEW pg, Together(pg), NEW p \in Containers, pg.tasks # <<>>, Head(pg.tasks) = Stats(p)
  PROVE  Together(ShowStats(pg, p))
<1> DEFINE rest == Tail(pg.tasks)
           qg == ShowStats(pg, p)
<1>1. Queued(rest) /\ ToSet(pg.tasks) = ToSet(rest) \cup {Stats(p)}
  BY QueueAdvances DEF Together, PageOK
<1>2. pg.win # None
  BY <1>1 DEF Together, PageOK
<1>3. qg = [pg EXCEPT !.legend[p] = pg.win, !.tasks = rest]
  BY Zenon, <1>2 DEF ShowStats
<1> HIDE DEF rest, qg
<1>4. /\ qg.registry = pg.registry /\ qg.win = pg.win /\ qg.plot = pg.plot /\ qg.cards = pg.cards
      /\ qg.tasks = rest /\ IsRecord(qg.legend, Containers)
      /\ IsRecord(qg, {"registry", "win", "plot", "legend", "tasks", "cards"})
      /\ qg.legend[p] = pg.win /\ \A q \in Containers : q # p => qg.legend[q] = pg.legend[q]
  BY <1>3 DEF Together, PageOK, PageShape, IsRecord
<1>5. \A q \in Containers :
        /\ HasPlot(qg, q) <=> HasPlot(pg, q)
        /\ Connected(qg, q) <=> Connected(pg, q)
        /\ Target(qg, q) = Target(pg, q)
        /\ Ignores(qg, q, qg.win) <=> Ignores(pg, q, pg.win)
        /\ Commit(q) \in ToSet(rest) <=> Commit(q) \in ToSet(pg.tasks)
        /\ Stats(q) \in ToSet(rest) => Stats(q) \in ToSet(pg.tasks)
        /\ q # p => (Stats(q) \in ToSet(rest) <=> Stats(q) \in ToSet(pg.tasks))
  BY <1>1, <1>4, CommitsOf DEF HasPlot, Connected, Target, Ignores
<1>6. PageOK(qg)
  <2>1. PageShape(qg)
    BY <1>4 DEF Together, PageOK, PageShape
  <2> QED
    BY <1>1, <1>4, <1>5, <2>1 DEF Together, PageOK
<1>7. ASSUME NEW q \in Containers, Connected(qg, q), HasPlot(qg, q)
      PROVE  Follows(qg, q)
  <2>1. Follows(pg, q)
    BY <1>5, <1>7 DEF Together
  <2> QED
    BY <1>4, <1>5, <2>1 DEF Follows
<1>8. Together(qg)
  BY <1>6, <1>7 DEF Together
<1> QED
  BY <1>8 DEF qg

\* A page at rest waits for nothing.
LEMMA RestIsQuiet ==
  ASSUME NEW pg, PageOK(pg), pg.tasks = <<>>
  PROVE  ToSet(pg.tasks) = {} /\ \A q \in Containers : pg.plot[q].pending = None
BY DEF PageOK, ToSet

\* qg is pg, at rest, after a new range was asked of the charts in S.
LEMMA RescaledKeepsTogether ==
  ASSUME NEW pg, NEW qg, Together(pg), pg.tasks = <<>>, NEW S, S \subseteq ToSet(pg.registry), NEW range,
         Rescaled(pg, qg, S, range),
         \A q \in S : range[q] # None /\ range[q] # pg.plot[q].shown
  PROVE  Together(qg)
<1>1. ToSet(pg.tasks) = {} /\ \A q \in Containers : pg.plot[q].pending = None
  BY RestIsQuiet DEF Together
<1>2. \A q \in Containers :
        /\ HasPlot(qg, q) <=> HasPlot(pg, q)
        /\ Connected(qg, q) <=> Connected(pg, q)
        /\ Target(qg, q) = Target(pg, q)
        /\ Ignores(qg, q, qg.win) <=> Ignores(pg, q, pg.win)
        /\ Stats(q) \notin ToSet(qg.tasks) /\ Stats(q) \notin ToSet(pg.tasks)
        /\ Commit(q) \in ToSet(qg.tasks) <=> q \in S
  BY <1>1, CommitsOf DEF Rescaled, HasPlot, Connected, Target, Ignores
<1>3. \A q \in Containers :
        /\ q \in S => HasPlot(pg, q) /\ qg.plot[q].pending = range[q]
        /\ q \notin S => qg.plot[q].pending = None
        /\ qg.plot[q].shown = pg.plot[q].shown /\ qg.legend[q] = pg.legend[q]
  BY <1>1 DEF Rescaled, Together, PageOK
<1>4. PageOK(qg)
  <2>1. \A q \in Containers : qg.plot[q].pending # None <=> Commit(q) \in ToSet(qg.tasks)
    BY <1>2, <1>3
  <2>2. \A q \in Containers :
          /\ HasPlot(qg, q) <=> q \in ToSet(qg.registry)
          /\ qg.plot[q].pending # None => HasPlot(qg, q)
          /\ Stats(q) \in ToSet(qg.tasks) => qg.win # None
          /\ qg.plot[q].extent \notin Instants
    BY <1>2, <1>3 DEF Rescaled, Together, PageOK
  <2> QED
    BY <2>1, <2>2 DEF Rescaled, Together, PageOK
<1>5. ASSUME NEW q \in Containers, Connected(qg, q), HasPlot(qg, q)
      PROVE  Follows(qg, q)
  <2>1. Follows(pg, q)
    BY <1>2, <1>5 DEF Together
  <2>2. qg.win = pg.win
    BY DEF Rescaled
  <2> QED
    BY <1>1, <1>2, <1>3, <2>1, <2>2 DEF Follows
<1> QED
  BY <1>4, <1>5 DEF Together

LEMMA OneOf ==
  ASSUME NEW p \in Containers
  PROVE  <<p>> \in Seq(Containers) /\ IsInjective(<<p>>) /\ ToSet(<<p>>) = {p}
<1>1. <<p>> \in Seq(Containers) /\ DOMAIN <<p>> = 1..1 /\ <<p>>[1] = p
  OBVIOUS
<1> DEFINE s == <<p>>
<1>2. s \in Seq(Containers) /\ DOMAIN s = {1} /\ s[1] = p
  BY <1>1
<1> HIDE DEF s
<1>3. IsInjective(s) /\ ToSet(s) = {p}
  BY <1>2 DEF IsInjective, ToSet
<1> QED
  BY <1>2, <1>3 DEF s

LEMMA ZoomKeepsTogether ==
  ASSUME Together(page), NEW p \in Containers, NEW w \in Windows, Zoom(p, w)
  PROVE  /\ Together(page')
         /\ page'.tasks = <<Commit(p)>> /\ page'.plot[p].pending = w /\ page'.plot[p].shown # w
<1> DEFINE range == [q \in {p} |-> w]
           qg == SetScale(page, <<p>>, range)
<1>1. /\ page.tasks = <<>> /\ p \in ToSet(page.registry) /\ w # page.plot[p].shown /\ page' = qg
      /\ w \notin Instants
  BY DEF Zoom, AtRest, Shows, Present
<1>2. range[p] = w /\ w # None
  BY NoneAssumption
<1> HIDE DEF range
<1>3. Rescaled(page, qg, {p}, range)
  <2> DEFINE ps == <<p>>
  <2>1. ps \in Seq(Containers) /\ IsInjective(ps) /\ ToSet(ps) = {p} /\ qg = SetScale(page, ps, range)
    BY OneOf
  <2> HIDE DEF ps, qg
  <2>2. PageShape(page) /\ Queued(page.tasks)
    BY DEF Together, PageOK
  <2>3. Rescaled(page, qg, {q \in ToSet(ps) : ~Ignores(page, q, range[q])}, range)
    BY <2>1, <2>2, SetScaleRescales
  <2>4. {q \in ToSet(ps) : ~Ignores(page, q, range[q])} = {p}
    BY <1>1, <1>2, <2>1 DEF Ignores
  <2> QED
    BY <2>3, <2>4
<1>4. Together(qg)
  BY <1>1, <1>2, <1>3, RescaledKeepsTogether
<1>5. qg.tasks = <<Commit(p)>>
  <2>1. Queued(qg.tasks) /\ ToSet(qg.tasks) = {Commit(p)}
    BY <1>1, <1>3, RestIsQuiet DEF Rescaled, Together
  <2> HIDE DEF qg
  <2> DEFINE ts == qg.tasks
             T == Tasks
  <2>2. Len(ts) \in Nat /\ DOMAIN ts = 1..Len(ts) /\ ts \in Seq(T)
    BY <2>1, LenProperties DEF Queued
  <2>3. \A i \in 1..Len(ts) : ts[i] = Commit(p)
    BY <2>1, <2>2 DEF ToSet
  <2>4. \A i, j \in 1..Len(ts) : i = j
    BY <2>1, <2>2, <2>3, CommitsOf DEF Queued
  <2>5. Len(ts) # 0
    <3>1. PICK i \in DOMAIN ts : ts[i] = Commit(p)
      BY <2>1 DEF ToSet
    <3> QED
      BY <2>2, <3>1
  <2>6. Len(ts) = 1
    <3>1. 1 \in 1..Len(ts) /\ Len(ts) \in 1..Len(ts)
      BY <2>2, <2>5
    <3> QED
      BY <2>4, <3>1
  <2>7. ts[1] = Commit(p)
    BY <2>3, <2>6
  <2>8. <<Commit(p)>> \in Seq(T) /\ Len(<<Commit(p)>>) = 1 /\ <<Commit(p)>>[1] = Commit(p)
    BY CommitsOf
  <2> HIDE DEF ts, T
  <2>9. \A i \in 1..Len(ts) : ts[i] = <<Commit(p)>>[i]
    BY <2>6, <2>7, <2>8
  <2>10. ts = <<Commit(p)>>
    BY <2>2, <2>6, <2>8, <2>9, SeqEqual
  <2> QED
    BY <2>10 DEF ts
<1> HIDE DEF qg
<1> QED
  BY <1>1, <1>2, <1>3, <1>4, <1>5 DEF Rescaled

LEMMA ResetKeepsTogether ==
  ASSUME Together(page), Reset
  PROVE  Together(page')
<1> DEFINE range == [p \in Containers |-> FirstToLast(page.plot[p].extent)]
           scaled == SetScale(page, page.registry, range)
           unzoomed == [scaled EXCEPT !.win = None]
           qg == Notify(unzoomed)
<1>1. page.tasks = <<>> /\ page' = qg
  BY DEF Reset, AtRest, ResetStore
<1>2. ToSet(page.tasks) = {} /\ \A q \in Containers : page.plot[q].pending = None
  BY <1>1, RestIsQuiet DEF Together
<1>3. \A q \in Containers : range[q] = FirstToLast(page.plot[q].extent)
  OBVIOUS
<1> HIDE DEF range
<1>4. Rescaled(page, scaled, ToSet(page.registry), range)
  <2> DEFINE S == {p \in ToSet(page.registry) : ~Ignores(page, p, range[p])}
  <2>1. Rescaled(page, scaled, S, range)
    BY SetScaleRescales DEF Together, PageOK
  <2>2. \A p \in ToSet(page.registry) : p \in Containers
    BY ElementOfSeq, LenProperties DEF ToSet, Together, PageOK
  <2>3. \A p \in Containers : ~Ignores(page, p, range[p])
    BY <1>3 DEF Ignores, FirstToLast, Together, PageOK
  <2>4. S = ToSet(page.registry)
    BY <2>2, <2>3
  <2> QED
    BY <2>1, <2>4
<1> HIDE DEF scaled
<1>5. /\ PageShape(unzoomed) /\ unzoomed.win = None /\ unzoomed.registry = scaled.registry
      /\ unzoomed.plot = scaled.plot /\ unzoomed.tasks = scaled.tasks /\ unzoomed.cards = scaled.cards
      /\ unzoomed.legend = scaled.legend
  BY <1>4 DEF Rescaled, PageShape, IsRecord
<1> HIDE DEF unzoomed
<1>6. /\ PageShape(qg) /\ IsRecord(qg.legend, Containers)
      /\ qg.registry = unzoomed.registry /\ qg.win = unzoomed.win /\ qg.cards = unzoomed.cards
      /\ qg.tasks = unzoomed.tasks /\ qg.plot = unzoomed.plot
      /\ \A q \in Containers : qg.legend[q] = IF q \in ToSet(unzoomed.registry) THEN unzoomed.win ELSE unzoomed.legend[q]
  BY <1>5, NotifyTells
<1> HIDE DEF qg
<1>7. /\ qg.registry = page.registry /\ qg.win = None /\ qg.cards = page.cards
      /\ Queued(qg.tasks) /\ ToSet(qg.tasks) = {Commit(p) : p \in ToSet(page.registry)}
  BY <1>2, <1>4, <1>5, <1>6 DEF Rescaled
<1>8. \A q \in Containers :
        /\ qg.plot[q].extent = page.plot[q].extent /\ qg.plot[q].shown = page.plot[q].shown
        /\ qg.plot[q].pending = IF q \in ToSet(page.registry) THEN FirstToLast(page.plot[q].extent) ELSE None
        /\ q \in ToSet(page.registry) => qg.legend[q] = None
  BY <1>2, <1>3, <1>4, <1>5, <1>6 DEF Rescaled
<1>9. \A q \in Containers :
        /\ HasPlot(qg, q) <=> HasPlot(page, q)
        /\ HasPlot(page, q) <=> q \in ToSet(page.registry)
        /\ HasPlot(page, q) <=> page.plot[q].extent # None
        /\ Stats(q) \notin ToSet(qg.tasks)
        /\ Commit(q) \in ToSet(qg.tasks) <=> q \in ToSet(page.registry)
  <2>1. \A q \in Containers : HasPlot(page, q) <=> q \in ToSet(page.registry)
    BY DEF Together, PageOK
  <2> QED
    BY <1>7, <1>8, <2>1, CommitsOf DEF HasPlot
<1>10. \A q \in Containers : HasPlot(page, q) => FirstToLast(page.plot[q].extent) # None
  BY NoneIsNoInstant DEF FirstToLast, Instants, HasPlot
<1>11. PageOK(qg)
  <2>1. \A q \in Containers :
          /\ qg.plot[q].pending # None <=> Commit(q) \in ToSet(qg.tasks)
          /\ HasPlot(qg, q) <=> q \in ToSet(qg.registry)
          /\ qg.plot[q].pending # None => HasPlot(qg, q)
          /\ Stats(q) \in ToSet(qg.tasks) => qg.win # None
          /\ qg.plot[q].extent \notin Instants
    BY <1>7, <1>8, <1>9, <1>10 DEF Together, PageOK
  <2> QED
    BY <1>6, <1>7, <2>1 DEF Together, PageOK
<1>12. ASSUME NEW q \in Containers, Connected(qg, q), HasPlot(qg, q)
       PROVE  Follows(qg, q)
  <2>1. qg.plot[q].pending = Target(qg, q) /\ qg.plot[q].pending # None
    BY <1>7, <1>8, <1>9, <1>10, <1>12 DEF Target
  <2>2. qg.legend[q] = qg.win
    BY <1>7, <1>8, <1>9, <1>12
  <2> QED
    BY <2>1, <2>2 DEF Follows
<1>13. Together(qg)
  BY <1>11, <1>12 DEF Together
<1> QED
  BY <1>1, <1>13

\* qg is pg without the chart of p.
Dropped(pg, qg, p) ==
  /\ PageShape(qg)
  /\ qg.registry \in Seq(Containers) /\ IsInjective(qg.registry)
  /\ ToSet(qg.registry) = ToSet(pg.registry) \ {p}
  /\ qg.win = pg.win /\ qg.legend = pg.legend /\ qg.tasks = pg.tasks /\ qg.cards = pg.cards
  /\ qg.plot[p].extent = None /\ qg.plot[p].shown = None /\ qg.plot[p].pending = None
  /\ \A q \in Containers : q # p => qg.plot[q] = pg.plot[q]

LEMMA DropUnregisters ==
  ASSUME NEW pg, PageOK(pg), NEW p \in Containers
  PROVE  Dropped(pg, Drop(pg, p), p)
<1> DEFINE able == Containers \ {p}
           registry == Among(pg.registry, able)
           qg == Drop(pg, p)
<1>1. qg = [pg EXCEPT !.registry = registry, !.plot[p] = NoPlot]
  BY Zenon DEF Drop
<1>2. registry \in Seq(Containers) /\ IsInjective(registry) /\ ToSet(registry) = ToSet(pg.registry) \cap able
  <2> HIDE DEF able
  <2> QED
    BY AmongSelects DEF PageOK
<1>3. ToSet(registry) = ToSet(pg.registry) \ {p}
  <2>1. \A q \in ToSet(pg.registry) : q \in Containers
    BY ElementOfSeq, LenProperties DEF ToSet, PageOK
  <2> HIDE DEF registry
  <2> QED
    BY <1>2, <2>1
<1>4. IsRecord(NoPlot, {"extent", "shown", "pending"}) /\ NoPlot.extent = None /\ NoPlot.shown = None /\ NoPlot.pending = None
  BY DEF NoPlot, IsRecord
<1> HIDE DEF registry, qg
<1>5. /\ qg.registry = registry /\ qg.win = pg.win /\ qg.legend = pg.legend /\ qg.tasks = pg.tasks
      /\ qg.cards = pg.cards /\ IsRecord(qg.plot, Containers)
      /\ qg.plot[p] = NoPlot /\ \A q \in Containers : q # p => qg.plot[q] = pg.plot[q]
      /\ IsRecord(qg, {"registry", "win", "plot", "legend", "tasks", "cards"})
  BY <1>1 DEF PageOK, PageShape, IsRecord
<1>6. PageShape(qg)
  BY <1>4, <1>5 DEF PageOK, PageShape
<1>7. Dropped(pg, qg, p)
  BY <1>2, <1>3, <1>4, <1>5, <1>6 DEF Dropped
<1> QED
  BY <1>7 DEF qg

LEMMA DroppedKeepsTogether ==
  ASSUME NEW pg, NEW qg, NEW p \in Containers, Together(pg), pg.tasks = <<>>, Dropped(pg, qg, p)
  PROVE  Together(qg)
<1>1. ToSet(pg.tasks) = {} /\ \A q \in Containers : pg.plot[q].pending = None
  BY RestIsQuiet DEF Together
<1>2. ~HasPlot(qg, p) /\ \A q \in Containers : q # p => (HasPlot(qg, q) <=> HasPlot(pg, q))
  BY DEF Dropped, HasPlot
<1>3. \A q \in Containers : qg.plot[q].pending = None
  BY <1>1 DEF Dropped
<1>4. PageOK(qg)
  <2>1. \A q \in Containers : HasPlot(qg, q) <=> q \in ToSet(qg.registry)
    BY <1>2 DEF Dropped, Together, PageOK
  <2>2. \A q \in Containers : qg.plot[q].extent \notin Instants
    BY NoneIsNoInstant DEF Dropped, Together, PageOK
  <2> QED
    BY <1>1, <1>3, <2>1, <2>2 DEF Dropped, Together, PageOK
<1>5. ASSUME NEW q \in Containers, Connected(qg, q), HasPlot(qg, q)
      PROVE  Follows(qg, q)
  <2>1. q # p /\ qg.plot[q] = pg.plot[q]
    BY <1>2, <1>5 DEF Dropped
  <2>2. Connected(pg, q) /\ HasPlot(pg, q)
    BY <1>2, <1>5, <2>1 DEF Connected, Dropped
  <2>3. Follows(pg, q)
    BY <2>2 DEF Together
  <2>4. qg.win = pg.win /\ qg.legend = pg.legend /\ qg.tasks = pg.tasks
    BY DEF Dropped
  <2> QED
    BY <2>1, <2>3, <2>4 DEF Follows, Target, Ignores
<1> QED
  BY <1>4, <1>5 DEF Together

\* qg is pg, at rest, with a chart of p that was drawn anew.
Drawn(pg, qg, p, extent) ==
  /\ PageShape(qg) /\ Queued(qg.tasks) /\ IsRecord(qg.legend, Containers)
  /\ qg.registry \in Seq(Containers) /\ IsInjective(qg.registry)
  /\ ToSet(qg.registry) = ToSet(pg.registry) \cup {p}
  /\ qg.win = pg.win /\ qg.cards = pg.cards
  /\ ToSet(qg.tasks) = IF pg.win = None THEN {Commit(p)} ELSE {Commit(p), Stats(p)}
  /\ qg.plot[p].extent = extent /\ qg.plot[p].shown = None
  /\ qg.plot[p].pending = IF pg.win = None \/ Ignores(qg, p, pg.win) THEN extent ELSE pg.win
  /\ \A q \in Containers : q # p =>
       /\ qg.plot[q].extent = pg.plot[q].extent /\ qg.plot[q].shown = pg.plot[q].shown
       /\ qg.plot[q].pending = pg.plot[q].pending /\ qg.legend[q] = pg.legend[q]

LEMMA DrawRegisters ==
  ASSUME NEW pg, PageOK(pg), pg.tasks = <<>>, NEW p \in Containers, NEW extent, extent \notin Instants
  PROVE  Drawn(pg, Draw(pg, p, extent), p, extent)
<1> DEFINE ps == <<p>>
           gone == Drop(pg, p)
           fresh == [gone EXCEPT !.plot[p].extent = extent, !.legend[p] = Blank]
           range == [q \in {p} |-> extent]
           built == SetScale(fresh, ps, range)
           known == [built EXCEPT !.registry = Append(@, p)]
           wins == [q \in {p} |-> known.win]
           scaled == SetScale(known, ps, wins)
           applied == [scaled EXCEPT !.tasks = Append(@, Stats(p))]
           qg == Draw(pg, p, extent)
<1>1. qg = IF known.win = None THEN known ELSE applied
  BY DEF Draw, ApplyToChart
<1>2. ps \in Seq(Containers) /\ IsInjective(ps) /\ ToSet(ps) = {p}
  BY OneOf
<1>3. range[p] = extent /\ wins[p] = known.win
  OBVIOUS
<1>4. Dropped(pg, gone, p)
  BY DropUnregisters
<1> HIDE DEF ps, gone, range, wins, known
<1>5. /\ fresh.registry = gone.registry /\ fresh.win = gone.win /\ fresh.tasks = gone.tasks
      /\ fresh.cards = gone.cards
      /\ IsRecord(fresh.legend, Containers) /\ \A q \in Containers : q # p => fresh.legend[q] = gone.legend[q]
      /\ IsRecord(fresh, {"registry", "win", "plot", "legend", "tasks", "cards"})
      /\ IsRecord(fresh.plot, Containers) /\ IsRecord(fresh.plot[p], {"extent", "shown", "pending"})
      /\ fresh.plot[p].extent = extent /\ fresh.plot[p].shown = None /\ fresh.plot[p].pending = None
      /\ \A q \in Containers : q # p => fresh.plot[q] = gone.plot[q]
  <2>1. /\ PageShape(gone) /\ IsRecord(gone.legend, Containers)
        /\ gone.plot[p].shown = None /\ gone.plot[p].pending = None
    BY <1>4 DEF Dropped, PageOK
  <2> QED
    BY <2>1 DEF PageShape, IsRecord
<1>6. PageShape(fresh)
  <2>1. PageShape(gone)
    BY <1>4 DEF Dropped
  <2> HIDE DEF fresh
  <2> QED
    BY <1>5, <2>1 DEF PageShape
<1>7. Queued(fresh.tasks) /\ ToSet(fresh.tasks) = {}
  BY <1>4, <1>5, RestIsQuiet DEF Dropped, PageOK
<1> HIDE DEF fresh
<1>8. Rescaled(fresh, built, {p}, range)
  <2>1. Rescaled(fresh, built, {q \in ToSet(ps) : ~Ignores(fresh, q, range[q])}, range)
    BY <1>2, <1>6, <1>7, SetScaleRescales
  <2>2. {q \in ToSet(ps) : ~Ignores(fresh, q, range[q])} = {p}
    BY <1>2, <1>3 DEF Ignores
  <2> QED
    BY <2>1, <2>2
<1> HIDE DEF built
<1>9. /\ known.registry = Append(built.registry, p) /\ known.win = built.win /\ known.tasks = built.tasks
      /\ known.cards = built.cards /\ known.plot = built.plot /\ known.legend = built.legend
      /\ IsRecord(known, {"registry", "win", "plot", "legend", "tasks", "cards"})
  BY <1>8 DEF Rescaled, PageShape, IsRecord, known
<1>10. PageShape(known)
  <2>1. PageShape(built)
    BY <1>8 DEF Rescaled
  <2> QED
    BY <1>9, <2>1 DEF PageShape
<1>11. /\ known.registry \in Seq(Containers) /\ IsInjective(known.registry)
       /\ ToSet(known.registry) = ToSet(pg.registry) \cup {p}
  <2>1. /\ built.registry \in Seq(Containers) /\ IsInjective(built.registry)
        /\ ToSet(built.registry) = ToSet(pg.registry) \ {p}
    BY <1>4, <1>5, <1>8 DEF Dropped, Rescaled
  <2>2. p \notin ToSet(built.registry)
    BY <2>1
  <2>3. IsInjective(Append(built.registry, p))
    BY <2>1, <2>2, AppendInjects
  <2> QED
    BY <1>9, <2>1, <2>3, AppendAddsOne
<1>12. /\ known.win = pg.win /\ known.cards = pg.cards /\ Queued(known.tasks) /\ ToSet(known.tasks) = {Commit(p)}
       /\ IsRecord(known.legend, Containers)
       /\ \A q \in Containers : q # p => known.legend[q] = pg.legend[q]
  BY <1>4, <1>5, <1>7, <1>8, <1>9 DEF Dropped, Rescaled
<1>13. known.plot[p].extent = extent /\ known.plot[p].shown = None /\ known.plot[p].pending = extent
  BY <1>3, <1>5, <1>8, <1>9 DEF Rescaled
<1>14. \A q \in Containers : q # p =>
         /\ known.plot[q].extent = pg.plot[q].extent /\ known.plot[q].shown = pg.plot[q].shown
         /\ known.plot[q].pending = pg.plot[q].pending
  BY <1>4, <1>5, <1>8, <1>9 DEF Dropped, Rescaled
<1>15. CASE pg.win = None
  <2>1. qg = known
    BY <1>1, <1>12, <1>15
  <2> QED
    BY <1>10, <1>11, <1>12, <1>13, <1>14, <1>15, <2>1 DEF Drawn
<1>16. CASE pg.win # None
  <2> DEFINE S == {q \in ToSet(ps) : ~Ignores(known, q, wins[q])}
  <2>1. Rescaled(known, scaled, S, wins)
    BY <1>2, <1>10, <1>12, SetScaleRescales
  <2>0. S = IF Ignores(known, p, pg.win) THEN {} ELSE {p}
    BY <1>2, <1>3, <1>12
  <2> HIDE DEF S
  <2> HIDE DEF scaled
  <2>2. qg = applied
    BY <1>1, <1>12, <1>16
  <2>3. /\ applied.registry = scaled.registry /\ applied.win = scaled.win /\ applied.cards = scaled.cards
        /\ applied.plot = scaled.plot /\ applied.legend = scaled.legend
        /\ applied.tasks = Append(scaled.tasks, Stats(p))
        /\ IsRecord(applied, {"registry", "win", "plot", "legend", "tasks", "cards"})
    BY <2>1 DEF Rescaled, PageShape, IsRecord
  <2> HIDE DEF applied, qg
  <2>4. PageShape(applied)
    <3>1. PageShape(scaled)
      BY <2>1 DEF Rescaled
    <3> QED
      BY <2>3, <3>1 DEF PageShape
  <2>5. Queued(applied.tasks) /\ ToSet(applied.tasks) = {Commit(p), Stats(p)}
    <3> DEFINE ts == scaled.tasks
               T == Tasks
               later == Append(ts, Stats(p))
    <3>1. Queued(ts) /\ ToSet(ts) = {Commit(p)} /\ ts \in Seq(T) /\ Stats(p) \in T
      BY <1>12, <2>1, <2>0, CommitsOf DEF Rescaled, Queued
    <3> HIDE DEF ts, T
    <3>2. later \in Seq(T) /\ ToSet(later) = {Commit(p), Stats(p)}
      BY <3>1, AppendAddsOne
    <3>3. /\ Len(ts) \in Nat /\ DOMAIN ts = 1..Len(ts) /\ DOMAIN later = 1..(Len(ts) + 1)
          /\ \A i \in 1..Len(ts) : later[i] = ts[i]
          /\ later[Len(ts) + 1] = Stats(p)
      BY <3>1, <3>2, AppendProperties, LenProperties
    <3>4. ASSUME NEW i \in DOMAIN later, NEW j \in DOMAIN later, later[i] = later[j], later[i].kind = "commit"
          PROVE  i = j
      <4>1. later[Len(ts) + 1].kind # "commit"
        BY <3>3, CommitsOf
      <4> HIDE DEF later
      <4>2. i \in 1..Len(ts) /\ j \in 1..Len(ts)
        BY <3>3, <3>4, <4>1
      <4> QED
        BY <3>1, <3>3, <3>4, <4>2 DEF Queued
    <3>5. Queued(later)
      BY <3>2, <3>4 DEF Queued, T
    <3> QED
      BY <2>3, <3>2, <3>5 DEF ts
  <2>6. /\ applied.registry \in Seq(Containers) /\ IsInjective(applied.registry)
        /\ ToSet(applied.registry) = ToSet(pg.registry) \cup {p}
        /\ applied.win = pg.win /\ applied.cards = pg.cards /\ IsRecord(applied.legend, Containers)
    BY <1>11, <1>12, <2>1, <2>3 DEF Rescaled
  <2>7. /\ applied.plot[p].extent = extent /\ applied.plot[p].shown = None
        /\ applied.plot[p].pending = IF Ignores(applied, p, pg.win) THEN extent ELSE pg.win
    <3>1. /\ applied.plot[p].extent = extent /\ applied.plot[p].shown = None
          /\ applied.plot[p].pending = IF p \in S THEN pg.win ELSE extent
      BY <1>3, <1>12, <1>13, <2>1, <2>3 DEF Rescaled
    <3>2. p \in S <=> ~Ignores(applied, p, pg.win)
      BY <1>13, <2>0, <3>1 DEF Ignores
    <3> QED
      BY <3>1, <3>2
  <2>8. \A q \in Containers : q # p =>
          /\ applied.plot[q].extent = pg.plot[q].extent /\ applied.plot[q].shown = pg.plot[q].shown
          /\ applied.plot[q].pending = pg.plot[q].pending /\ applied.legend[q] = pg.legend[q]
    BY <1>12, <1>14, <2>1, <2>0, <2>3 DEF Rescaled
  <2>9. Drawn(pg, applied, p, extent)
    BY <1>16, <2>4, <2>5, <2>6, <2>7, <2>8 DEF Drawn
  <2> QED
    BY <2>2, <2>9 DEF qg
<1> QED
  BY <1>15, <1>16

LEMMA DrawnKeepsTogether ==
  ASSUME NEW pg, NEW qg, NEW p \in Containers, NEW extent, Together(pg), pg.tasks = <<>>,
         extent # None, extent \notin Instants, Drawn(pg, qg, p, extent)
  PROVE  Together(qg)
<1>1. ToSet(pg.tasks) = {} /\ \A q \in Containers : pg.plot[q].pending = None
  BY RestIsQuiet DEF Together
<1>2. HasPlot(qg, p) /\ \A q \in Containers : q # p => (HasPlot(qg, q) <=> HasPlot(pg, q))
  BY DEF Drawn, HasPlot
<1>3. /\ \A q \in Containers : Commit(q) \in ToSet(qg.tasks) <=> q = p
      /\ \A q \in Containers : Stats(q) \in ToSet(qg.tasks) <=> q = p /\ pg.win # None
  BY CommitsOf DEF Drawn
<1>4. qg.plot[p].pending # None /\ \A q \in Containers : q # p => qg.plot[q].pending = None
  BY <1>1 DEF Drawn
<1>5. PageOK(qg)
  <2>1. \A q \in Containers : HasPlot(qg, q) <=> q \in ToSet(qg.registry)
    BY <1>2 DEF Drawn, Together, PageOK
  <2>2. \A q \in Containers :
          /\ qg.plot[q].pending # None <=> Commit(q) \in ToSet(qg.tasks)
          /\ qg.plot[q].pending # None => HasPlot(qg, q)
          /\ Stats(q) \in ToSet(qg.tasks) => qg.win # None
    BY <1>2, <1>3, <1>4 DEF Drawn
  <2>3. \A q \in Containers : qg.plot[q].extent \notin Instants
    BY DEF Drawn, Together, PageOK
  <2> QED
    BY <2>1, <2>2, <2>3 DEF Drawn, PageOK
<1>6. Follows(qg, p)
  BY <1>3, <1>4 DEF Drawn, Follows, Target
<1>7. ASSUME NEW q \in Containers, q # p, Connected(qg, q), HasPlot(qg, q)
      PROVE  Follows(qg, q)
  <2>1. Connected(pg, q) /\ HasPlot(pg, q)
    BY <1>2, <1>7 DEF Drawn, Connected
  <2>2. Follows(pg, q) /\ Stats(q) \notin ToSet(pg.tasks)
    BY <1>1, <2>1 DEF Together
  <2>3. /\ qg.plot[q].extent = pg.plot[q].extent /\ qg.plot[q].shown = pg.plot[q].shown
        /\ qg.plot[q].pending = pg.plot[q].pending /\ qg.legend[q] = pg.legend[q] /\ qg.win = pg.win
    BY <1>7 DEF Drawn
  <2> QED
    BY <2>2, <2>3 DEF Follows, Target, Ignores
<1> QED
  BY <1>5, <1>6, <1>7 DEF Together

\* Other cards: a container that has no chart may join the page, any may leave it.
LEMMA CardsKeepTogether ==
  ASSUME NEW pg, Together(pg), NEW cards,
         \A q \in cards \ pg.cards : q \in Containers => ~HasPlot(pg, q)
  PROVE  Together([pg EXCEPT !.cards = cards])
<1> DEFINE qg == [pg EXCEPT !.cards = cards]
<1>1. /\ qg.cards = cards /\ qg.registry = pg.registry /\ qg.win = pg.win /\ qg.plot = pg.plot
      /\ qg.legend = pg.legend /\ qg.tasks = pg.tasks
      /\ IsRecord(qg, {"registry", "win", "plot", "legend", "tasks", "cards"})
  BY DEF Together, PageOK, PageShape, IsRecord
<1> HIDE DEF qg
<1>2. \A q \in Containers :
        /\ HasPlot(qg, q) <=> HasPlot(pg, q)
        /\ Target(qg, q) = Target(pg, q)
        /\ Ignores(qg, q, qg.win) <=> Ignores(pg, q, pg.win)
  BY <1>1 DEF HasPlot, Target, Ignores
<1>3. PageOK(qg)
  <2>1. PageShape(qg)
    BY <1>1 DEF Together, PageOK, PageShape
  <2> QED
    BY <1>1, <1>2, <2>1 DEF Together, PageOK
<1>4. ASSUME NEW q \in Containers, Connected(qg, q), HasPlot(qg, q)
      PROVE  Follows(qg, q)
  <2>1. Follows(pg, q)
    BY <1>1, <1>2, <1>4 DEF Together, Connected
  <2> QED
    BY <1>1, <1>2, <2>1 DEF Follows
<1> QED
  BY <1>3, <1>4 DEF Together, qg
-----------------------------------------------------------------------------
(* The same of the steps. *)
\* A window that the reader asked for is the store's and what every commit will
\* show, or it waits, alone, for the commit of the chart that was zoomed; and until
\* something was asked for, no window is a moment.
AskedFollows(pg, w) ==
  /\ w \in Windows =>
       \/ pg.win = w /\ \A p \in Containers : pg.plot[p].pending \in {None, w}
       \/ \E p \in Containers : pg.tasks = <<Commit(p)>> /\ pg.plot[p].pending = w /\ pg.plot[p].shown # w
  /\ w \notin Instants /\ w \in Windows \cup {None, "reset"}
  /\ w = None => pg.win \notin Instants /\ \A p \in Containers : pg.plot[p].pending \notin Instants

\* A card has no chart before it is created.
CreatedFirst ==
  /\ \A c \in Cards : c > created => ~HasPlot(page, c)
  /\ timers \subseteq 1..created /\ ToSet(frames) \subseteq 1..created
  /\ active \in page.cards

ZoomInv == CardInv /\ CreatedFirst /\ Together(page) /\ AskedFollows(page, asked)

LEMMA RestHasWindow ==
  ASSUME NEW pg, NEW w, pg.tasks = <<>>, AskedFollows(pg, w), w \in Windows
  PROVE  pg.win = w
<1>1. \A p : <<Commit(p)>> # <<>>
  OBVIOUS
<1> QED
  BY <1>1 DEF AskedFollows

LEMMA InitIsTogether ==
  ASSUME Init
  PROVE  Together(page) /\ AskedFollows(page, asked) /\ CreatedFirst
<1> DEFINE selections == IF layout = <<>> THEN <<DefaultVisible>> ELSE layout
           n == Len(selections)
<1>1. PICK extents \in [Panels -> Windows] :
        page = Loaded(extents, n) /\ \A p \in Panels : extents[p] \in Extents[p]
  BY DEF Init
<1>2. CardInv
  BY InitEstablishesCardInv
<1>3. created = n /\ frames = [i \in 1..n |-> i] /\ timers = {} /\ active = 1 /\ asked = None
  BY DEF Init
<1> HIDE DEF n, selections
<1>4. /\ page.registry = Page /\ page.win = None /\ page.cards = 1..n
      /\ page.tasks = [i \in DOMAIN Page |-> Commit(Page[i])]
      /\ page.plot = [p \in Containers |-> IF p \in Panels THEN [extent |-> extents[p], shown |-> None, pending |-> extents[p]]
                                           ELSE NoPlot]
      /\ page.legend = [p \in Containers |-> IF p \in Panels THEN None ELSE Blank]
  BY <1>1 DEF Loaded
<1>5. Panels \subseteq Containers /\ Page \in Seq(Containers) /\ IsInjective(Page) /\ ToSet(Page) = Panels
  <2>1. Panels \subseteq Containers
    BY DEF Containers
  <2>2. Len(Page) \in Nat /\ Page \in [1..Len(Page) -> Panels]
    BY ContainerAssumption, LenProperties
  <2>3. Page \in [1..Len(Page) -> Containers]
    BY <2>1, <2>2
  <2>4. Page \in Seq(Containers)
    BY <2>2, <2>3
  <2> QED
    BY <2>1, <2>4, ContainerAssumption DEF Panels
<1>6. Queued(page.tasks) /\ ToSet(page.tasks) = {Commit(p) : p \in Panels}
  <2> DEFINE T == Tasks
             ts == [i \in DOMAIN Page |-> Commit(Page[i])]
             joined == <<>> \o ts
  <2>1. Queued(<<>>) /\ ToSet(<<>>) = {}
    BY DEF Queued, ToSet
  <2>2. \A p \in ToSet(Page) : ~Present(<<>>, Commit(p))
    BY <2>1 DEF Present
  <2>3. Queued(joined) /\ ToSet(joined) = ToSet(<<>>) \cup {Commit(p) : p \in ToSet(Page)}
    BY <1>5, <2>1, <2>2, CommitsJoin
  <2>4. joined = ts
    <3>1. Len(Page) \in Nat /\ DOMAIN Page = 1..Len(Page) /\ \A i \in 1..Len(Page) : Page[i] \in Containers
      BY <1>5, LenProperties, ElementOfSeq
    <3>2. \A i \in 1..Len(Page) : Commit(Page[i]) \in T
      BY <3>1, CommitsOf
    <3> HIDE DEF T
    <3>3. ts \in [1..Len(Page) -> T]
      BY <3>1, <3>2
    <3>4. ts \in Seq(T)
      BY <3>1, <3>3
    <3> HIDE DEF ts
    <3> QED
      BY <3>4, ConcatEmptySeq
  <2> HIDE DEF joined
  <2> QED
    BY <1>4, <1>5, <2>1, <2>3, <2>4
<1>7. \A p \in Containers :
        /\ p \in Panels => /\ page.plot[p].extent \in Windows \ Instants /\ page.plot[p].pending = page.plot[p].extent
                           /\ page.plot[p].shown = None /\ page.legend[p] = None
        /\ p \notin Panels => page.plot[p].extent = None /\ page.plot[p].pending = None
  BY <1>1, <1>4, MomentAssumption DEF NoPlot, Containers
<1>8. \A p \in Containers :
        /\ HasPlot(page, p) <=> p \in Panels
        /\ Commit(p) \in ToSet(page.tasks) <=> p \in Panels
        /\ Stats(p) \notin ToSet(page.tasks)
        /\ page.plot[p].pending # None <=> p \in Panels
  <2>1. \A p \in Containers : Stats(p) \notin ToSet(page.tasks) /\ (Commit(p) \in ToSet(page.tasks) <=> p \in Panels)
    BY <1>6, CommitsOf
  <2> QED
    BY <1>7, <2>1, NoneAssumption DEF HasPlot
<1>9. PageOK(page)
  <2>1. IsRecord(page.legend, Containers)
    BY <1>4 DEF IsRecord
  <2>2. \A p \in Containers : page.plot[p].extent \notin Instants
    BY <1>7, NoneIsNoInstant
  <2> QED
    BY <1>2, <1>4, <1>5, <1>6, <1>8, <2>1, <2>2 DEF CardInv, PageOK
<1>10. ASSUME NEW p \in Containers, HasPlot(page, p)
       PROVE  Follows(page, p)
  BY <1>4, <1>7, <1>8, <1>10 DEF Follows, Target
<1>11. Together(page)
  BY <1>9, <1>10 DEF Together
<1>12. CreatedFirst
  <2>1. \A c \in Cards : ~HasPlot(page, c)
    BY <1>8, ContainerAssumption DEF Containers
  <2>2. ToSet(frames) \subseteq 1..created
    BY <1>3 DEF ToSet
  <2>3. 1 \in page.cards
    <3>1. n \in Nat \ {0}
      <4>1. layout \in Seq(SUBSET Counters) /\ DefaultVisible \in SUBSET Counters
        BY LayoutAssumption DEF Init
      <4>2. CASE layout = <<>>
        BY <4>1, <4>2 DEF n, selections
      <4>3. CASE layout # <<>>
        BY <4>1, <4>3, LenProperties, EmptySeq DEF n, selections
      <4> QED
        BY <4>2, <4>3
    <3> QED
      BY <1>4, <3>1
  <2> QED
    BY <1>3, <2>1, <2>2, <2>3 DEF CreatedFirst
<1>13. AskedFollows(page, asked)
  <2>1. \A p \in Containers : page.plot[p].pending \notin Instants
    BY <1>7, NoneIsNoInstant
  <2> QED
    BY <1>3, <1>4, <2>1, NoneAssumption, NoneIsNoInstant DEF AskedFollows
<1> QED
  BY <1>11, <1>12, <1>13

LEMMA MicrotaskKeepsTogether ==
  ASSUME Together(page), AskedFollows(page, asked), Microtask
  PROVE  Together(page') /\ AskedFollows(page', asked')
<1>1. page.tasks # <<>> /\ asked' = asked
  BY DEF Microtask, AtRest
<1>2. Head(page.tasks) \in Tasks
  BY <1>1, QueueAdvances DEF Together, PageOK
<1>3. PICK p \in Containers : Head(page.tasks) \in {Commit(p), Stats(p)}
  BY <1>2, CommitsOf
<1>4. CASE Head(page.tasks) = Commit(p)
  <2> DEFINE w == page.plot[p].pending
             qg == CommitScale(page, p)
  <2>1. page' = qg
    BY <1>4, CommitsOf DEF Microtask
  <2>2. Together(qg)
    BY <1>1, <1>4, CommitKeepsTogether
  <2>3. PICK done : /\ Committed(page, done, p)
                    /\ IF w = page.plot[p].shown \/ w = page.win THEN qg = done ELSE Moved(done, qg, w, p)
    BY <1>1, <1>4, CommitIsApplied DEF Together
  <2>4. w # None
    <3>1. Commit(p) \in ToSet(page.tasks)
      BY <2>3 DEF Committed
    <3> QED
      BY <3>1 DEF Together, PageOK
  <2> HIDE DEF qg
  <2>5. ASSUME asked \in Windows
        PROVE  qg.win = asked /\ \A q \in Containers : qg.plot[q].pending \in {None, asked}
    <3>1. w = asked /\ \A q \in Containers : page.plot[q].pending \in {None, asked}
      <4>1. CASE page.win = asked /\ \A q \in Containers : page.plot[q].pending \in {None, asked}
        BY <2>4, <4>1
      <4>2. ASSUME NEW q \in Containers, page.tasks = <<Commit(q)>>, page.plot[q].pending = asked
            PROVE  w = asked /\ \A r \in Containers : page.plot[r].pending \in {None, asked}
        <5>1. p = q
          BY <1>4, <4>2, CommitsOf
        <5>2. ToSet(page.tasks) = {Commit(p)}
          <6> DEFINE t == Commit(q)
          <6>1. page.tasks = <<t>>
            BY <4>2
          <6> HIDE DEF t
          <6>2. ToSet(<<t>>) = {t}
            BY DEF ToSet
          <6> QED
            BY <5>1, <6>1, <6>2 DEF t
        <5>3. \A r \in Containers : r # p => page.plot[r].pending = None
          BY <5>2, CommitsOf DEF Together, PageOK
        <5> QED
          BY <4>2, <5>1, <5>3
      <4> QED
        BY <2>5, <4>1, <4>2 DEF AskedFollows
    <3>2. \A q \in Containers : done.plot[q].pending \in {None, asked}
      BY <2>3, <3>1 DEF Committed
    <3>3. CASE w = page.plot[p].shown \/ w = page.win
      <4>1. \A q \in Containers : page.tasks = <<Commit(q)>> => q = p
        BY <1>4, CommitsOf
      <4>2. page.win = asked
        BY <2>5, <3>1, <3>3, <4>1 DEF AskedFollows
      <4> QED
        BY <2>3, <3>2, <3>3, <4>2 DEF Committed
    <3>4. CASE ~(w = page.plot[p].shown \/ w = page.win)
      BY <2>3, <3>1, <3>2, <3>4 DEF Moved
    <3> QED
      BY <3>3, <3>4
  <2>6. asked = None => qg.win \notin Instants /\ \A q \in Containers : qg.plot[q].pending \notin Instants
    <3> SUFFICES ASSUME asked = None
                 PROVE  qg.win \notin Instants /\ \A q \in Containers : qg.plot[q].pending \notin Instants
      OBVIOUS
    <3>1. page.win \notin Instants /\ \A q \in Containers : page.plot[q].pending \notin Instants
      BY DEF AskedFollows
    <3>2. done.win \notin Instants /\ \A q \in Containers : done.plot[q].pending \notin Instants
      BY <2>3, <3>1, NoneIsNoInstant DEF Committed
    <3>3. w \notin Instants
      BY <3>1
    <3> QED
      BY <2>3, <3>2, <3>3 DEF Moved
  <2>7. asked \notin Instants /\ asked \in Windows \cup {None, "reset"}
    BY DEF AskedFollows
  <2> QED
    BY <1>1, <2>1, <2>2, <2>5, <2>6, <2>7 DEF AskedFollows
<1>5. CASE Head(page.tasks) = Stats(p)
  <2>1. page' = ShowStats(page, p)
    BY <1>5, CommitsOf DEF Microtask
  <2>2. Together(page')
    BY <1>1, <1>5, <2>1, StatsKeepTogether
  <2>3. page'.win = page.win /\ page'.plot = page.plot
    <3> DEFINE legend == [page.legend EXCEPT ![p] = IF page.win = None THEN @ ELSE page.win]
               rest == Tail(page.tasks)
    <3>1. page' = [page EXCEPT !.legend = legend, !.tasks = rest]
      BY Zenon, <2>1 DEF ShowStats
    <3> HIDE DEF legend, rest
    <3> QED
      BY <3>1 DEF Together, PageOK, PageShape, IsRecord
  <2>4. ~\E q : page.tasks = <<Commit(q)>>
    BY <1>5, CommitsOf
  <2> QED
    BY <1>1, <2>2, <2>3, <2>4 DEF AskedFollows
<1> QED
  BY <1>3, <1>4, <1>5

\* A step that leaves the cards and their charts' data alone.
LEMMA SameChartsKeepCreated ==
  ASSUME CardInv, CreatedFirst, SameCharts(page, page'), UNCHANGED cardVars
  PROVE  CreatedFirst'
<1>1. \A c \in Cards : HasPlot(page', c) <=> HasPlot(page, c)
  BY DEF SameCharts, HasPlot, Containers
<1> QED
  BY <1>1 DEF CreatedFirst, cardVars, SameCharts

\* A chart is drawn anew, or taken away, while the page is at rest.
LEMMA RedrawnKeepsZoom ==
  ASSUME Together(page), AskedFollows(page, asked), asked' = asked, page.tasks = <<>>,
         NEW p \in Containers, NEW extent, extent # None, extent \notin Instants,
         page' = Drop(page, p) \/ page' = Draw(page, p, extent)
  PROVE  /\ Together(page') /\ AskedFollows(page', asked')
         /\ page'.cards = page.cards
         /\ \A q \in Containers : q # p => (HasPlot(page', q) <=> HasPlot(page, q))
<1>1. PageOK(page) /\ \A q \in Containers : page.plot[q].pending = None
  BY RestIsQuiet DEF Together
<1>2. CASE page' = Drop(page, p)
  <2>1. Dropped(page, page', p)
    BY <1>1, <1>2, DropUnregisters
  <2>2. Together(page')
    BY <2>1, DroppedKeepsTogether
  <2>3. page'.win = page.win /\ \A q \in Containers : page'.plot[q].pending = None
    BY <1>1, <2>1 DEF Dropped
  <2>4. AskedFollows(page', asked')
    BY <2>3, RestHasWindow, NoneIsNoInstant DEF AskedFollows
  <2> QED
    BY <2>1, <2>2, <2>4 DEF Dropped, HasPlot
<1>3. CASE page' = Draw(page, p, extent)
  <2>1. Drawn(page, page', p, extent)
    BY <1>1, <1>3, DrawRegisters
  <2>2. Together(page')
    BY <2>1, DrawnKeepsTogether
  <2>3. /\ page'.win = page.win
        /\ \A q \in Containers :
             /\ page.win # None /\ page.win \notin Instants => page'.plot[q].pending \in {None, page.win}
             /\ page'.plot[q].pending \in {None, page.win, extent}
    BY <1>1, <2>1 DEF Drawn, Ignores
  <2>4. asked \in Windows => page.win = asked
    BY RestHasWindow
  <2>5. AskedFollows(page', asked')
    BY <2>3, <2>4, NoneAssumption, NoneIsNoInstant DEF AskedFollows
  <2> QED
    BY <2>1, <2>2, <2>5 DEF Drawn, HasPlot
<1> QED
  BY <1>2, <1>3

LEMMA RebuildKeepsZoom ==
  ASSUME ZoomInv, NEW c \in Cards, c <= created, page.tasks = <<>>, RebuildChart(c)
  PROVE  /\ Together(page') /\ AskedFollows(page', asked')
         /\ page'.cards = page.cards /\ UNCHANGED <<created, active>>
         /\ \A d \in Cards : d > created' => ~HasPlot(page', d)
<1>1. PICK extent \in Extents[c] :
        page' = IF selected[c] = {} THEN Drop(page, c) ELSE Draw(page, c, extent)
  BY DEF RebuildChart
<1>2. c \in Containers /\ Cards \subseteq Containers /\ extent # None /\ extent \notin Instants
  BY CardsAreContainers, ExtentAssumption, MomentAssumption, NoneAssumption DEF ZoomInv
<1>3. UNCHANGED <<created, active, asked>>
  BY DEF RebuildChart
<1>4. page' = Drop(page, c) \/ page' = Draw(page, c, extent)
  BY <1>1
<1>5. /\ Together(page') /\ AskedFollows(page', asked')
      /\ page'.cards = page.cards
      /\ \A q \in Containers : q # c => (HasPlot(page', q) <=> HasPlot(page, q))
  BY <1>2, <1>3, <1>4, RedrawnKeepsZoom DEF ZoomInv
<1>6. ASSUME NEW d \in Cards, d > created' PROVE ~HasPlot(page', d)
  <2>1. d # c /\ ~HasPlot(page, d)
    BY <1>3, <1>6, LayoutAssumption DEF ZoomInv, CardInv, CreatedFirst, Cards
  <2> QED
    BY <1>2, <1>5, <2>1
<1> QED
  BY <1>3, <1>5, <1>6

LEMMA RemoveKeepsZoom ==
  ASSUME ZoomInv, NEW c \in Cards, RemoveChart(c)
  PROVE  CreatedFirst' /\ Together(page') /\ AskedFollows(page', asked')
<1> DEFINE dropped == Drop(page, c)
           cards == page.cards \ {c}
<1>1. /\ page.tasks = <<>> /\ c \in page.cards /\ Cardinality(page.cards) > 1
      /\ page' = [dropped EXCEPT !.cards = dropped.cards \ {c}]
      /\ timers' = timers \ {c} /\ active' = IF active = c THEN Min(page'.cards) ELSE active
      /\ UNCHANGED <<created, frames, asked>>
  BY DEF RemoveChart, AtRest
<1>2. c \in Containers /\ PageOK(page) /\ Cards \subseteq Containers
  BY CardsAreContainers DEF ZoomInv, Together
<1>3. Dropped(page, dropped, c) /\ \A q \in Containers : page.plot[q].pending = None
  BY <1>1, <1>2, DropUnregisters, RestIsQuiet
<1>4. Together(dropped)
  BY <1>1, <1>2, <1>3, DroppedKeepsTogether DEF ZoomInv
<1> HIDE DEF dropped
<1>5. Together(page')
  <2>1. page' = [dropped EXCEPT !.cards = cards]
    BY <1>1, <1>3 DEF Dropped
  <2>2. \A q \in cards \ dropped.cards : FALSE
    BY <1>3 DEF Dropped
  <2> HIDE DEF cards
  <2> QED
    BY <1>4, <2>1, <2>2, CardsKeepTogether
<1>6. page'.cards = cards /\ page'.plot = dropped.plot /\ page'.win = dropped.win /\ page'.tasks = dropped.tasks
  BY <1>1, <1>3 DEF Dropped, PageShape, IsRecord
<1>7. AskedFollows(page', asked')
  BY <1>1, <1>3, <1>6, RestHasWindow, NoneIsNoInstant DEF Dropped, AskedFollows, ZoomInv
<1>8. active' \in page'.cards
  <2>1. page.cards \subseteq Nat /\ IsFiniteSet(page.cards)
    <3>1. page.cards \subseteq 1..created /\ created \in Nat
      BY LayoutAssumption DEF ZoomInv, CardInv
    <3>2. IsFiniteSet(1..created)
      BY <3>1, FS_Interval
    <3> QED
      BY <3>1, <3>2, FS_Subset
  <2>2. cards # {}
    <3> SUFFICES ASSUME cards = {} PROVE FALSE
      OBVIOUS
    <3>1. page.cards = {c}
      BY <1>1
    <3>2. Cardinality({c}) = 1
      BY FS_Singleton
    <3>3. Cardinality({c}) > 1
      BY Zenon, <1>1, <3>1
    <3> QED
      BY <3>2, <3>3
  <2>3. \E x \in cards : \A y \in cards : x <= y
    <3>1. cards \subseteq Nat
      BY <2>1
    <3> HIDE DEF cards
    <3> QED
      BY <2>2, <3>1, LeastNumber
  <2>4. Min(cards) \in cards
    <3> HIDE DEF cards
    <3> QED
      BY Zenon, <2>3 DEF Min
  <2>5. active \in page.cards
    BY DEF ZoomInv, CreatedFirst
  <2> QED
    BY <1>1, <1>6, <2>4, <2>5
<1>9. \A d \in Cards : d > created => ~HasPlot(page', d)
  BY <1>2, <1>3, <1>6 DEF Dropped, HasPlot, ZoomInv, CreatedFirst
<1>10. CreatedFirst'
  BY <1>1, <1>8, <1>9 DEF ZoomInv, CreatedFirst
<1> QED
  BY <1>5, <1>7, <1>10

LEMMA CreateKeepsZoom ==
  ASSUME ZoomInv, NEW selection, CreateChart(selection)
  PROVE  CreatedFirst' /\ Together(page') /\ AskedFollows(page', asked')
<1> DEFINE c == created + 1
           cards == page.cards \cup {c}
<1>1. /\ page.tasks = <<>> /\ created < MaxCards /\ created' = c
      /\ page' = [page EXCEPT !.cards = cards]
      /\ frames' = Append(frames, c) /\ active' = c
      /\ UNCHANGED <<timers, asked>>
  BY DEF CreateChart, AtRest
<1>2. created \in Nat /\ c \in Cards /\ c > created /\ 1..created \subseteq 1..c /\ c \in 1..c
  BY <1>1, LayoutAssumption DEF ZoomInv, CardInv, Cards
<1> HIDE DEF c
<1>3. ~HasPlot(page, c)
  BY <1>2 DEF ZoomInv, CreatedFirst
<1>4. Together(page')
  <2>1. \A q \in cards \ page.cards : q \in Containers => ~HasPlot(page, q)
    BY <1>3
  <2> HIDE DEF cards
  <2> QED
    BY <1>1, <2>1, CardsKeepTogether DEF ZoomInv
<1>5. page'.cards = cards /\ page'.plot = page.plot /\ page'.win = page.win /\ page'.tasks = page.tasks
  BY <1>1 DEF ZoomInv, CardInv, PageShape, IsRecord
<1>6. AskedFollows(page', asked')
  BY <1>1, <1>5 DEF ZoomInv, AskedFollows
<1>7. ToSet(frames') = ToSet(frames) \cup {c}
  BY <1>1, <1>2, AppendAddsOne DEF ZoomInv, CardInv
<1>8. \A d \in Cards : d > created' => ~HasPlot(page', d)
  <2> SUFFICES ASSUME NEW d \in Cards, d > c PROVE ~HasPlot(page, d)
    BY <1>1, <1>5 DEF HasPlot
  <2>1. d > created
    BY <1>2, LayoutAssumption DEF Cards, c
  <2> QED
    BY <2>1 DEF ZoomInv, CreatedFirst
<1>9. CreatedFirst'
  BY <1>1, <1>2, <1>5, <1>7, <1>8 DEF ZoomInv, CreatedFirst
<1> QED
  BY <1>4, <1>6, <1>9

LEMMA StepKeepsZoomInv ==
  ASSUME ZoomInv, [Next]_vars
  PROVE  ZoomInv'
<1> USE DEF ZoomInv
<1>0. CardInv'
  BY StepKeepsCardInv
<1>1. CASE Microtask
  BY <1>0, <1>1, MicrotaskKeepsTogether, MicrotaskKeepsCharts, SameChartsKeepCreated
<1>2. CASE Reset
  <2>1. SameCharts(page, page') /\ UNCHANGED cardVars /\ asked' = "reset"
    BY <1>2, ResetKeepsCharts DEF CardInv, Reset
  <2>2. AskedFollows(page', asked')
    BY <2>1, NoneAssumption, MomentAssumption DEF AskedFollows
  <2> QED
    BY <1>0, <1>2, <2>1, <2>2, ResetKeepsTogether, SameChartsKeepCreated
<1>3. ASSUME NEW p \in Containers, NEW w \in Windows, Zoom(p, w)
      PROVE  ZoomInv'
  <2>1. UNCHANGED cardVars /\ asked' = w
    BY <1>3 DEF Zoom
  <2>2. SameCharts(page, page')
    <3> DEFINE range == [q \in {p} |-> w]
    <3>1. page' = SetScale(page, <<p>>, range)
      BY <1>3 DEF Zoom
    <3> HIDE DEF range
    <3> QED
      BY <3>1, SetScaleKeepsCharts DEF CardInv
  <2>3. /\ Together(page')
        /\ page'.tasks = <<Commit(p)>> /\ page'.plot[p].pending = w /\ page'.plot[p].shown # w
    BY <1>3, ZoomKeepsTogether
  <2>4. AskedFollows(page', asked')
    <3>1. w \notin Instants
      BY <1>3 DEF Zoom
    <3> QED
      BY <2>1, <2>3, <3>1, NoneAssumption DEF AskedFollows
  <2> QED
    BY <1>0, <2>1, <2>2, <2>3, <2>4, SameChartsKeepCreated
<1>4. ASSUME NEW p \in Panels, RedrawEmpty(p) \/ \E extent \in Extents[p] : Redraw(p, extent)
      PROVE  ZoomInv'
  <2>1. p \in Containers /\ p \notin Cards /\ Cards \subseteq Containers
    BY ContainerAssumption DEF Containers
  <2>2. page.tasks = <<>> /\ UNCHANGED <<cardVars, asked>>
    BY <1>4 DEF RedrawEmpty, Redraw, AtRest
  <2>3. Extents[p] \subseteq Windows /\ Extents[p] # {}
    BY <2>1, ExtentAssumption
  <2>4. PICK extent \in Extents[p] : page' = Drop(page, p) \/ page' = Draw(page, p, extent)
    BY <1>4, <2>3 DEF RedrawEmpty, Redraw
  <2>5. extent # None /\ extent \notin Instants
    BY <2>1, <2>3, NoneAssumption, MomentAssumption
  <2>6. /\ Together(page') /\ AskedFollows(page', asked')
        /\ page'.cards = page.cards
        /\ \A q \in Containers : q # p => (HasPlot(page', q) <=> HasPlot(page, q))
    BY <2>1, <2>2, <2>4, <2>5, RedrawnKeepsZoom
  <2>7. CreatedFirst'
    BY <2>1, <2>2, <2>6 DEF CreatedFirst, cardVars
  <2> QED
    BY <1>0, <2>6, <2>7
<1>5. CASE AddNewChart
  BY <1>0, <1>5, CreateKeepsZoom DEF AddNewChart
<1>6. ASSUME NEW c \in Cards, DuplicateChart(c)
      PROVE  ZoomInv'
  BY <1>0, <1>6, CreateKeepsZoom DEF DuplicateChart
<1>7. ASSUME NEW c \in Cards, SetActive(c)
      PROVE  ZoomInv'
  BY <1>0, <1>7 DEF SetActive, CreatedFirst
<1>8. ASSUME NEW c \in Cards, RemoveChart(c)
      PROVE  ZoomInv'
  BY <1>0, <1>8, RemoveKeepsZoom
<1>9. ASSUME NEW c \in Cards, Throttled(c)
      PROVE  ZoomInv'
  <2>1. /\ page.tasks = <<>> /\ c \in timers /\ RebuildChart(c)
        /\ timers' = timers \ {c} /\ frames' = frames
    BY <1>9 DEF Throttled, AtRest
  <2>2. c <= created
    BY <2>1 DEF CreatedFirst
  <2>3. /\ Together(page') /\ AskedFollows(page', asked')
        /\ page'.cards = page.cards /\ UNCHANGED <<created, active>>
        /\ \A d \in Cards : d > created' => ~HasPlot(page', d)
    BY <2>1, <2>2, RebuildKeepsZoom
  <2>4. CreatedFirst'
    BY <2>1, <2>3 DEF CreatedFirst
  <2> QED
    BY <1>0, <2>3, <2>4
<1>10. CASE AnimationFrame
  <2> DEFINE c == Head(frames)
  <2>1. page.tasks = <<>> /\ frames # <<>> /\ RebuildChart(c) /\ frames' = Tail(frames) /\ timers' = timers
    BY <1>10 DEF AnimationFrame, AtRest
  <2>2. c \in Cards /\ ToSet(frames) = ToSet(frames') \cup {c}
    BY <2>1, TailLosesHead DEF CardInv
  <2> HIDE DEF c
  <2>3. c <= created
    BY <2>2 DEF CreatedFirst
  <2>4. /\ Together(page') /\ AskedFollows(page', asked')
        /\ page'.cards = page.cards /\ UNCHANGED <<created, active>>
        /\ \A d \in Cards : d > created' => ~HasPlot(page', d)
    BY <2>1, <2>2, <2>3, RebuildKeepsZoom
  <2>5. CreatedFirst'
    BY <2>1, <2>2, <2>4 DEF CreatedFirst
  <2> QED
    BY <1>0, <2>4, <2>5
<1>11. ASSUME NEW selection \in SUBSET Counters, Select(selection)
       PROVE  ZoomInv'
  <2>1. timers' = timers \cup {active} /\ UNCHANGED <<page, created, active, frames, asked>>
    BY <1>11 DEF Select
  <2>2. active \in 1..created
    BY DEF CreatedFirst, CardInv
  <2> QED
    BY <1>0, <2>1, <2>2 DEF CreatedFirst
<1>12. CASE UNCHANGED vars
  BY <1>0, <1>12 DEF vars, cardVars, CreatedFirst
<1> QED
  BY <1>1, <1>2, <1>3, <1>4, <1>5, <1>6, <1>7, <1>8, <1>9, <1>10, <1>11, <1>12 DEF Next

\* 05.js: whatever the panels, the windows and the order of zooms, resets, redraws
\* and new cards, when the microtasks are done all charts of the page show one
\* window, but for those of several samples while that is a moment, their legends
\* describe it, and it is the one that was asked for last.
THEOREM ChartsZoomTogether ==
  Spec => []ZoomedTogether
<1>1. Init => ZoomInv
  BY InitIsTogether, InitEstablishesCardInv DEF ZoomInv
<1>2. ZoomInv /\ [Next]_vars => ZoomInv'
  BY StepKeepsZoomInv
<1>3. ZoomInv => ZoomedTogether
  <2> SUFFICES ASSUME ZoomInv, page.tasks = <<>> PROVE ZoomedTogether
    BY DEF ZoomedTogether, AtRest
  <2>1. ToSet(page.tasks) = {} /\ \A p \in Containers : page.plot[p].pending = None
    BY RestIsQuiet DEF ZoomInv, Together
  <2>2. \A p \in Shown : /\ page.plot[p].shown = Target(page, p) \/ Ignores(page, p, page.win)
                        /\ page.legend[p] = page.win
    <3> SUFFICES ASSUME NEW p \in Shown
                 PROVE  /\ page.plot[p].shown = Target(page, p) \/ Ignores(page, p, page.win)
                        /\ page.legend[p] = page.win
      OBVIOUS
    <3>1. p \in Containers /\ Follows(page, p)
      BY DEF Shown, ZoomInv, Together
    <3> QED
      BY <2>1, <3>1 DEF Follows
  <2>3. asked \in Windows => page.win = asked
    BY RestHasWindow DEF ZoomInv
  <2>4. page.win \in Instants => asked = "reset"
    BY <2>3 DEF ZoomInv, AskedFollows
  <2> QED
    BY <2>2, <2>3, <2>4 DEF ZoomedTogether, Target
<1> QED
  BY <1>1, <1>2, <1>3, PTL DEF Spec
=============================================================================
