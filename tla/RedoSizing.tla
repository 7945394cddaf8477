----------------------------- MODULE RedoSizing -----------------------------
(***************************************************************************)
(* render/redo_sizing.go: how much redo log the observed writes call for.   *)
(* The slots of Innodb_os_log_written are cut into blocks at the gaps; the   *)
(* peak is the busiest of the windows that slide over each block.  A rate is *)
(* [bytes, seconds].                                                        *)
(***************************************************************************)
EXTENDS Payloads

CONSTANT PeakWindow   \* redoSizingPeakWindowSeconds

ASSUME RedoAssumption == PeakWindow \in Nat \ {0}

readConfiguredRedoSpace(vars) ==
  LET value(name) == LET v == VariableFloat(vars, name) IN IF v = Gap THEN 0 ELSE Max({0, v[1]})
  IN IF value("innodb_redo_log_capacity") > 0 THEN value("innodb_redo_log_capacity")
     ELSE value("innodb_log_file_size") * value("innodb_log_files_in_group")

\* Where a run of slots without a gap begins, and the run, from first to last.
Starts(slots) == {i \in 1..Len(slots) : slots[i] # Gap /\ (i = 1 \/ slots[i - 1] = Gap)}
BlockAt(slots, i) ==
  [first |-> i, last |-> Max({j \in i..Len(slots) : \A k \in i..j : slots[k] # Gap})]
BlocksAt(slots, starts) ==
  LET order == Ascending(starts) IN [n \in DOMAIN order |-> BlockAt(slots, order[n])]

\* SkipFirst: the very first slot is a tally, not a difference.
FirstDelta(b) == IF b.first = 1 THEN 2 ELSE b.first

hasUsableDelta(b) == FirstDelta(b) <= b.last
blockLeftBoundIdx(b) == FirstDelta(b) - 1
SpanOf(b, times) == times[b.last] - times[blockLeftBoundIdx(b)]
UsableStarts(slots) == {i \in Starts(slots) : hasUsableDelta(BlockAt(slots, i))}
UsableBlocks(slots) == BlocksAt(slots, UsableStarts(slots))

\* A counter that was reset wrote nothing.
clampNonNegative(slot) == Max({0, slot[1]})
BytesIn(slots, first, last) ==
  LET sum[i \in first - 1..last] == IF i < first THEN 0 ELSE sum[i - 1] + clampNonNegative(slots[i])
  IN sum[last]

Faster(a, b) == a.bytes * b.seconds > b.bytes * a.seconds
NoRate == [bytes |-> 0, seconds |-> 1]

\* Mutant of Trimmed: a window of exactly the length is not short enough.
TrimmedLong(times, from, i, window) == Min({k \in from..i : k = i \/ times[i] - times[k] <= window})

\* The left end moves up while the window stays long enough.
Trimmed(times, from, i, window) == Min({k \in from..i : k = i \/ times[i] - times[k] < window})

\* The window moves on to slot i; s is [from, bytes, peak].
Slide(slots, times, window, s, i) ==
  LET from == Trimmed(times, s.from, i, window)
      bytes == s.bytes + clampNonNegative(slots[i]) - BytesIn(slots, s.from, from - 1)
      rate == [bytes |-> bytes, seconds |-> times[i] - times[from - 1]]
  IN [from |-> from, bytes |-> bytes,
      peak |-> IF rate.seconds >= window /\ Faster(rate, s.peak) THEN rate ELSE s.peak]

PeakWithin(slots, times, window, peak, b) ==
  LET walk[i \in FirstDelta(b) - 1..b.last] ==
        IF i < FirstDelta(b) THEN [from |-> FirstDelta(b), bytes |-> 0, peak |-> peak]
        ELSE Slide(slots, times, window, walk[i - 1], i)
  IN walk[b.last].peak

\* computeRollingPeak: without a block as long as the target, the longest block.
WindowOf(slots, times) ==
  LET longest == Max({0} \cup {SpanOf(BlockAt(slots, i), times) : i \in UsableStarts(slots)})
  IN Min({PeakWindow, longest})
computeRollingPeak(slots, times, window) ==
  LET blocks == UsableBlocks(slots)
      peak[n \in 0..Len(blocks)] ==
        IF n = 0 THEN NoRate ELSE PeakWithin(slots, times, window, peak[n - 1], blocks[n])
  IN IF window = 0 THEN NoRate ELSE peak[Len(blocks)]

Written == "Innodb_os_log_written"

\* readObservedRedoRate: the average over the blocks that take any time, and the peak.
RateOfBlocks(slots, times, blocks) ==
  [bytes |-> FoldLeft(LAMBDA sum, b : sum + BytesIn(slots, FirstDelta(b), b.last), 0, blocks),
   seconds |-> FoldLeft(LAMBDA sum, b : sum + SpanOf(b, times), 0, blocks)]
ObservedIn(slots, times, blocks, window) ==
  IF blocks = <<>> THEN Nil
  ELSE [average |-> RateOfBlocks(slots, times, blocks), window |-> window,
        peak |-> computeRollingPeak(slots, times, window)]
readObservedRedoRate(merged) ==
  IF merged = Nil THEN Nil
  ELSE IF Written \notin merged.counters \/ merged.count < 2 THEN Nil
  ELSE LET slots == merged.deltas[Written] IN
       ObservedIn(slots, merged.times,
                  BlocksAt(slots, {i \in UsableStarts(slots) : SpanOf(BlockAt(slots, i), merged.times) > 0}),
                  WindowOf(slots, merged.times))

deriveRedoSizingState(rateOK, anyWrites, configured) ==
  IF ~rateOK THEN "rate_unavailable"
  ELSE IF configured = 0 THEN "config_missing" ELSE IF ~anyWrites THEN "no_writes" ELSE "ok"

\* computeRedoSizing: a peak of 0 although something was written is no rate at all.
SizingOf(configured, observed) ==
  LET anyWrites == observed # Nil /\ observed.average.bytes > 0
      rateOK == observed # Nil /\ (anyWrites => observed.peak.bytes > 0)
      state == deriveRedoSizingState(rateOK, anyWrites, configured)
  IN [configured |-> configured, state |-> state,
      observed |-> IF rateOK THEN observed ELSE Nil,
      \* less than 15 minutes of the peak fit
      underSized |-> state = "ok" /\ configured * observed.peak.seconds < PeakWindow * observed.peak.bytes]
computeRedoSizing(merged, vars) == SizingOf(readConfiguredRedoSpace(vars), readObservedRedoRate(merged))
=============================================================================
