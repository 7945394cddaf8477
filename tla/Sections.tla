------------------------------ MODULE Sections ------------------------------
(***************************************************************************)
(* The sections of the report, from the payloads of the snapshots' files:   *)
(* what render/collection.go, render/concat.go and                          *)
(* model/mysqladmin_merge.go make of them.  A payload has the form its      *)
(* parser gives it.  A series is a sequence over the axis that all snapshots *)
(* share, boundaries are the first positions on it, from 0.                 *)
(***************************************************************************)
EXTENDS Payloads

CONSTANT Mysqld   \* the processes whose command is mysqld or mariadbd

FirstDevice(p) == Min(DOMAIN p)

\* concatIostat: a device that a snapshot lacks is a gap along its axis, that of
\* the first device.
concatIostat(all) ==
  LET ins == Present(all)
      part(p, d) == IF d \in DOMAIN p THEN [i \in DOMAIN p[d] |-> <<p[d][i].v>>]
                    ELSE [i \in DOMAIN p[FirstDevice(p)] |-> Gap]
  IN [devices |-> [d \in UNION {DOMAIN ins[n] : n \in DOMAIN ins} |->
                     FlattenSeq([n \in DOMAIN ins |-> part(ins[n], d)])],
      boundaries |-> OffsetsOf(ins, LAMBDA p : Len(p[FirstDevice(p)]))]

\* mergeMetricSeriesByName: the metrics of the first input decide.
mergeMetricSeriesByName(all) ==
  LET ins == Present(all)
      metrics == IF ins = <<>> THEN {} ELSE DOMAIN ins[1]
      series(p, m) == IF m \in DOMAIN p THEN p[m] ELSE <<>>
  IN [series |-> [m \in metrics |-> FlattenSeq([n \in DOMAIN ins |-> series(ins[n], m)])],
      boundaries |-> OffsetsOf(ins, LAMBDA p : Len(series(p, Min(metrics))))]

\* concatTop: the processes are ranked anew over all samples; of a process that
\* is listed twice in a second the last line counts; mysqld is always shown.
CpuAt(samples, t, p) ==
  LET at == {i \in DOMAIN samples : samples[i].at = t /\ samples[i].pid = p} IN
  IF at = {} THEN 0 ELSE samples[Max(at)].v
Seconds(samples) == {samples[i].at : i \in DOMAIN samples}
CpuSum(samples, p) == MapThenSumSet(LAMBDA t : CpuAt(samples, t, p), Seconds(samples))

Ranked(samples) ==
  SetToSortSeq({samples[i].pid : i \in DOMAIN samples},
               LAMBDA p, q : \/ CpuSum(samples, p) > CpuSum(samples, q)
                             \/ CpuSum(samples, p) = CpuSum(samples, q) /\ p > q)

\* The first three, and the first mysqld after them if none is among them.
Shown(ranked) ==
  LET three == Min({3, Len(ranked)})
      later == {n \in three + 1..Len(ranked) : ranked[n] \in Mysqld}
  IN SubSeq(ranked, 1, three) \o
     IF later = {} \/ (\E n \in 1..three : ranked[n] \in Mysqld) THEN <<>> ELSE <<ranked[Min(later)]>>

concatTop(all) ==
  LET ins == Present(all)
      samples == FlattenSeq([n \in DOMAIN ins |-> ins[n].samples])
  IN [axis |-> SetToSortSeq(Seconds(samples), <),
      series |-> [n \in DOMAIN Shown(Ranked(samples)) |->
                    LET p == Shown(Ranked(samples))[n] IN
                    [pid |-> p,
                     cpu |-> LET axis == SetToSortSeq(Seconds(samples), <) IN
                             [i \in DOMAIN axis |-> CpuAt(samples, axis[i], p)]]],
      boundaries |-> OffsetsOf(ins, LAMBDA p : Cardinality(Seconds(p.samples)))]

\* concatProcesslist
concatProcesslist(all) ==
  LET ins == Present(all) IN
  [polls |-> FlattenSeq([n \in DOMAIN ins |-> ins[n].polls]),
   states |-> UNION {ins[n].states : n \in DOMAIN ins},
   queries |-> MergeQueries(FlattenSeq([n \in DOMAIN ins |-> ins[n].queries]), 10),
   boundaries |-> OffsetsOf(ins, LAMBDA p : Len(p.polls))]

\* concatNetstat
concatNetstat(all) ==
  LET ins == Present(all) IN
  [samples |-> FlattenSeq(ins), boundaries |-> OffsetsOf(ins, Len)]

\* One slot of concatNetstatS: nothing at the first poll of a file, for a counter
\* that one of the two polls lacks, and for one that went backwards.
NetstatSDelta(prev, curr, c, first) ==
  IF first \/ c \notin DOMAIN prev \/ c \notin DOMAIN curr THEN Gap
  ELSE IF curr[c] < prev[c] THEN Gap ELSE <<curr[c] - prev[c]>>

concatNetstatS(all) ==
  LET ins == Present(all)
      flat == FlattenSeq(ins)
      boundaries == OffsetsOf(ins, Len)
      labels == UNION {DOMAIN flat[i].vals : i \in DOMAIN flat}
      slot(c, i) == IF i = 1 THEN Gap
                    ELSE NetstatSDelta(flat[i - 1].vals, flat[i].vals, c, i - 1 \in ToSet(boundaries))
  IN [times |-> [i \in DOMAIN flat |-> flat[i].at],
      deltas |-> [c \in labels |-> [i \in DOMAIN flat |-> slot(c, i)]],
      boundaries |-> boundaries]

\* Mutant of Joined: a counter goes on as if its snapshots were one.
JoinedThrough(n, first, slots) == slots

\* The slots a snapshot adds to a merged variable: of a counter in a later
\* snapshot, without the first, which is a tally.
Joined(counter, first, slots) == IF counter /\ ~first THEN <<Gap>> \o Tail(slots) ELSE slots

\* MergeMysqladminData: one snapshot is taken as it is; a variable is a counter
\* if it is one in any; where a snapshot lacks a variable there are gaps.
MergeMysqladminData(all) ==
  LET ins == Present(all)
      names == UNION {ins[n].names : n \in DOMAIN ins}
      counters == UNION {ins[n].counters : n \in DOMAIN ins}
      part(v, n) == IF v \in ins[n].names THEN Joined(v \in counters, n = 1, ins[n].deltas[v])
                    ELSE [i \in 1..ins[n].count |-> Gap]
      lengths == [n \in DOMAIN ins |-> ins[n].count]
  IN IF Len(ins) = 1 THEN ins[1]
     ELSE [names |-> names, counters |-> counters, count |-> Total(lengths),
           times |-> FlattenSeq([n \in DOMAIN ins |-> ins[n].times]),
           deltas |-> [v \in names |-> FlattenSeq([n \in DOMAIN ins |-> part(v, n)])],
           boundaries |-> Offsets(lengths)]
=============================================================================
