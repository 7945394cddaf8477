------------------------------ MODULE Analysis ------------------------------
(***************************************************************************)
(* What the report concludes from the evidence of a capture: the Advisor's   *)
(* findings and the sizing of the redo log.                                 *)
(***************************************************************************)
EXTENDS Advisor, RedoSizing

CONSTANT Evidence   \* what may be read off a capture

\* A slot holds a number or is a gap, and has a time.  A number is the difference to
\* the sample before, which was taken in the same file and no later.
TimedSlots(slots, times) ==
  /\ slots \in Seq(Seq(Int)) /\ times \in Seq(Int) /\ Len(times) = Len(slots)
  /\ \A i \in 2..Len(slots) : slots[i] # Gap => times[i - 1] <= times[i]

\* A setting is looked up by snapshot; merged status data has slots for every
\* name, and its counters are among the names.
StatusFields == {"names", "counters", "count", "times", "deltas", "boundaries"}
ASSUME EvidenceAssumption ==
  \A e \in Evidence :
    /\ DOMAIN e = {"merged", "vars", "innodb", "queries"}
    /\ e.vars \in Seq(ToSet(e.vars))
    /\ e.merged # Nil =>
         /\ DOMAIN e.merged = StatusFields
         /\ e.merged.counters \subseteq e.merged.names
         /\ e.merged.names \subseteq DOMAIN e.merged.deltas
         /\ Written \in e.merged.counters => TimedSlots(e.merged.deltas[Written], e.merged.times)

VARIABLES
  evidence,   \* [merged, vars, innodb, queries]
  analysis    \* findings, drivers and redo; Nil before

analysisVars == <<evidence, analysis>>

AnalysisInit == evidence \in Evidence /\ analysis = Nil

Conclusions(findings, redo) ==
  [findings |-> findings, drivers |-> TopDrivers(findings), counts |-> Summarise(findings), redo |-> redo]

Conclude ==
  /\ analysis = Nil
  /\ analysis' = Conclusions(Analyze(evidence), computeRedoSizing(evidence.merged, evidence.vars))
  /\ UNCHANGED evidence

AnalysisNext == Conclude
AnalysisSpec == AnalysisInit /\ [][AnalysisNext]_analysisVars
-----------------------------------------------------------------------------
\* The evidence without one input: a status variable, a setting, or a whole source.
WithoutStatus(e, name) ==
  LET m == e.merged IN
  [e EXCEPT !.merged =
     [m EXCEPT !.names = m.names \ {name}, !.counters = m.counters \ {name},
               !.deltas = [x \in DOMAIN m.deltas \ {name} |-> m.deltas[x]]]]
Unset(vars, name) == [n \in DOMAIN vars |-> [x \in DOMAIN vars[n] \ {name} |-> vars[n][x]]]
WithoutSetting(e, name) == [e EXCEPT !.vars = Unset(e.vars, name)]
Poorer(e) ==
  {[e EXCEPT !.merged = Nil], [e EXCEPT !.vars = <<>>], [e EXCEPT !.queries = <<>>],
   [e EXCEPT !.innodb = [n \in DOMAIN @ |-> Nil]]}
  \cup (IF e.merged = Nil THEN {} ELSE {WithoutStatus(e, name) : name \in e.merged.names})
  \cup {WithoutSetting(e, name) : name \in UNION {DOMAIN e.vars[n] : n \in DOMAIN e.vars}}

NoEscalation(without, with) == without.severity >= Warn => without.severity <= with.severity
NeverEscalates(ids) ==
  analysis # Nil => \A id \in ids : \A poorer \in Poorer(evidence) :
    NoEscalation(Run(id, poorer), Run(id, evidence))

\* The rules that fall back on something else where an input is missing.
FallbackRules ==
  {"thread.max_queue_depth", "config.sync_binlog_not_one", "queryshape.handler_read_rnd_next"}

\* findings/inputs.go: a warning is never owed to what is missing.  Whatever else
\* was captured, a rule without a fallback does not warn, and is not more severe,
\* because a counter, a setting or a whole source is not there.
AbsenceNeverEscalates == NeverEscalates(RuleIds \ FallbackRules)

\* The windows of at least length over slots without a gap: slots from..i.
WindowsIn(slots, times, length) ==
  {w \in (2..Len(slots)) \X (2..Len(slots)) :
     /\ w[1] <= w[2] /\ times[w[2]] - times[w[1] - 1] >= length
     /\ \A k \in w[1]..w[2] : slots[k] # Gap}
SmallestWindows(slots, times, length) ==
  LET all == WindowsIn(slots, times, length) IN {w \in all : \A v \in all : v[2] = w[2] => v[1] <= w[1]}
WindowRate(slots, times, w) ==
  [bytes |-> BytesIn(slots, w[1], w[2]), seconds |-> times[w[2]] - times[w[1] - 1]]

\* render/redo_sizing.go, computeRollingPeak: however the samples are spaced, and
\* wherever gaps, resets and snapshot boundaries fall, the peak is the rate of a
\* window within one block that is long enough, and no shortest such window to any
\* sample is busier.
PeakOfShortestWindows ==
  analysis # Nil =>
    LET observed == analysis.redo.observed
        m == evidence.merged
    IN observed # Nil =>
         LET windows == SmallestWindows(m.deltas[Written], m.times, observed.window)
             rates == {WindowRate(m.deltas[Written], m.times, w) : w \in windows}
         IN /\ \A rate \in rates : ~Faster(rate, observed.peak)
            /\ observed.peak.bytes > 0 => observed.peak \in rates
==============================================================================
