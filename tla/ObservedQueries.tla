--------------------------- MODULE ObservedQueries --------------------------
(***************************************************************************)
(* NewObservedProcesslistQuery and MergeAllObservedProcesslistQueries of    *)
(* package model: the active queries seen in a process list, grouped by     *)
(* the shape of their text.  A row is a record of the fields a query is     *)
(* made of; a metric that was not read is NoMetric.                         *)
(***************************************************************************)
EXTENDS Integers, Sequences, FiniteSets, SequencesExt, FiniteSetsExt, Functions

\* sort.Slice: the elements of a finite set in an order, a set of pairs.
InOrder(S, before) ==
  [n \in 1..Cardinality(S) |-> CHOOSE x \in S : Cardinality({y \in S : <<y, x>> \in before}) = n - 1]

NoMetric == -1
Metric(v) == IF v = NoMetric THEN 0 ELSE v

\* command, text: eligible rows have a command that is neither Sleep nor
\* Daemon, and a text; shapes of texts are numbers, 0 is none.
Eligible(row) == row.command \notin {"", "Sleep", "Daemon"} /\ row.shape # 0

NewObserved(at, row) ==
  [shape |-> row.shape, first |-> at, last |-> at, seen |-> 1,
   time |-> Metric(row.time), hasTime |-> row.time # NoMetric,
   examined |-> Metric(row.examined), hasExamined |-> row.examined # NoMetric,
   context |-> row.context]

\* Mutant of SlowerSighting: the last of those that are equally slow.
SlowerSightingOrEqual(c, q) == q.hasTime /\ (~c.hasTime \/ q.time >= c.time)

SlowerSighting(c, q) == q.hasTime /\ (~c.hasTime \/ q.time > c.time)

\* A further sighting q of the shape of c; the context is the slowest one's.
MergeQuery(c, q) ==
  LET slower == SlowerSighting(c, q) IN
  [c EXCEPT !.seen = @ + q.seen, !.first = Min({@, q.first}), !.last = Max({@, q.last}),
            !.time = IF slower THEN q.time ELSE @, !.hasTime = @ \/ slower,
            !.context = IF slower THEN q.context ELSE @,
            !.examined = IF q.hasExamined THEN Max({@, q.examined}) ELSE @,
            !.hasExamined = @ \/ q.hasExamined]

\* byFingerprint, a function on the shapes seen, after the queries qs.
AddQuery(groups, q) ==
  IF q.shape \in DOMAIN groups
  THEN [groups EXCEPT ![q.shape] = MergeQuery(@, q)]
  ELSE [s \in DOMAIN groups \cup {q.shape} |-> IF s = q.shape THEN q ELSE groups[s]]
NoGroups == [s \in {} |-> 0]
GroupQueries(qs) ==
  LET groups[n \in 0..Len(qs)] == IF n = 0 THEN NoGroups ELSE AddQuery(groups[n - 1], qs[n])
  IN groups[Len(qs)]

\* The slowest first; then the most rows examined; then by fingerprint.
SlowerQuery(a, b) ==
  \/ a.time > b.time
  \/ a.time = b.time /\ a.examined > b.examined
  \/ a.time = b.time /\ a.examined = b.examined /\ a.shape < b.shape

MergeAllQueries(qs) ==
  LET groups == GroupQueries(qs)
      all == {groups[s] : s \in DOMAIN groups}
  IN InOrder(all, {p \in all \X all : SlowerQuery(p[1], p[2])})

\* MergeObservedProcesslistQueries: at most limit of them.
MergeQueries(qs, limit) ==
  LET all == MergeAllQueries(qs) IN SubSeq(all, 1, Min({limit, Len(all)}))
-----------------------------------------------------------------------------
\* What a summary says of the sightings it stands for: seen maps the lines of the
\* capture that list a row to [at, row].
Sightings(seen, shape) == {i \in DOMAIN seen : Eligible(seen[i].row) /\ seen[i].row.shape = shape}
Summarises(q, seen) ==
  LET mine == Sightings(seen, q.shape)
      timed == {i \in mine : seen[i].row.time # NoMetric}
      worst == {i \in timed : \A j \in timed : seen[j].row.time <= seen[i].row.time}
  IN /\ mine # {} /\ q.seen = Cardinality(mine)
     /\ q.first = Min({seen[i].at : i \in mine}) /\ q.last = Max({seen[i].at : i \in mine})
     /\ q.hasTime <=> timed # {}
     /\ q.time = Max({Metric(seen[i].row.time) : i \in mine})
     /\ q.examined = Max({Metric(seen[i].row.examined) : i \in mine})
     /\ q.context = seen[IF timed = {} THEN Min(mine) ELSE Min(worst)].row.context

\* Every shape of an eligible row has one summary, and no other.
SummariseAll(qs, seen) ==
  /\ \A i \in DOMAIN qs : Summarises(qs[i], seen)
  /\ {qs[i].shape : i \in DOMAIN qs} = {seen[i].row.shape : i \in {i \in DOMAIN seen : Eligible(seen[i].row)}}
  /\ IsInjective([i \in DOMAIN qs |-> qs[i].shape])
=============================================================================
