-------------------------- MODULE ProcesslistParser -------------------------
(***************************************************************************)
(* parseProcesslist: polls of SHOW FULL PROCESSLIST in vertical format      *)
(* under TS lines.  A row is a separator and its field lines; it is         *)
(* attributed when the next separator, TS line or the end closes it.  Of    *)
(* the five dimensions, which the parser treats alike, the model has two.   *)
(***************************************************************************)
EXTENDS LineParser, ObservedQueries

CONSTANT Rows   \* rows of the process list: sequences of fields <<key, value>>

\* The metrics are those that parseProcesslistNonNegativeFloat takes; texts are known by shape.
ASSUME RowsAssumption ==
  \A fields \in Rows :
    /\ fields \in Seq(ToSet(fields))
    /\ \A j \in DOMAIN fields :
         fields[j][1] \in {"Time", "Time_ms", "Rows_examined", "Info"} => fields[j][2] \in Nat

NoRow ==
  [command |-> "", state |-> "", time |-> NoMetric, timeMS |-> NoMetric, examined |-> NoMetric,
   shape |-> 0, core |-> FALSE]

\* What the field lines of a row say; of a field that appears twice the last one counts.
FieldOf(fields, key, default) ==
  LET at == {j \in DOMAIN fields : fields[j][1] = key} IN IF at = {} THEN default ELSE fields[Max(at)][2]
RowOf(fields) ==
  [command |-> FieldOf(fields, "Command", NoRow.command), state |-> FieldOf(fields, "State", NoRow.state),
   time |-> FieldOf(fields, "Time", NoMetric), timeMS |-> FieldOf(fields, "Time_ms", NoMetric),
   examined |-> FieldOf(fields, "Rows_examined", NoMetric), shape |-> FieldOf(fields, "Info", NoRow.shape),
   core |-> \E j \in DOMAIN fields : fields[j][1] \in {"State", "Command"}]

\* Time_ms when it was read, else Time in milliseconds.
AgeMS(row) ==
  IF row.timeMS # NoMetric THEN row.timeMS ELSE IF row.time # NoMetric THEN row.time * 1000 ELSE NoMetric
Query(row) ==
  [command |-> row.command, shape |-> row.shape, time |-> AgeMS(row), examined |-> row.examined,
   context |-> row.state]

Label(s) == IF s \in {"", "NULL"} THEN "Other" ELSE s
CommandLabel(s) == IF s = "" THEN "Other" ELSE s

\* One more of the bucket, in a function on the buckets seen.
Bump(counts, b) == With(counts, b, IF b \in DOMAIN counts THEN counts[b] + 1 ELSE 1)

NoPoll == [at |-> -1]
NewPoll(at) ==
  [at |-> at, state |-> <<>>, command |-> <<>>, total |-> 0, active |-> 0, sleeping |-> 0,
   maxTime |-> 0, hasTime |-> FALSE, withText |-> 0]

ProcesslistStart == [polls |-> <<>>, poll |-> NoPoll, row |-> NoRow, queries |-> NoGroups]

IsActive(row) == row.command # "Sleep"

CountRow(poll, row) ==
  [poll EXCEPT !.state = Bump(@, Label(row.state)), !.command = Bump(@, CommandLabel(row.command)),
               !.total = @ + 1,
               !.active = @ + (IF IsActive(row) THEN 1 ELSE 0),
               !.sleeping = @ + (IF row.command = "Sleep" THEN 1 ELSE 0),
               !.maxTime = Max({@, Metric(AgeMS(row))}),
               !.hasTime = @ \/ AgeMS(row) # NoMetric,
               !.withText = @ + (IF row.shape = 0 THEN 0 ELSE 1)]

\* flushRow: a row without a core field is dropped.
FlushRow(s) ==
  IF s.poll = NoPoll THEN s
  ELSE IF ~s.row.core THEN [s EXCEPT !.row = NoRow]
  ELSE [s EXCEPT
          !.row = NoRow, !.poll = CountRow(@, s.row),
          !.queries = IF Eligible(Query(s.row)) THEN AddQuery(@, NewObserved(s.poll.at, Query(s.row))) ELSE @]

\* The poll that a TS line or the end of the file closes.
ClosePoll(s) == [s EXCEPT !.polls = IF s.poll = NoPoll THEN @ ELSE Append(@, s.poll)]

\* A TS line; the clock of the host may step back between two of them.
ProcesslistTS ==
  \E at \in {start, start + Len(read) + 1} :
    Line("processlist", [t |-> "ts", at |-> at], [ClosePoll(FlushRow(loc)) EXCEPT !.poll = NewPoll(at)], None)

\* A separator and the field lines up to the next, or as many as the capture has.
ProcesslistRow ==
  \E fields \in Rows :
    Line("processlist", [t |-> "row", fields |-> fields],
         IF loc.poll = NoPoll THEN loc ELSE [FlushRow(loc) EXCEPT !.row = RowOf(fields)], None)

\* sort.SliceStable by time.
SortedPolls(polls) ==
  LET before(i, j) == polls[i].at < polls[j].at \/ (polls[i].at = polls[j].at /\ i < j)
      order == InOrder(DOMAIN polls, {p \in (DOMAIN polls) \X (DOMAIN polls) : before(p[1], p[2])})
  IN [n \in DOMAIN order |-> polls[order[n]]]

ProcesslistEnd ==
  LET s == ClosePoll(FlushRow(loc)) IN
  End("processlist", s.polls = <<>>,
      [polls |-> SortedPolls(s.polls),
       states |-> UNION {DOMAIN s.polls[i].state : i \in DOMAIN s.polls},
       queries |-> MergeAllQueries(SetToSeq({s.queries[q] : q \in DOMAIN s.queries}))], None)

ProcesslistNext == ProcesslistTS \/ ProcesslistRow \/ ProcesslistEnd
-----------------------------------------------------------------------------
\* The rows of the poll that starts at line p, with a field of interest.
ThreadsOf(p) ==
  {i \in Positions("row", Len(read)) :
     LastBefore("ts", i) = p /\ \E j \in DOMAIN read[i].fields : read[i].fields[j][1] \in {"State", "Command"}}

\* A row as it was listed: of a field that appears twice, the last line.
Listed(i) == RowOf(read[i].fields)

\* parse/processlist.go: every poll becomes a sample, whose threads are the
\* rows of that poll, the one that the end of the file cuts off included; in
\* each dimension the buckets add up to them, and so do active and sleeping.
\* model.ObservedProcesslistQuery: each shape of query that a row of a poll
\* runs has one summary; it counts its rows, spans them, has their peaks, and
\* its context is that of the slowest of them, of equals the first.
ThreadsCountedOnce ==
  kind = "processlist" /\ result.state = "data" =>
    LET rows == UNION {ThreadsOf(p) : p \in Positions("ts", Len(read))}
        seen == [i \in rows |-> [at |-> read[LastBefore("ts", i)].at, row |-> Query(Listed(i))]]
    IN /\ Len(result.data.polls) = Cardinality(Positions("ts", Len(read)))
       /\ \A at \in {read[p].at : p \in Positions("ts", Len(read))} :
            {s.total : s \in {s \in ToSet(result.data.polls) : s.at = at}} =
              {Cardinality(ThreadsOf(p)) : p \in {p \in Positions("ts", Len(read)) : read[p].at = at}}
       /\ \A s \in ToSet(result.data.polls) :
            /\ Total(s.state) = s.total
            /\ Total(s.command) = s.total
            /\ s.active + s.sleeping = s.total
            /\ DOMAIN s.state \subseteq result.data.states
            /\ s.hasTime \/ s.maxTime = 0
       /\ SummariseAll(result.data.queries, seen)
=============================================================================
