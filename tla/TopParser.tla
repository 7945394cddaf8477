----------------------------- MODULE TopParser ------------------------------
(***************************************************************************)
(* parseTop: batches under a "top - HH:MM:SS" header.  The header shows a  *)
(* time of day; the parser works out the day from the snapshot's time and  *)
(* from the clock going backwards.                                         *)
(***************************************************************************)
EXTENDS LineParser

CONSTANTS
  Pids, Loads,  \* processes, and values of %CPU
  Day,          \* the length of a day; half of it is the 12 hours of the code
  Instants      \* the instants at which a batch may be captured

ASSUME TopAssumption == Day \in Nat \ {0} /\ Instants \subseteq Nat /\ Pids \subseteq Nat

TopStart == [state |-> "awaitHeader", clock |-> -1, days |-> 0, now |-> start, samples |-> <<>>]

\* Mutant of DayOffset: the first header is taken for the day of the snapshot.
DayOffsetSameDay(clock) ==
  IF loc.clock >= 0 /\ clock < loc.clock THEN loc.days + 1 ELSE loc.days

\* dayOffset after a header that shows clock.
DayOffset(clock) ==
  LET candidate == (start \div Day) * Day + clock IN
  IF loc.clock >= 0
  THEN IF clock < loc.clock THEN loc.days + 1 ELSE loc.days
  ELSE IF 2 * (start - candidate) > Day THEN 1
  ELSE IF 2 * (candidate - start) > Day THEN -1 ELSE loc.days

TopHeader ==
  \E at \in Instants :
    LET clock == at % Day
        days == DayOffset(clock)
    IN Line("top", [t |-> "top", at |-> at],
            [loc EXCEPT !.state = "awaitPID", !.clock = clock, !.days = days,
                        !.now = (start \div Day + days) * Day + clock], None)

TopPIDHeader ==
  Line("top", Of("pid"), [loc EXCEPT !.state = IF @ = "awaitPID" THEN "inProcRows" ELSE @], None)

\* A blank line, or one with fewer than 12 fields, ends the process rows.
TopShort ==
  Line("top", Of("short"), [loc EXCEPT !.state = IF @ = "inProcRows" THEN "awaitHeader" ELSE @], None)

TopRow ==
  \E p \in Pids, v \in Loads :
    Line("top", [t |-> "row", pid |-> p, v |-> v],
         IF loc.state = "inProcRows"
         THEN [loc EXCEPT !.samples = Append(@, [at |-> loc.now, pid |-> p, v |-> v])] ELSE loc, None)

\* A row whose PID or %CPU is not a number.
TopBadRow == Line("top", Of("bad"), loc, IF loc.state = "inProcRows" THEN Warning ELSE None)

Cpu(samples, p) == FoldSeq(LAMBDA s, sum : sum + (IF s.pid = p THEN s.v ELSE 0), 0, samples)

\* The processes by average %CPU, absent counting as 0; of equals the higher PID first.
RankedByCpu(samples) ==
  SetToSortSeq({samples[i].pid : i \in DOMAIN samples},
               LAMBDA p, q : \/ Cpu(samples, p) > Cpu(samples, q)
                             \/ /\ Cpu(samples, p) = Cpu(samples, q)
                                /\ p > q)

TopThree(ranked) == SubSeq(ranked, 1, Min({3, Len(ranked)}))

\* sort.SliceStable by time, then PID: whether sample i comes before sample j.
ComesBefore(samples, i, j) ==
  LET s == samples[i]
      u == samples[j]
  IN \/ s.at < u.at
     \/ s.at = u.at /\ s.pid < u.pid
     \/ s.at = u.at /\ s.pid = u.pid /\ i < j

TopSorted(samples) ==
  LET place(i) == Cardinality({j \in DOMAIN samples : ComesBefore(samples, j, i)}) + 1
  IN [n \in DOMAIN samples |-> samples[CHOOSE i \in DOMAIN samples : place(i) = n]]

TopEnd ==
  End("top", loc.samples = <<>>,
      [samples |-> TopSorted(loc.samples), top3 |-> TopThree(RankedByCpu(loc.samples))], None)

TopNext == TopHeader \/ TopPIDHeader \/ TopShort \/ TopRow \/ TopBadRow \/ TopEnd
-----------------------------------------------------------------------------
\* The batches were captured in order, less than a day apart, the first
\* less than half a day from the snapshot's time.
SteadyClock ==
  \A i \in Positions("top", Len(read)) :
    LET at == read[i].at
        last == LastBefore("top", i)
    IN IF last = 0 THEN 2 * (at - start) < Day /\ 2 * (start - at) < Day
       ELSE read[last].at <= at /\ at < read[last].at + Day

\* parse/top.go, dayOffset: from times of day alone the parser recovers the
\* instant of every batch, across midnight in either direction and over
\* several days, and gives each row to the instant of its own batch.
TopClockRecovered ==
  kind = "top" /\ SteadyClock =>
    /\ loc.clock >= 0 => loc.now = read[LastBefore("top", Len(read) + 1)].at
    /\ result.state = "data" =>
         {[at |-> s.at, pid |-> s.pid] : s \in ToSet(result.data.samples)} \subseteq
           {[at |-> read[LastBefore("top", i)].at, pid |-> read[i].pid] :
              i \in {i \in Positions("row", Len(read)) : LastBefore("top", i) > 0}}
=============================================================================
