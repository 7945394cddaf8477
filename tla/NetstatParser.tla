---------------------------- MODULE NetstatParser ---------------------------
(***************************************************************************)
(* parseNetstat: polls of the socket table under TS lines, as netstat or ss *)
(* writes them; and parseNetstatS: polls of the kernel's counters.          *)
(*                                                                         *)
(* ss prints an established connection alike for TCP and UDP, so that a row *)
(* "ESTAB" waits for the end of the file, where the other rows tell which   *)
(* of the two was listed.                                                   *)
(***************************************************************************)
EXTENDS LineParser

CONSTANTS Counters, Sections, Tallies   \* labels, section headers and values of netstat -s

Buckets == {"LISTEN", "ESTABLISHED", "UDP"}
NoCounts == [b \in Buckets |-> 0]

\* What a row shows first, its protocol or (ss -tan, ss -uan) its state, and
\* the socket's state; LISTEN stands for the states only TCP has.
Sockets ==
  {[t |-> "socket", first |-> f, bucket |-> b, queued |-> q] :
     f \in {"proto", "state"}, b \in Buckets, q \in BOOLEAN}

StateFirst(row, b) == row.first = "state" /\ row.bucket = b

NetstatStart ==
  [pending |-> <<>>, open |-> FALSE, at |-> start, counts |-> NoCounts, estab |-> 0,
   queued |-> FALSE, unconn |-> FALSE, tcpOnly |-> FALSE, sawTS |-> FALSE, implicit |-> FALSE]

\* flush
FlushPoll ==
  IF ~loc.open THEN loc
  ELSE [loc EXCEPT
          !.pending = Append(@, [at |-> loc.at, counts |-> loc.counts,
                                 estab |-> loc.estab, queued |-> loc.queued]),
          !.open = FALSE, !.counts = NoCounts, !.estab = 0, !.queued = FALSE]

\* ensureSample: rows before any TS line are a poll at the snapshot's time.
EnsurePoll == [loc EXCEPT !.open = TRUE, !.at = IF loc.open THEN @ ELSE start, !.implicit = @ \/ ~loc.open]
ImplicitInfo == IF loc.open \/ loc.sawTS \/ loc.implicit THEN None ELSE <<"info">>

\* A TS line; of an epoch that is not a time the snapshot's time stands in.
NetstatTS ==
  \E good \in BOOLEAN :
    LET at == IF good THEN start + Len(read) + 1 ELSE start IN
    Line("netstat", [t |-> "ts", at |-> at], [FlushPoll EXCEPT !.sawTS = TRUE, !.open = TRUE, !.at = at],
         IF good THEN None ELSE Warning)

\* Mutant of CountSocket: the evidence of what a file lists ends with its poll.
CountSocketByPoll(s, row) ==
  IF StateFirst(row, "ESTABLISHED") /\ ~s.unconn THEN [s EXCEPT !.counts["ESTABLISHED"] = @ + 1]
  ELSE IF StateFirst(row, "ESTABLISHED") THEN [s EXCEPT !.counts["UDP"] = @ + 1]
  ELSE [s EXCEPT !.counts[row.bucket] = @ + 1,
                 !.unconn = @ \/ StateFirst(row, "UDP")]

\* A socket row: counted at once, but for ss's ESTAB.
CountSocket(s, row) ==
  IF StateFirst(row, "ESTABLISHED")
  THEN [s EXCEPT !.estab = @ + 1]
  ELSE [s EXCEPT !.counts[row.bucket] = @ + 1,
                 !.unconn = @ \/ StateFirst(row, "UDP"),
                 !.tcpOnly = @ \/ StateFirst(row, "LISTEN")]

NetstatSocket ==
  \E row \in Sockets :
    Line("netstat", row, CountSocket([EnsurePoll EXCEPT !.queued = @ \/ row.queued], row), ImplicitInfo)

\* A TCP row cut off before its state: its queues still count.
NetstatCutRow ==
  Line("netstat", Of("cut"), [EnsurePoll EXCEPT !.queued = TRUE], ImplicitInfo \o Warning)

NetstatOther == Line("netstat", Of("other"), loc, None)

EstabBucket == IF loc.unconn /\ ~loc.tcpOnly THEN "UDP" ELSE "ESTABLISHED"

Popular(p) == p.estab > 0 \/ p.counts # NoCounts
PopularOf(polls) ==
  LET kept == Sorted({i \in DOMAIN polls : Popular(polls[i])}) IN [n \in DOMAIN kept |-> polls[kept[n]]]

NetstatEnd ==
  LET polls == PopularOf(FlushPoll.pending)
      unclear == \E i \in DOMAIN polls : polls[i].estab > 0
  IN End("netstat", polls = <<>>,
         [i \in DOMAIN polls |->
            [at |-> polls[i].at, queued |-> polls[i].queued,
             counts |-> [polls[i].counts EXCEPT ![EstabBucket] = @ + polls[i].estab]]],
         IF unclear /\ ~loc.unconn /\ ~loc.tcpOnly THEN Warning ELSE None)

NetstatNext == NetstatTS \/ NetstatSocket \/ NetstatCutRow \/ NetstatOther \/ NetstatEnd
-----------------------------------------------------------------------------
\* The sections with counters of interest; others, such as UdpLite, have
\* lines of the same labels.
Known == {"Tcp", "Udp"}

NetstatSStart ==
  [samples |-> <<>>, open |-> FALSE, at |-> start, vals |-> <<>>, section |-> "",
   sawTS |-> FALSE, implicit |-> FALSE]

\* flush: a poll without a counter is dropped.
FlushCounters ==
  [loc EXCEPT !.samples = IF loc.vals = <<>> THEN @ ELSE Append(@, [at |-> loc.at, vals |-> loc.vals]),
              !.open = FALSE, !.vals = <<>>, !.section = ""]

NetstatSTS ==
  \E good \in BOOLEAN :
    LET at == IF good THEN start + Len(read) + 1 ELSE start IN
    Line("netstat_s", [t |-> "ts", at |-> at],
         [FlushCounters EXCEPT !.sawTS = TRUE, !.open = TRUE, !.at = at], IF good THEN None ELSE Warning)

\* A line without indentation names a section or, without a colon, ends one.
NetstatSSection ==
  \E s \in Sections \cup {""} : Line("netstat_s", [t |-> "section", name |-> s], [loc EXCEPT !.section = s], None)

\* An indented line with a number: the last one of a section and label counts.
NetstatSCounter ==
  \E c \in Counters, v \in Tallies :
    LET s == loc.section IN
    Line("netstat_s", [t |-> "counter", label |-> c, v |-> v],
         IF s \in Known THEN [EnsurePoll EXCEPT !.vals = With(@, <<s, c>>, v)] ELSE loc,
         IF s \in Known THEN ImplicitInfo ELSE None)

\* A label of interest with something else than a number.
NetstatSBadCounter ==
  Line("netstat_s", Of("bad"), IF loc.section \in Known THEN EnsurePoll ELSE loc,
       IF loc.section \in Known THEN ImplicitInfo \o Warning ELSE None)

NetstatSEnd == End("netstat_s", FlushCounters.samples = <<>>, FlushCounters.samples, None)

NetstatSNext == NetstatSTS \/ NetstatSSection \/ NetstatSCounter \/ NetstatSBadCounter \/ NetstatSEnd
-----------------------------------------------------------------------------
\* The polls of the file: the lines from a TS line, or from the start, to the next.
PollLines(p) == {i \in p + 1..Len(read) : LastBefore("ts", i) = p}
PollStarts == {0} \cup Positions("ts", Len(read))
PollAt(p) == IF p = 0 THEN start ELSE read[p].at

\* The bucket of a row: what its own columns say or, of ss's ESTAB, what the
\* rows of the whole file say, before it or after it.
BucketOf(i) ==
  LET states == {read[j].bucket : j \in {j \in Positions("socket", Len(read)) : read[j].first = "state"}} IN
  IF StateFirst(read[i], "ESTABLISHED") /\ "UDP" \in states /\ "LISTEN" \notin states
  THEN "UDP" ELSE read[i].bucket

\* The section of line i: the last header of its poll.
SectionOf(i) ==
  LET h == LastBefore("section", i) IN IF h > LastBefore("ts", i) THEN read[h].name ELSE ""

\* Rows and counters of interest in poll p.
RowsOf(p) == {i \in PollLines(p) : read[i].t = "socket"}
CountersOf(p) == {i \in PollLines(p) : read[i].t = "counter" /\ SectionOf(i) \in Known}

\* parse/netstat.go and netstat_s.go: every poll with a usable line becomes one
\* sample, in order; it counts each of its own rows once, in the bucket the
\* whole file decides, and flags the queues of its own rows only; a counter
\* has the last value its own section showed in that poll.
PollsCountedOnce ==
  result.state = "data" =>
    /\ kind = "netstat" =>
         LET ps == Sorted({p \in PollStarts : RowsOf(p) # {}}) IN
         result.data =
           [n \in DOMAIN ps |->
              [at |-> PollAt(ps[n]),
               queued |-> \E i \in PollLines(ps[n]) :
                            read[i].t = "cut" \/ (read[i].t = "socket" /\ read[i].queued),
               counts |-> [b \in Buckets |-> Cardinality({i \in RowsOf(ps[n]) : BucketOf(i) = b})]]]
    /\ kind = "netstat_s" =>
         LET ps == Sorted({p \in PollStarts : CountersOf(p) # {}})
             names(p) == {<<SectionOf(i), read[i].label>> : i \in CountersOf(p)}
             last(p, n) == Max({i \in CountersOf(p) : <<SectionOf(i), read[i].label>> = n})
         IN result.data =
              [n \in DOMAIN ps |->
                 [at |-> PollAt(ps[n]), vals |-> [c \in names(ps[n]) |-> read[last(ps[n], c)].v]]]
=============================================================================
