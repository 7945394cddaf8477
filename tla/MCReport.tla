------------------------------ MODULE MCReport ------------------------------
(***************************************************************************)
(* Small directories for Report: up to three snapshots, at 10, 20 and 30.   *)
(* Each family varies the files of a few collectors; a prefix 15 has the    *)
(* form of a timestamp but is no date.                                      *)
(***************************************************************************)
EXTENDS Report

Snapshot(prefix, date, suffixes) ==
  [n \in DOMAIN suffixes |-> [prefix |-> prefix, date |-> date, suffix |-> suffixes[n]]]
Collected ==
  <<"hostname", "innodbstatus1", "iostat", "meminfo", "mysqladmin", "netstat", "netstat_s",
    "processlist", "procstat", "top", "variables", "vmstat">>
MCNames ==
  Snapshot(10, TRUE, Collected) \o Snapshot(15, FALSE, <<"hostname">>) \o Snapshot(20, TRUE, Collected)
    \o Snapshot(30, TRUE, Collected) \o <<[prefix |-> 0, date |-> FALSE, suffix |-> "pt-summary.out"]>>
MCKnownSuffixes ==
  <<"iostat", "top", "variables", "vmstat", "meminfo", "innodbstatus1", "mysqladmin", "processlist",
    "netstat", "netstat_s">>
MCSidecars == <<"hostname", "meminfo", "procstat", "top">>

At(prefix, suffix) ==
  CHOOSE i \in DOMAIN MCNames : MCNames[i].prefix = prefix /\ MCNames[i].suffix = suffix

\* The directories that hold any choice of the files offered at each of some names.
Offer(prefix, suffix, files) == [at |-> At(prefix, suffix), files |-> files]
DirectoriesOf(offers) ==
  FoldLeft(LAMBDA ds, o : ds \cup {d @@ (o.at :> f) : d \in ds, f \in o.files}, {[i \in {} |-> 0]}, offers)

\* Files: a collector's with its payload, with a failing of each kind, and a sidecar.
Holding(data) ==
  [size |-> 1, readable |-> TRUE, text |-> "full", says |-> Nil, known |-> TRUE, data |-> data,
   diags |-> <<>>, envDiags |-> <<>>]
Saying(says) == [Holding(Nil) EXCEPT !.says = says]
Unsupported == [Holding(Nil) EXCEPT !.known = FALSE]
Partial(data) == [Holding(data) EXCEPT !.diags = <<"info", "warning">>]
Unreadable == [Holding(Nil) EXCEPT !.readable = FALSE]
Empty == [Holding(Nil) EXCEPT !.size = 0, !.text = "empty", !.known = FALSE]
Huge == [Holding(Nil) EXCEPT !.size = 3]

Columns(v) == [c \in {1, 2} |-> <<[at |-> v, v |-> v], [at |-> v + 1, v |-> 1]>>]

\* Whatever may be wrong with a file.
Defects ==
  DirectoriesOf(<<Offer(10, "vmstat", {Holding(Columns(10)), Unsupported, Partial(Columns(10)), Unreadable, Huge}),
                  Offer(20, "vmstat", {Holding(Columns(20)), Unsupported, Partial(Nil), Unreadable, Empty}),
                  Offer(0, "pt-summary.out", {Saying(Nil), Huge})>>)

Host(name) == Saying([first |-> name, host |-> name])
Blank(name) == [Saying([first |-> "", host |-> name]) EXCEPT !.text = "blank"]
Hosts ==
  DirectoriesOf(<<Offer(10, "hostname", {Host("a"), Blank(""), [Empty EXCEPT !.says = [first |-> "", host |-> ""]], Unreadable}),
                  Offer(15, "hostname", {Host("c")}),
                  Offer(20, "hostname", {Host("b"), Unreadable}),
                  Offer(20, "vmstat", {Holding(Columns(20))})>>)

\* A sample of the memory is a collector's file and a sidecar.
Memory(v, diags) ==
  [Holding([m \in {1, 2} |-> <<v, v>>]) EXCEPT !.says = [MemTotal |-> v], !.envDiags = diags]
Sidecar ==
  DirectoriesOf(<<Offer(10, "meminfo", {Memory(1, <<>>), Memory(2, <<"warning">>), Unreadable}),
                  Offer(20, "meminfo", {Memory(3, <<>>), Memory(4, <<"warning">>), Empty}),
                  Offer(10, "procstat", {Saying([btime |-> <<2>>, cpus |-> 4])}),
                  Offer(20, "procstat", {Saying([btime |-> Gap, cpus |-> 4]), Empty})>>)
-----------------------------------------------------------------------------
\* Status data: two samples, one and three seconds after the prefix.  Questions
\* counts from the start of the server, one a second, and one before.
Status(prefix, boot, names) ==
  LET times == <<prefix + 1, prefix + 3>>
      slots(x) == IF x = "Uptime" THEN [j \in 1..2 |-> <<times[j] - boot>>]
                  ELSE <<<<times[1] - boot + 1>>, <<2>>>>
  IN [names |-> names, counters |-> names \ {"Uptime"}, count |-> 2, times |-> times,
      deltas |-> [x \in names |-> slots(x)], boundaries |-> <<0>>]
\* Questions is missing of the first of three samples, and starts with its tally.
LateStatus(prefix) ==
  [names |-> {"Uptime", "Questions"}, counters |-> {"Questions"}, count |-> 3,
   times |-> <<prefix + 1, prefix + 3, prefix + 4>>,
   deltas |-> [x \in {"Uptime", "Questions"} |->
                 IF x = "Uptime" THEN <<<<prefix - 1>>, <<prefix + 1>>, <<prefix + 2>>>>
                 ELSE <<Gap, <<prefix + 2>>, <<1>>>>],
   boundaries |-> <<0>>]
StatusFiles(prefix) ==
  {Holding(Nil), Holding(Status(prefix, 2, {"Uptime", "Questions"})), Holding(Status(prefix, 2, {"Questions"})),
   Holding(LateStatus(prefix))}
  \cup IF prefix = 10 THEN {} ELSE {Holding(Status(prefix, prefix - 3, {"Uptime", "Questions"}))}

Set(values) == [x \in DOMAIN values |-> [text |-> ToString(values[x]), num |-> <<values[x]>>]]
Servers ==
  DirectoriesOf(<<Offer(10, "mysqladmin", StatusFiles(10)), Offer(20, "mysqladmin", StatusFiles(20)),
                  Offer(30, "mysqladmin", StatusFiles(30)),
                  Offer(20, "variables", {Holding(Nil), Holding(Set([Uptime |-> 18, version |-> 8]))}),
                  Offer(30, "variables", {Holding(Nil), Holding(Set([version |-> 8]))})>>)

Settings ==
  {Holding(Nil), Unsupported} \cup
  {Holding(Set(s)) : s \in {[a |-> 1], [a |-> 2], [a |-> 1, moves |-> 1], [a |-> 1, moves |-> 2], [b |-> 1, moves |-> 2]}}
Configurations ==
  DirectoriesOf(<<Offer(10, "variables", Settings), Offer(20, "variables", Settings), Offer(30, "variables", Settings)>>)
-----------------------------------------------------------------------------
Disks(prefix, devices) == [d \in devices |-> <<[at |-> prefix, v |-> d], [at |-> prefix + 1, v |-> 1]>>]
Top(prefix, pids) ==
  [samples |-> FlattenSeq([n \in DOMAIN pids |-> <<[at |-> prefix, pid |-> pids[n], v |-> pids[n]],
                                                   [at |-> prefix, pid |-> pids[n], v |-> 1]>>]),
   top3 |-> <<>>]
Poll(prefix, shape, time) ==
  [polls |-> <<[at |-> prefix, active |-> 1]>>, states |-> {shape},
   queries |-> <<[shape |-> shape, first |-> prefix, last |-> prefix, seen |-> 1, time |-> time, hasTime |-> TRUE,
                  examined |-> 0, hasExamined |-> FALSE, context |-> shape]>>]
Sockets(prefix, n) == <<[at |-> prefix, queued |-> n, counts |-> ("LISTEN" :> n)]>>
Tallies(prefix, values) ==
  [i \in DOMAIN values |-> [at |-> prefix + i, vals |-> (IF values[i] = 0 THEN [x \in {} |-> 0] ELSE "Tcp" :> values[i])]]
Innodb(n) ==
  [pending |-> [f \in {"singlePage", "fsyncLog", "lru", "flushList", "fsyncPool", "reads", "writes", "waits"} |-> n]]

\* Two snapshots of one collector.
Pair(suffix, firsts, seconds) ==
  DirectoriesOf(<<Offer(10, suffix, {Holding(Nil)} \cup {Holding(p) : p \in firsts}),
                  Offer(20, suffix, {Holding(Nil), Unsupported} \cup {Holding(p) : p \in seconds})>>)
Collectors2 ==
  Pair("iostat", {Disks(10, {1}), Disks(10, {1, 2})}, {Disks(20, {2}), Disks(20, {1, 2})})
  \cup Pair("top", {Top(10, <<1, 2, 3>>)}, {Top(20, <<1, 4, 5, 6>>), Top(20, <<2>>)})
  \cup Pair("processlist", {Poll(10, 1, 5)}, {Poll(20, 1, 9), Poll(20, 2, 70000)})
  \cup Pair("netstat", {Sockets(10, 1)}, {Sockets(20, 2)})
  \cup Pair("netstat_s", {Tallies(10, <<4, 6>>), Tallies(10, <<4, 0>>)}, {Tallies(20, <<7, 9>>), Tallies(20, <<3, 2, 8>>)})
  \cup Pair("innodbstatus1", {Innodb(0)}, {Innodb(2)})

MCDirectories == Defects \cup Hosts \cup Sidecar \cup Servers \cup Configurations \cup Collectors2
=============================================================================
