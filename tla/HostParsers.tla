---------------------------- MODULE HostParsers -----------------------------
(***************************************************************************)
(* The readers of the environment sidecars.  Each is given the content of   *)
(* one file, which may repeat a dump under TS lines, and answers with what  *)
(* the newest of it says: ParseProcStat, ParseSysctl, ParseTopHeader,       *)
(* ParseEnvHostname and ParseDFSnapshot.                                    *)
(***************************************************************************)
EXTENDS LineParser

CONSTANTS
  Facts,    \* values of a fact: a boot time, a load average, a host name, a setting
  Wanted,   \* the sysctl keys that are shown
  Disks,     \* rows of df: [mount, pct], mount by its place in the order
  Limit     \* the most file systems shown

ASSUME HostAssumption == Limit \in Nat \ {0}

HostStart == [cpus |-> 0, most |-> 0, last |-> <<>>, keys |-> <<>>, block |-> <<>>, kept |-> <<>>]
HostKinds == {"procstat", "sysctl", "topheader", "hostname", "df"}

\* A line that says nothing: unknown, malformed, or a warning of sudo.
HostOther == \E k \in HostKinds \ {"df"} : Line(k, Of("other"), loc, None)

\* A fact overwrites the one before: btime, the load averages, the host name.
HostFact ==
  \E k \in {"procstat", "topheader", "hostname"}, v \in Facts :
    Line(k, [t |-> "fact", v |-> v], [loc EXCEPT !.last = <<v>>], None)

HostSetting ==
  \E key \in Wanted, v \in Facts :
    Line("sysctl", [t |-> "setting", key |-> key, v |-> v], [loc EXCEPT !.keys = (key :> v) @@ @], None)

FlushedCpus == Max({loc.most, loc.cpus})

\* A dump of /proc/stat lists its CPUs; the most of any dump counts.
HostTS == Line("procstat", Of("ts"), [loc EXCEPT !.most = FlushedCpus, !.cpus = 0], None)
HostCpu == Line("procstat", Of("cpu"), [loc EXCEPT !.cpus = @ + 1], None)

\* splitDFSamples: a TS line ends a block; the last block that is not blank counts.
KeptBlock == IF \E i \in DOMAIN loc.block : loc.block[i].t # "blank" THEN loc.block ELSE loc.kept
DfTS == Line("df", Of("ts"), [loc EXCEPT !.kept = KeptBlock, !.block = <<>>], None)

\* A row, the two halves of a row that was wrapped, any other line, a blank one.
DfLine ==
  \E l \in [t : {"row", "rest"}, row : Disks] \cup [t : {"name", "other", "blank"}] :
    Line("df", l, [loc EXCEPT !.block = Append(@, l)], None)

\* The rows of a block, by their lines: a name takes the next line with it, which
\* makes a row only if it is the other half; without its name that is too short.
RowLines(block) ==
  LET joins[i \in 0..Len(block)] == i > 0 /\ block[i].t = "name" /\ ~joins[i - 1] IN
  {i \in DOMAIN block : IF joins[i - 1] THEN block[i].t = "rest" ELSE block[i].t = "row"}

\* By use, of equals by mount point.
Fullest(block) ==
  LET before(i, j) ==
        LET r == block[i].row
            s == block[j].row
        IN \/ r.pct > s.pct
           \/ r.pct = s.pct /\ r.mount < s.mount
           \/ r = s /\ i < j
      sorted == SetToSortSeq(RowLines(block), before)
  IN [n \in 1..Min({Limit, Len(sorted)}) |-> block[sorted[n]].row]

HostEnd ==
  \/ Return("procstat", FlushedCpus = 0 /\ loc.last = <<>>, [cpus |-> FlushedCpus, btime |-> loc.last], None)
  \/ Return("sysctl", loc.keys = <<>>, loc.keys, None)
  \/ \E k \in {"topheader", "hostname"} : Return(k, loc.last = <<>>, loc.last, None)
  \/ Return("df", FALSE, Fullest(KeptBlock), None)

HostNext ==
  \/ HostOther \/ HostFact \/ HostSetting \/ HostTS \/ HostCpu \/ DfTS \/ DfLine \/ HostEnd
=============================================================================
