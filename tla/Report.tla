------------------------------- MODULE Report -------------------------------
(***************************************************************************)
(* From a directory to a report: Discover, and render.buildReport and       *)
(* buildView on the collection it returns.  Rendering reads no file; it      *)
(* either gives the report or ends the program.                             *)
(***************************************************************************)
EXTENDS Discover, Sections, Environment, VariablePanels, Advisor, RedoSizing

\* A status file has samples; each variable has one slot for each of them, Gap or <<v>>.
StatusShaped(ma) ==
  ma # Nil =>
    /\ ma.count \in Nat \ {0} /\ ma.counters \subseteq ma.names
    /\ \A v \in ma.names : ma.deltas[v] \in Seq(Seq(Int)) /\ Len(ma.deltas[v]) = ma.count

\* The parsers that the report relies on: what they return for a file of a suffix.
PayloadShaped(suffix, data) ==
  /\ suffix = "mysqladmin" => StatusShaped(data)
  /\ suffix = "netstat_s" => data \in Seq(ToSet(data))

ASSUME PayloadAssumption ==
  \A d \in Directories : \A i \in DOMAIN d : PayloadShaped(Names[i].suffix, d[i].data)

VARIABLE report   \* the report; NoReport before, Crashed if building it panics

reportVars == <<discoverVars, report>>

NoReport == [state |-> "none"]
Crashed == [state |-> "crashed"]

\* The collection that Discover returned, as rendering sees it.
SnapshotAt(time) ==
  [time |-> time,
   files |-> [s \in {Names[i].suffix : i \in {j \in DOMAIN found.files : Names[j].prefix = time}} |->
                found.files[CHOOSE i \in FilesOf(time, s) : TRUE]]]
collection ==
  [hostname |-> found.hostname,
   snapshots |-> [n \in DOMAIN found.snapshots |-> SnapshotAt(found.snapshots[n])],
   sidecars |-> [s \in DOMAIN found.sidecars |->
                   [at |-> Names[found.sidecars[s].path].prefix, says |-> found.sidecars[s].says]]]

\* Sections that have no data of any snapshot.
MissingOf(present, suffixes) == {s \in suffixes : present[s] = Nil}

OrNil(ins, section) == IF Present(ins) = <<>> THEN Nil ELSE section

\* buildOSSection
PartsOfOS(ins) ==
  [iostat |-> OrNil(ins["iostat"], concatIostat(ins["iostat"])),
   top |-> OrNil(ins["top"], concatTop(ins["top"])),
   vmstat |-> OrNil(ins["vmstat"], mergeMetricSeriesByName(ins["vmstat"])),
   meminfo |-> OrNil(ins["meminfo"], mergeMetricSeriesByName(ins["meminfo"])),
   netstat |-> OrNil(ins["netstat"], concatNetstat(ins["netstat"])),
   netstat_s |-> OrNil(ins["netstat_s"], concatNetstatS(ins["netstat_s"]))]
OSSection(parts) ==
  [parts |-> parts,
   missing |-> MissingOf(parts, {"iostat", "top", "vmstat", "meminfo"}) \cup
               IF parts.netstat = Nil /\ parts.netstat_s = Nil THEN {"netstat"} ELSE {}]
buildOSSection(c) ==
  OSSection(PartsOfOS([s \in {"iostat", "top", "vmstat", "meminfo", "netstat", "netstat_s"} |-> PayloadsOf(c, s)]))

\* buildDBSection
PartsOfDB(ins, innodb) ==
  [innodbstatus1 |-> innodb,
   mysqladmin |-> OrNil(ins["mysqladmin"], MergeMysqladminData(ins["mysqladmin"])),
   processlist |-> OrNil(ins["processlist"], concatProcesslist(ins["processlist"]))]
DBSection(parts) ==
  [parts |-> parts,
   missing |-> MissingOf(parts, {"mysqladmin", "processlist"}) \cup
               IF ToSet(parts.innodbstatus1) \subseteq {Nil} THEN {"innodbstatus1"} ELSE {}]
buildDBSection(c) ==
  DBSection(PartsOfDB([s \in {"mysqladmin", "processlist"} |-> PayloadsOf(c, s)],
                      PerSnapshot(c, "innodbstatus1")))

\* unsupportedSources: for each suffix the first file of an unknown format.
unsupportedSources(c) ==
  LET at(s) == {n \in DOMAIN c.snapshots : s \in DOMAIN c.snapshots[n].files
                                             /\ c.snapshots[n].files[s].status = "unsupported"}
  IN [s \in {t \in ToSet(KnownSuffixes) : at(t) # {}} |-> c.snapshots[Min(at(s))].files[s].path]

variablesOf(c) == PerSnapshot(c, "variables")

\* What the Advisor reads.
evidenceOf(c, db) ==
  [merged |-> db.parts.mysqladmin, vars |-> variablesOf(c), innodb |-> db.parts.innodbstatus1,
   queries |-> IF db.parts.processlist = Nil THEN <<>> ELSE db.parts.processlist.queries]

VariablesUnsupported(c) ==
  {n \in DOMAIN c.snapshots : "variables" \in DOMAIN c.snapshots[n].files
                                /\ c.snapshots[n].files["variables"].status = "unsupported"}

\* buildReport once the sections are there, and buildView.
ReportOf(c, os, db, env, advice, panels) ==
  [state |-> "built",
   findings |-> advice, drivers |-> TopDrivers(advice),
   redo |-> computeRedoSizing(db.parts.mysqladmin, variablesOf(c)),
   os |-> os, db |-> db, env |-> env, badge |-> EnvBadge(env),
   bars |-> UsageBars(db.parts.mysqladmin, variablesOf(c)),
   panels |-> panels, variablesBadge |-> VariablesBadge(panels, Len(c.snapshots)),
   unsupported |-> unsupportedSources(c)]
AdvisedReport(c, db) ==
  ReportOf(c, buildOSSection(c), db, buildEnvironmentSection(c), Analyze(evidenceOf(c, db)),
           VariablePanelsOf(variablesOf(c), VariablesUnsupported(c)))
buildReport(c) == AdvisedReport(c, buildDBSection(c))

ReportInit == Init /\ report = NoReport

Build ==
  /\ phase = "done" /\ report = NoReport
  /\ report' = IF EnvironmentPanics(collection) THEN Crashed ELSE buildReport(collection)
  /\ UNCHANGED discoverVars

ReportNext == (Next /\ UNCHANGED report) \/ Build
ReportSpec == ReportInit /\ [][ReportNext]_reportVars
-----------------------------------------------------------------------------
Built == report.state = "built"

\* What the status files of the collection say of the server's start, and those
\* of its newest snapshot that says anything.
StatusAt(n) == PayloadAt(collection, n, "mysqladmin")
TellsUptime(n) == StatusAt(n) # Nil /\ "Uptime" \in StatusAt(n).names
StatusTelling == {n \in Answered(collection, "mysqladmin") : TellsUptime(n)}
StartsTold(n) ==
  {StatusAt(n).times[j] - StatusAt(n).deltas["Uptime"][j][1] : j \in UptimeSlots(StatusAt(n))}

\* render/environment.go, latestUptimeSeconds: the start of the server that the
\* report shows is the one that the newest status file tells, if that says one
\* only; however late its samples are, and whether or not the server was
\* restarted since the files before.  A server up for no second yet has none.
UptimeAnchored ==
  Built /\ report.env.mysql # Nil /\ StatusTelling # {} =>
    LET told == StartsTold(Max(StatusTelling)) IN
    \A start \in told : told = {start} =>
      report.env.mysql.started = IF report.env.mysql.uptime > 0 THEN <<start>> ELSE Gap

\* render/dedup.go, build_view.go: ChangesMarked of the panels of the report.
PanelsMarkChanges == Built => ChangesMarked(variablesOf(collection), report.panels)

\* What a file says a counter grew by: between two of its samples, which is what the
\* columns after the first one that reports it say; and the tally of a counter which
\* the file first reports in a later column, where that is all the column has.
Only(slots, columns) == [j \in DOMAIN slots |-> IF j \in columns THEN slots[j] ELSE Gap]
ReportedBefore(slots) == {j \in DOMAIN slots : \E i \in 1..j - 1 : slots[i] # Gap}
Observed(slots) == SumOf(Only(slots, ReportedBefore(slots)))
LateTally(slots) == SumOf(Only(slots, DOMAIN slots \ (ReportedBefore(slots) \cup {1})))

GrownWithin(ins, v) ==
  LET grown(p) == IF v \in p.names THEN Observed(p.deltas[v]) + LateTally(p.deltas[v]) ELSE 0
  IN Total([n \in DOMAIN ins |-> grown(ins[n])])

\* model/mysqladmin_merge.go, render/concat.go: no difference of two snapshots' files is
\* taken for an increment.  Of a status counter the report has the first file's tally
\* and the growth between two samples of a file, whether the server went on or was
\* restarted in between, and of the tallies of the later files none; but for a counter
\* that a file first reports in a later column, where mysqladmin.go:157-168 puts the
\* tally in the place of an increment, and the report counts it as growth.  Of a
\* protocol counter no slot bridges two files.
OnlyObservedGrowth ==
  Built =>
    /\ LET ins == Present(PayloadsOf(collection, "mysqladmin"))
           merged == report.db.parts.mysqladmin
       IN merged # Nil => \A v \in merged.counters :
            SumOf(Tail(merged.deltas[v])) = GrownWithin(ins, v)
    /\ LET merged == report.os.parts.netstat_s IN
       merged # Nil => \A v \in DOMAIN merged.deltas, b \in ToSet(merged.boundaries) :
         merged.deltas[v][b + 1] = Gap

\* parse.Discover, render: a file whose parser found nothing in it does not keep
\* the report from being built.
NeverPanics == report # Crashed
=============================================================================
