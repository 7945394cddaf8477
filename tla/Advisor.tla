------------------------------ MODULE Advisor -------------------------------
(***************************************************************************)
(* Package findings: the rules of the Advisor, each a grade of one symptom,  *)
(* and how render/advisor_view.go picks the top drivers.  What the rules     *)
(* read is a record e: the merged status data, the variables and the InnoDB  *)
(* status of each snapshot, and the observed queries; Nil where there is     *)
(* none.  A number that a rule asks for is <<v>>, or Gap.                    *)
(***************************************************************************)
EXTENDS Payloads

CONSTANTS
  MetadataLocks,  \* the contexts of queries whose state is a wait for a metadata lock
  MiB             \* bytes of a mebibyte

\* Severities, in their order.
Skip == 0
OK == 1
Info == 2
Warn == 3
Crit == 4

\* What a rule answers: its severity, and how many metrics it shows.
Rating(severity, metrics) == [severity |-> severity, metrics |-> metrics]
Skipped == Rating(Skip, 0)
Graded(crit, warn) == IF crit THEN Crit ELSE IF warn THEN Warn ELSE OK

\* The first slot of a counter that is a difference.
FirstSlot == 2

Known(slots) == SelectSeq(slots, LAMBDA s : s # Gap)
SumOf(slots) == Total([i \in DOMAIN slots |-> IF slots[i] = Gap THEN 0 ELSE slots[i][1]])

\* The increments of a counter over the capture.
counterTotal(e, name) ==
  IF e.merged = Nil THEN Gap
  ELSE IF name \notin e.merged.counters \/ e.merged.count < 2 THEN Gap
  ELSE <<SumOf(SubSeq(e.merged.deltas[name], FirstSlot, e.merged.count))>>

gaugeMax(e, name) ==
  IF e.merged = Nil THEN Gap
  ELSE IF name \in e.merged.counters \/ name \notin e.merged.names THEN Gap
  ELSE LET slots == Known(e.merged.deltas[name]) IN
       IF slots = <<>> THEN Gap ELSE <<Max({slots[i][1] : i \in DOMAIN slots})>>

\* From the first to the last sample of each snapshot.
Spans(m) ==
  LET starts == m.boundaries
      end(n) == IF n < Len(starts) THEN starts[n + 1] ELSE Len(m.times)
  IN [n \in DOMAIN starts |-> Max({0, m.times[end(n)] - m.times[starts[n] + 1]})]

captureSeconds(e) ==
  IF e.merged = Nil THEN 0 ELSE IF Len(e.merged.times) < 2 THEN 0 ELSE FoldLeft(+, 0, Spans(e.merged))

\* A rate is <<total, seconds>>; rates are compared with num / den per second.
RateOf(total, seconds) == IF total = Gap \/ seconds = 0 THEN Gap ELSE total \o <<seconds>>
counterRatePerSec(e, name) == RateOf(counterTotal(e, name), captureSeconds(e))
Above(rate, num, den) == IF rate = Gap THEN FALSE ELSE den * rate[1] > num * rate[2]
Active(rate) == Above(rate, 0, 1)

VariableOf(e, name) == VariableFloat(e.vars, name)
Gauge(e, name) == GaugeLast(e.merged, name)
AllKnown(inputs) == Gap \notin inputs
OrZero(v) == IF v = Gap THEN 0 ELSE v[1]
Positive(v) == OrZero(v) > 0
-----------------------------------------------------------------------------
\* A rule that warns of any activity of a counter, and is critical above a rate.
GradeOfActivity(rate, crit, metrics) ==
  IF ~Active(rate) THEN Skipped
  ELSE Rating(IF Above(rate, crit, 1) THEN Crit ELSE Warn, metrics)
RateRule(e, name, crit, metrics) == GradeOfActivity(counterRatePerSec(e, name), crit, metrics)

\* Buffer Pool
ruleBPUndersized(e) ==
  LET size == VariableOf(e, "innodb_buffer_pool_size") IN
  IF ~Positive(size) \/ OrZero(gaugeMax(e, "Threads_connected")) < 50 \/ OrZero(Gauge(e, "Uptime")) < 3600
  THEN Skipped
  ELSE Rating(Graded(size[1] < 256 * MiB, size[1] < 1024 * MiB), 3)

ruleBPHitRatio(e) ==
  LET reads == counterTotal(e, "Innodb_buffer_pool_reads")
      requests == counterTotal(e, "Innodb_buffer_pool_read_requests")
  IN IF reads = Gap \/ ~Positive(requests) THEN Skipped
     ELSE Rating(Graded(100 * reads[1] > requests[1], 1000 * reads[1] > requests[1]), 2)

\* Mutant of ruleBPFreePagesLow: an input that is missing counts as 0.
ruleBPFreePagesLowUnchecked(e) ==
  LET free == OrZero(Gauge(e, "Innodb_buffer_pool_pages_free"))
      depth == OrZero(VariableOf(e, "innodb_lru_scan_depth"))
      instances == OrZero(VariableOf(e, "innodb_buffer_pool_instances"))
      flushed == counterRatePerSec(e, "Innodb_buffer_pool_pages_LRU_flushed")
  IN IF ~Active(counterRatePerSec(e, "Innodb_buffer_pool_reads")) THEN Skipped
     ELSE Rating(IF free > depth * instances THEN OK ELSE IF Active(flushed) THEN Crit ELSE Warn, 4)

ruleBPFreePagesLow(e) ==
  LET free == Gauge(e, "Innodb_buffer_pool_pages_free")
      depth == VariableOf(e, "innodb_lru_scan_depth")
      instances == VariableOf(e, "innodb_buffer_pool_instances")
      flushed == counterRatePerSec(e, "Innodb_buffer_pool_pages_LRU_flushed")
  IN IF ~AllKnown({free, depth, instances}) \/ ~Active(counterRatePerSec(e, "Innodb_buffer_pool_reads"))
     THEN Skipped
     ELSE Rating(IF free[1] > depth[1] * instances[1] THEN OK ELSE IF Active(flushed) THEN Crit ELSE Warn, 4)

ruleBPLRUFlushing(e) ==
  IF Active(counterRatePerSec(e, "Innodb_buffer_pool_pages_LRU_flushed")) THEN Rating(Warn, 1) ELSE Skipped

ruleBPWaitFree(e) ==
  IF Active(counterRatePerSec(e, "Innodb_buffer_pool_wait_free")) THEN Rating(Crit, 1) ELSE Skipped

ruleBPDirtyPct(e) ==
  LET dirty == gaugeMax(e, "Innodb_buffer_pool_pages_dirty")
      total == Gauge(e, "Innodb_buffer_pool_pages_total")
      limit == VariableOf(e, "innodb_max_dirty_pages_pct")
  IN IF ~AllKnown({dirty, limit}) \/ ~Positive(total) THEN Skipped
     ELSE Rating(Graded(100 * dirty[1] >= limit[1] * total[1], 1000 * dirty[1] >= 9 * limit[1] * total[1]), 3)

\* The peak of a pending operation, or of the waits, over the InnoDB status outputs.
PeakOf(e, field) ==
  Max({0} \cup {e.innodb[n].pending[field] : n \in {n \in DOMAIN e.innodb : e.innodb[n] # Nil}})

ruleInnoDBFlushing(e) ==
  LET peaks == {f \in {"singlePage", "fsyncLog", "lru", "flushList", "fsyncPool", "reads", "writes"} :
                  PeakOf(e, f) > 0}
  IN IF peaks = {} THEN Skipped
     ELSE Rating(IF peaks \cap {"singlePage", "fsyncLog"} # {} THEN Crit ELSE Warn, 8)

\* Redo Log
ruleRedoCheckpointAge(e) ==
  LET age == gaugeMax(e, "Innodb_checkpoint_age")
      most == Gauge(e, "Innodb_checkpoint_max_age")
  IN IF age = Gap \/ ~Positive(most) THEN Skipped
     ELSE Rating(Graded(10 * age[1] >= 8 * most[1], 10 * age[1] >= 5 * most[1]), 2)

ruleRedoPendingWrites(e) ==
  IF Positive(gaugeMax(e, "Innodb_os_log_pending_writes")) THEN Rating(Crit, 1) ELSE Skipped
ruleRedoPendingFsyncs(e) ==
  IF Positive(gaugeMax(e, "Innodb_os_log_pending_fsyncs")) THEN Rating(Crit, 1) ELSE Skipped
ruleRedoLogWaits(e) == RateRule(e, "Innodb_log_waits", 1, 1)

\* InnoDB Semaphores
ruleSemaphoreWaits(e) ==
  IF PeakOf(e, "waits") = 0 THEN Skipped ELSE Rating(IF PeakOf(e, "waits") >= 500 THEN Crit ELSE Warn, 3)

\* Binlog Cache
ruleBinlogCacheDiskUse(e) == RateRule(e, "Binlog_cache_disk_use", 1, 2)
ruleBinlogStmtCacheDiskUse(e) == RateRule(e, "Binlog_stmt_cache_disk_use", 1, 2)

\* Thread Cache
ruleThreadCacheHitRatio(e) ==
  LET created == counterTotal(e, "Threads_created")
      connections == counterTotal(e, "Connections")
  IN IF created = Gap \/ ~Positive(connections) THEN Skipped
     ELSE Rating(Graded(100 * created[1] > 30 * connections[1], 100 * created[1] > 10 * connections[1]), 3)

\* Table Open Cache
ruleTableCacheUsage(e) ==
  LET size == VariableOf(e, "table_open_cache")
      open == Gauge(e, "Open_tables")
  IN IF open = Gap \/ ~Positive(size) THEN Skipped
     ELSE Rating(Graded(100 * open[1] >= 95 * size[1], 100 * open[1] >= 80 * size[1]), 2)

ruleTableCacheOverflows(e) == RateRule(e, "Table_open_cache_overflows", 5, 3)

ruleTableCacheMissRatio(e) ==
  LET misses == counterTotal(e, "Table_open_cache_misses")
      hits == counterTotal(e, "Table_open_cache_hits")
  IN IF ~AllKnown({misses, hits}) THEN Skipped
     ELSE IF misses[1] + hits[1] <= 0 THEN Skipped
     ELSE LET total == misses[1] + hits[1]
          IN Rating(Graded(10 * misses[1] > total, 100 * misses[1] > total), 2)

\* Temp Tables
ruleTmpDiskRatio(e) ==
  LET disk == counterTotal(e, "Created_tmp_disk_tables")
      total == counterTotal(e, "Created_tmp_tables")
  IN IF disk = Gap \/ ~Positive(total) THEN Skipped
     ELSE Rating(Graded(100 * disk[1] > 50 * total[1], 100 * disk[1] > 25 * total[1]), 4)
-----------------------------------------------------------------------------
\* Query Shape
ruleFullScanSelectScan(e) == RateRule(e, "Select_scan", 10, 1)
ruleFullScanSelectFullJoin(e) == RateRule(e, "Select_full_join", 1, 1)

\* Rows per SELECT count where there is at least one SELECT a second.
GradeOfFullScans(rate, selects) ==
  LET many == Active(selects) /\ selects[1] >= selects[2]
      perSelect(n) == many /\ rate[1] > n * selects[1]
  IN IF ~Active(rate) THEN Skipped
     ELSE Rating(IF perSelect(1000) THEN Crit ELSE IF perSelect(100) THEN Warn
                 ELSE Graded(Above(rate, 100000, 1), Above(rate, 10000, 1)),
                 IF Active(selects) THEN 3 ELSE 1)
ruleFullScanHandlerRndNext(e) ==
  GradeOfFullScans(counterRatePerSec(e, "Handler_read_rnd_next"), counterRatePerSec(e, "Com_select"))

ruleProcesslistAbuse(e) ==
  LET rate == counterRatePerSec(e, "Deprecated_use_i_s_processlist_count") IN
  IF ~Active(rate) THEN Skipped
  ELSE Rating(IF Above(rate, 100, 1) THEN Crit ELSE IF Above(rate, 1, 1) THEN Warn ELSE Info, 1)

\* The first, that is the slowest, of the observed queries that took a minute.
ruleObservedSlowProcesslistQuery(e) ==
  LET slow == {n \in DOMAIN e.queries : e.queries[n].hasTime /\ e.queries[n].time >= 60000} IN
  IF slow = {} THEN Skipped
  ELSE Rating(IF e.queries[Min(slow)].context \in MetadataLocks THEN Crit ELSE Warn, 4)

\* Connections
ruleThreadMaxQueueDepth(e) ==
  LET peak == gaugeMax(e, "Threads_running")
      most == VariableOf(e, "max_connections")
      grade == IF Positive(most) THEN Graded(10 * peak[1] >= 9 * most[1], 2 * peak[1] >= most[1])
               ELSE Graded(peak[1] >= 200, peak[1] >= 50)
  IN IF ~Positive(peak) THEN Skipped ELSE Rating(grade, IF most = Gap THEN 3 ELSE 4)

ruleConnectionsSaturation(e) ==
  LET connected == gaugeMax(e, "Threads_connected")
      running == gaugeMax(e, "Threads_running")
      most == VariableOf(e, "max_connections")
      used == IF connected = Gap \/ ~Positive(most) THEN OK
              ELSE Graded(10 * connected[1] >= 9 * most[1], 10 * connected[1] >= 7 * most[1])
      busy == IF running = Gap THEN OK ELSE Graded(running[1] >= 100, running[1] >= 50)
  IN IF running = Gap /\ (connected = Gap \/ ~Positive(most)) THEN Skipped
     ELSE Rating(Max({used, busy}), Len(connected) + Len(running) + Len(most))

ruleAbortedConnectsRate(e) ==
  LET rate == counterRatePerSec(e, "Aborted_connects") IN
  IF ~Active(rate) THEN Skipped ELSE Rating(Graded(Above(rate, 1, 1), Above(rate, 1, 10)), 1)

\* Configuration
ruleSlowLogDisabled(e) ==
  LET log == VariableRaw(e.vars, "slow_query_log") IN
  IF log = NoSetting \/ log.text \in {"ON", "1"} \/ ~Active(counterRatePerSec(e, "Questions"))
  THEN Skipped ELSE Rating(Warn, 3)

\* More than 5000 connections; the buffer pool per 1000 of them.
ruleConfigMaxConnectionsHigh(e) ==
  LET most == VariableOf(e, "max_connections")
      pool == VariableOf(e, "innodb_buffer_pool_size")
      below(n) == 1000 * pool[1] < n * MiB * most[1]
  IN IF OrZero(most) <= 5000 \/ ~Positive(pool) THEN Skipped
     ELSE Rating(Graded(below(256), below(1024)), IF gaugeMax(e, "Threads_running") = Gap THEN 3 ELSE 4)

isReplicationConfigured(e) ==
  /\ OrZero(VariableOf(e, "server_id")) # 0
  /\ VariableRaw(e.vars, "gtid_mode").text \notin {"", "OFF"}

ruleConfigSyncBinlogNotOne(e) ==
  LET sync == VariableOf(e, "sync_binlog") IN
  IF VariableRaw(e.vars, "log_bin").text \in {"OFF", "0"} THEN Rating(Info, 1)
  ELSE IF sync \in {Gap, <<1>>} THEN Skipped
  ELSE Rating(IF sync = <<0>> /\ isReplicationConfigured(e) THEN Crit ELSE Warn, 1)
-----------------------------------------------------------------------------
\* The rules by subsystem, in the order of subsystemOrder, and in each by ID.
Subsystems ==
  << <<"bp.dirty_pct", "bp.free_pages_low", "bp.hit_ratio", "bp.lru_flushing", "bp.undersized",
       "bp.wait_free", "innodb.flushing">>,
     <<"redo.checkpoint_age", "redo.log_waits", "redo.pending_fsyncs", "redo.pending_writes">>,
     <<"innodb.semaphores">>,
     <<"binlog.cache_disk_use", "binlog.stmt_cache_disk_use">>,
     <<"threadcache.hit_ratio">>,
     <<"tablecache.miss_ratio", "tablecache.overflows", "tablecache.usage">>,
     <<"tmp.disk_ratio">>,
     <<"queryshape.handler_read_rnd_next", "queryshape.is_processlist",
       "queryshape.observed_slow_processlist", "queryshape.select_full_join", "queryshape.select_scan">>,
     <<"connections.aborted_rate", "connections.saturation", "thread.max_queue_depth">>,
     <<"config.max_connections_high", "config.slow_log_disabled", "config.sync_binlog_not_one">> >>

Registry == FlattenSeq(Subsystems)
RuleIds == UNION {ToSet(Subsystems[n]) : n \in DOMAIN Subsystems}
subsystemOrder(id) == CHOOSE n \in DOMAIN Subsystems : id \in ToSet(Subsystems[n])
Position(id) == CHOOSE n \in DOMAIN Registry : Registry[n] = id

\* RuleDefinition.Run
Run(id, e) ==
  CASE id = "bp.hit_ratio" -> ruleBPHitRatio(e)
    [] id = "bp.undersized" -> ruleBPUndersized(e)
    [] id = "bp.free_pages_low" -> ruleBPFreePagesLow(e)
    [] id = "bp.lru_flushing" -> ruleBPLRUFlushing(e)
    [] id = "bp.wait_free" -> ruleBPWaitFree(e)
    [] id = "bp.dirty_pct" -> ruleBPDirtyPct(e)
    [] id = "innodb.flushing" -> ruleInnoDBFlushing(e)
    [] id = "redo.checkpoint_age" -> ruleRedoCheckpointAge(e)
    [] id = "redo.pending_writes" -> ruleRedoPendingWrites(e)
    [] id = "redo.pending_fsyncs" -> ruleRedoPendingFsyncs(e)
    [] id = "redo.log_waits" -> ruleRedoLogWaits(e)
    [] id = "innodb.semaphores" -> ruleSemaphoreWaits(e)
    [] id = "binlog.cache_disk_use" -> ruleBinlogCacheDiskUse(e)
    [] id = "binlog.stmt_cache_disk_use" -> ruleBinlogStmtCacheDiskUse(e)
    [] id = "threadcache.hit_ratio" -> ruleThreadCacheHitRatio(e)
    [] id = "tablecache.usage" -> ruleTableCacheUsage(e)
    [] id = "tablecache.overflows" -> ruleTableCacheOverflows(e)
    [] id = "tablecache.miss_ratio" -> ruleTableCacheMissRatio(e)
    [] id = "tmp.disk_ratio" -> ruleTmpDiskRatio(e)
    [] id = "queryshape.select_scan" -> ruleFullScanSelectScan(e)
    [] id = "queryshape.select_full_join" -> ruleFullScanSelectFullJoin(e)
    [] id = "queryshape.handler_read_rnd_next" -> ruleFullScanHandlerRndNext(e)
    [] id = "queryshape.is_processlist" -> ruleProcesslistAbuse(e)
    [] id = "queryshape.observed_slow_processlist" -> ruleObservedSlowProcesslistQuery(e)
    [] id = "thread.max_queue_depth" -> ruleThreadMaxQueueDepth(e)
    [] id = "connections.saturation" -> ruleConnectionsSaturation(e)
    [] id = "connections.aborted_rate" -> ruleAbortedConnectsRate(e)
    [] id = "config.slow_log_disabled" -> ruleSlowLogDisabled(e)
    [] id = "config.max_connections_high" -> ruleConfigMaxConnectionsHigh(e)
    [] id = "config.sync_binlog_not_one" -> ruleConfigSyncBinlogNotOne(e)

\* correlateFindings: which finding is related to which other.
Correlations ==
  { <<"bp.wait_free", "bp.free_pages_low">>, <<"bp.wait_free", "bp.lru_flushing">>,
    <<"bp.free_pages_low", "bp.lru_flushing">>, <<"innodb.flushing", "bp.dirty_pct">>,
    <<"innodb.flushing", "redo.checkpoint_age">>, <<"redo.checkpoint_age", "innodb.flushing">>,
    <<"redo.pending_writes", "redo.pending_fsyncs">>, <<"tablecache.overflows", "tablecache.miss_ratio">>,
    <<"tablecache.overflows", "tablecache.usage">>,
    <<"queryshape.select_full_join", "queryshape.handler_read_rnd_next">>,
    <<"queryshape.select_scan", "queryshape.handler_read_rnd_next">>,
    <<"queryshape.observed_slow_processlist", "queryshape.select_full_join">>,
    <<"queryshape.observed_slow_processlist", "queryshape.select_scan">>,
    <<"connections.saturation", "thread.max_queue_depth">>,
    <<"config.max_connections_high", "connections.saturation">> }

Related(id, ids) == {other \in ids : <<id, other>> \in Correlations}

inferConfidence(rating) ==
  IF rating.severity = Crit \/ rating.metrics >= 2 THEN "high"
  ELSE IF rating.severity = Info THEN "low" ELSE "medium"

\* The rules that answered, by subsystem, then severity, then ID.
Ordered(rating) ==
  LET graded(n, severity) == SelectSeq(Subsystems[n], LAMBDA id : rating[id].severity = severity)
  IN FlattenSeq([n \in DOMAIN Subsystems |->
       graded(n, Crit) \o graded(n, Warn) \o graded(n, Info) \o graded(n, OK)])
FindingsOf(rating, order) ==
  [n \in DOMAIN order |->
     [id |-> order[n], severity |-> rating[order[n]].severity, evidence |-> rating[order[n]].metrics,
      confidence |-> inferConfidence(rating[order[n]]), related |-> Related(order[n], ToSet(order))]]
Findings(rating) == FindingsOf(rating, Ordered(rating))
Analyze(e) == Findings([id \in RuleIds |-> Run(id, e)])

Summarise(fs) == [s \in {OK, Info, Warn, Crit} |-> Cardinality({n \in DOMAIN fs : fs[n].severity = s})]

driverScore(f) ==
  LET bySeverity == (Crit :> 300) @@ (Warn :> 200) @@ (Info :> 100)
      byConfidence == [high |-> 30, medium |-> 20, low |-> 10]
  IN bySeverity[f.severity] + byConfidence[f.confidence]
     + 3 * Min({f.evidence, 4}) + 2 * Min({Cardinality(f.related), 3})

\* Of equal scores, the earlier subsystem, then the earlier ID.
Outranks(f, g) ==
  driverScore(f) > driverScore(g) \/ (driverScore(f) = driverScore(g) /\ Position(f.id) < Position(g.id))

\* buildTopDriverViews
TopDrivers(fs) ==
  LET ranked == SortSeq(SelectSeq(fs, LAMBDA f : f.severity # OK), Outranks)
  IN SubSeq(ranked, 1, Min({3, Len(ranked)}))
=============================================================================
