----------------------------- MODULE MCAnalysis -----------------------------
(***************************************************************************)
(* Small captures for Analysis.  A family has the inputs of a few rules,     *)
(* each missing or with a value on either side of the thresholds; in another *)
(* many rules fire at once; in a third one or two snapshots with samples at  *)
(* uneven times report what was written to the redo log.                     *)
(***************************************************************************)
EXTENDS Analysis, Sections

\* A status with two samples, ten seconds apart; a counter's first slot is its tally.
StatusOf(counters, gauges) ==
  LET slots(x) == IF x \in DOMAIN counters THEN <<<<7>>, <<counters[x]>>>> ELSE <<<<gauges[x]>>, <<gauges[x]>>>>
      names == DOMAIN counters \cup DOMAIN gauges
  IN [names |-> names, counters |-> DOMAIN counters, count |-> 2, times |-> <<100, 110>>,
      deltas |-> [x \in names |-> slots(x)], boundaries |-> <<0>>]

\* Two texts that are no numbers, and the others.
On == -1
Off == -2
SettingOf(v) ==
  CASE v = On -> [text |-> "ON", num |-> Gap]
    [] v = Off -> [text |-> "OFF", num |-> Gap]
    [] OTHER -> [text |-> ToString(v), num |-> <<v>>]

Idle == [f \in {"singlePage", "fsyncLog", "lru", "flushList", "fsyncPool", "reads", "writes", "waits"} |-> 0]
Calm == <<[pending |-> Idle], Nil>>
Query(time, context) == [hasTime |-> TRUE, time |-> time, context |-> context]

EvidenceOf(counters, gauges, settings, innodb, queries) ==
  [merged |-> StatusOf(counters, gauges), vars |-> <<[x \in DOMAIN settings |-> SettingOf(settings[x])]>>,
   innodb |-> innodb, queries |-> queries]

NoInputs == [x \in {} |-> 0]

\* All partial functions on names: an input may be missing.
Partial(names, values) == UNION {[S -> values] : S \in SUBSET names}
Family(counters, cs, gauges, gs, settings, ss) ==
  {EvidenceOf(c, g, s, Calm, <<>>) :
     c \in Partial(counters, cs), g \in Partial(gauges, gs), s \in Partial(settings, ss)}

Rates == {0, 5, 20, 200}
SingleInput ==
  UNION {Family({x}, Rates, {}, {}, {}, {}) :
           x \in {"Innodb_buffer_pool_wait_free", "Innodb_log_waits", "Binlog_cache_disk_use",
                  "Binlog_stmt_cache_disk_use", "Table_open_cache_overflows", "Select_scan",
                  "Select_full_join", "Aborted_connects", "Deprecated_use_i_s_processlist_count"}}
  \cup UNION {Family({}, {}, {x}, {0, 1}, {}, {}) :
                x \in {"Innodb_os_log_pending_writes", "Innodb_os_log_pending_fsyncs"}}

SeveralInputs ==
  Family({"Innodb_buffer_pool_reads", "Innodb_buffer_pool_read_requests"}, {0, 20, 3000}, {}, {}, {}, {})
  \cup Family({"Table_open_cache_misses", "Table_open_cache_hits"}, {0, 1, 50}, {"Open_tables"}, {80, 100},
              {"table_open_cache"}, {0, 100})
  \cup Family({"Created_tmp_disk_tables", "Created_tmp_tables"}, {0, 3, 9}, {}, {}, {}, {})
  \cup Family({"Threads_created", "Connections"}, {0, 2, 10}, {}, {}, {}, {})
  \cup Family({"Handler_read_rnd_next", "Com_select"}, {0, 5, 50, 9000, 200000, 2000000}, {}, {}, {}, {})
  \cup Family({"Questions"}, {0, 9}, {}, {}, {"slow_query_log"}, {On, Off, 1})
  \cup Family({"Innodb_buffer_pool_reads", "Innodb_buffer_pool_pages_LRU_flushed"}, {0, 9},
              {"Innodb_buffer_pool_pages_free"}, {3, 9},
              {"innodb_lru_scan_depth", "innodb_buffer_pool_instances"}, {1, 4})
  \cup Family({}, {}, {"Innodb_buffer_pool_pages_dirty", "Innodb_buffer_pool_pages_total"}, {0, 68, 100},
              {"innodb_max_dirty_pages_pct"}, {75, 10})
  \cup Family({}, {}, {"Innodb_checkpoint_age", "Innodb_checkpoint_max_age"}, {0, 50, 80, 100}, {}, {})
  \cup Family({}, {}, {"Threads_connected", "Threads_running"}, {0, 60, 120, 4700},
              {"max_connections"}, {0, 100, 160, 1000, 6000})
  \cup Family({}, {}, {"Threads_connected", "Uptime"}, {60, 4000},
              {"max_connections", "innodb_buffer_pool_size"}, {0, 200, 900, 5500})
  \cup Family({}, {}, {}, {}, {"log_bin", "sync_binlog", "server_id", "gtid_mode"}, {0, 1, On, Off})

\* InnoDB status outputs and process lists.
Sources ==
  {EvidenceOf(NoInputs, NoInputs, NoInputs, <<[pending |-> [Idle EXCEPT ![f] = v]], Nil>>, q) :
     f \in DOMAIN Idle, v \in {0, 1, 500},
     q \in {<<>>, <<Query(59000, 1)>>, <<Query(90000, 1), Query(60000, 2)>>, <<Query(60000, 2)>>}}

\* Many rules at once.
ManyFindings ==
  {EvidenceOf(("Innodb_buffer_pool_wait_free" :> w) @@ ("Innodb_buffer_pool_pages_LRU_flushed" :> w)
                @@ ("Table_open_cache_overflows" :> o) @@ ("Select_scan" :> s) @@ ("Select_full_join" :> j)
                @@ ("Deprecated_use_i_s_processlist_count" :> p) @@ ("Handler_read_rnd_next" :> h)
                @@ ("Table_open_cache_misses" :> o) @@ ("Table_open_cache_hits" :> 9),
              ("Innodb_checkpoint_age" :> a) @@ ("Innodb_checkpoint_max_age" :> 100)
                @@ ("Open_tables" :> a),
              ("table_open_cache" :> 100) @@ ("log_bin" :> Off),
              <<[pending |-> [Idle EXCEPT !.lru = l, !.waits = w]]>>, <<Query(60000, 2)>>) :
     w \in {0, 5}, o \in {0, 5, 99}, s \in {0, 5, 200}, j \in {0, 5}, p \in {0, 5, 20}, h \in {0, 200000},
     a \in {0, 60, 90}, l \in {0, 1}}

\* What a status variable reports, Gap where it is missing, becomes slots.
SlotsOf(readings) ==
  LET before(i) == {j \in 1..i - 1 : readings[j] # Gap}
      last(i) == IF before(i) = {} THEN 0 ELSE readings[Max(before(i))][1]
  IN [i \in DOMAIN readings |-> IF readings[i] = Gap THEN Gap ELSE <<readings[i][1] - last(i)>>]
\* A snapshot that starts at a time and samples at intervals.
SnapshotOf(start, gaps, readings) ==
  [names |-> {Written}, counters |-> {Written}, count |-> Len(readings),
   times |-> [i \in DOMAIN readings |-> start + FoldLeft(+, 0, SubSeq(gaps, 1, i - 1))],
   deltas |-> Written :> SlotsOf(readings), boundaries |-> <<0>>]
Snapshots(start, lengths, values) ==
  UNION {{SnapshotOf(start, gaps, readings) :
            gaps \in [1..n - 1 -> {1, 2}], readings \in [1..n -> {Gap} \cup {<<v>> : v \in values}]} : n \in lengths}
Capacities == {<<>>, <<"innodb_redo_log_capacity" :> SettingOf(9)>>}
RedoLogs ==
  {[merged |-> MergeMysqladminData(<<s>>), vars |-> v, innodb |-> <<>>, queries |-> <<>>] :
     s \in Snapshots(0, {2, 3, 4}, {0, 2, 8}), v \in Capacities}
  \cup {[merged |-> MergeMysqladminData(<<s, t>>), vars |-> <<>>, innodb |-> <<>>, queries |-> <<>>] :
          s \in Snapshots(0, {1, 2}, {2, 8}), t \in Snapshots(20, {2, 3}, {2, 8})}

MCEvidence == SingleInput \cup SeveralInputs \cup Sources \cup ManyFindings \cup RedoLogs
=============================================================================
