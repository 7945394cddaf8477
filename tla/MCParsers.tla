------------------------------ MODULE MCParsers -----------------------------
(***************************************************************************)
(* Small files for Parsers.  MaxLines bounds each kind so that its file can *)
(* hold two samples and what comes between them.                            *)
(***************************************************************************)
EXTENDS Parsers

MCMaxLines ==
  [k \in Kinds |->
     CASE k \in {"iostat", "processlist", "mysqladmin"} -> 6
       [] k \in {"netstat", "vmstat"} -> 4
       [] k \in {"topheader", "hostname", "sysctl"} -> 3
       [] OTHER -> 5]

MCKinds ==
  {"iostat", "top", "netstat", "netstat_s", "processlist", "innodbstatus1", "mysqladmin", "vmstat",
   "variables", "meminfo", "env_meminfo"} \cup HostKinds

\* A listed counter, one of a family, and a gauge of a family of counters.
MCStatusNames ==
  {[listed |-> "counter", family |-> "", suffix |-> ""],
   [listed |-> "no", family |-> "innodb_buffer_pool_pages", suffix |-> "flushed"],
   [listed |-> "no", family |-> "innodb_buffer_pool_pages", suffix |-> "dirty"]}

\* The columns in either order, and without one; a row cut short.
MCHeaders == {<<"r", "us">>, <<"us", "r">>, <<"r">>}
MCVmstatRows == {<<1, 2>>, <<3>>}

\* Whole rows, of a query, of an idle session, of a daemon; one cut before its
\* query; one whose text holds a line like a field; one of nothing of interest.
MCRows ==
  {<<<<"Command", "Query">>, <<"Time", 1>>, <<"State", "a">>, <<"Info", 1>>, <<"Rows_examined", 5>>>>,
   <<<<"Command", "Query">>, <<"Time", 2>>, <<"State", "b">>, <<"Info", 1>>, <<"Time_ms", 1000>>>>,
   <<<<"Command", "Query">>, <<"State", "b">>, <<"Info", 2>>, <<"State", "NULL">>>>,
   <<<<"Command", "Sleep">>, <<"Time", 9>>, <<"State", "">>>>,
   <<<<"Command", "Query">>>>,
   <<<<"Id", "7">>>>}

MCFields == {"MemTotal", "SwapTotal", "SwapFree"}
MCCharted == {"MemTotal"}
MCDisks == {[mount |-> 1, pct |-> 10], [mount |-> 2, pct |-> 90]}
=============================================================================
