---------------------------- MODULE Environment -----------------------------
(***************************************************************************)
(* The Environment section of the report (render/environment.go): the host  *)
(* panel from the sidecars, the MySQL panel from the newest variables and   *)
(* from the newest Uptime, and the usage bars from the merged status data.   *)
(***************************************************************************)
EXTENDS Payloads

CONSTANTS
  Architectures,  \* the kernel releases that end in a name isKnownArch knows
  Brands          \* pairs of a text and a vendor it mentions

\* What a sidecar's parser makes of it; Nil where there is no such file.
Says(c, s) == IF s \in DOMAIN c.sidecars THEN c.sidecars[s].says ELSE Nil

NoText == ""
KeyOf(keys, k) == IF k \in DOMAIN keys THEN keys[k] ELSE NoText

\* ParseEnvHostname, or else the hostname that Discover found.
HostnameOf(c) ==
  IF Says(c, "hostname") = Nil \/ Says(c, "hostname").host = NoText THEN c.hostname
  ELSE Says(c, "hostname").host

\* The operating system: the FIPS module's name in -sysctl, or else a line of -output
\* that names a distribution.
OSOf(c) ==
  LET fips == KeyOf(Says(c, "sysctl"), "crypto.fips_name") IN
  IF fips # NoText THEN fips ELSE IF Says(c, "output") = Nil THEN NoText ELSE Says(c, "output")

Tunables == {"kernel.osrelease", "kernel.version", "vm.swappiness", "vm.dirty_ratio",
             "vm.dirty_background_ratio", "fs.file-max"}

\* Seconds from boot to the sample: by the clock of the sidecar that holds it.
OSUptime(c) ==
  LET ps == Says(c, "procstat") IN
  IF ps = Nil \/ ps.btime = Gap THEN 0
  ELSE Max({0, c.sidecars["procstat"].at - ps.btime[1]})

\* The host panel, of which a field that is unknown is NoText, Nil or 0.
buildHostEnv(c) ==
  [hostname |-> HostnameOf(c),
   os |-> OSOf(c),
   tunables |-> [k \in DOMAIN Says(c, "sysctl") \cap Tunables |-> Says(c, "sysctl")[k]],
   \* the tail of the release, if it names an architecture
   architecture |-> IF KeyOf(Says(c, "sysctl"), "kernel.osrelease") \in Architectures
                    THEN Says(c, "sysctl")["kernel.osrelease"] ELSE NoText,
   cpus |-> IF Says(c, "procstat") = Nil THEN 0 ELSE Says(c, "procstat").cpus,
   uptime |-> OSUptime(c),
   load |-> Says(c, "top"),
   meminfo |-> Says(c, "meminfo"),
   filesystems |-> Says(c, "df")]

NoHost ==
  [hostname |-> NoText, os |-> NoText, tunables |-> <<>>, architecture |-> NoText, cpus |-> 0,
   uptime |-> 0, load |-> Nil, meminfo |-> Nil, filesystems |-> <<>>]
-----------------------------------------------------------------------------
\* The variables of the newest answer, which may be nil.
latestVariables(c) ==
  IF Answered(c, "variables") = {} THEN Nil
  ELSE PayloadAt(c, Max(Answered(c, "variables")), "variables")

Setting(vars, name) == IF name \in DOMAIN vars THEN vars[name] ELSE NoSetting

UptimeSlots(ma) == {j \in DOMAIN ma.deltas["Uptime"] : ma.deltas["Uptime"][j] # Gap}

\* Mutant of UptimeClock: the time of the snapshot, not that of the sample.
UptimeClockOfSnapshot(c, n, j) == c.snapshots[n].time

UptimeClock(c, n, j) == PayloadAt(c, n, "mysqladmin").times[j]

Panic == [seconds |-> -1, at |-> -1]
Unknown == [seconds |-> 0, at |-> 0]

\* latestUptimeSeconds: newest first, each answer is dereferenced until one has an
\* Uptime, first in the status data, then in the variables.  An answer that is a nil
\* pointer ends the program.
latestUptimeSeconds(c) ==
  LET status(n) == PayloadAt(c, n, "mysqladmin")
      vars(n) == PayloadAt(c, n, "variables")
      S == {n \in Answered(c, "mysqladmin") :
              \/ status(n) = Nil
              \/ "Uptime" \in status(n).names /\ UptimeSlots(status(n)) # {}}
      V == {n \in Answered(c, "variables") : vars(n) = Nil \/ Setting(vars(n), "Uptime").num # Gap}
  IN IF S # {} THEN
       LET n == Max(S) IN
       IF status(n) = Nil THEN Panic
       ELSE LET j == Max(UptimeSlots(status(n))) IN
            [seconds |-> status(n).deltas["Uptime"][j][1], at |-> UptimeClock(c, n, j)]
     ELSE IF V # {} THEN
       LET n == Max(V) IN
       IF vars(n) = Nil THEN Panic
       ELSE [seconds |-> vars(n)["Uptime"].num[1], at |-> c.snapshots[n].time]
     ELSE Unknown

inferDistribution(vars) ==
  LET text(name) == Setting(vars, name).text
      size == Setting(vars, "wsrep_cluster_size").num
  IN IF text("wsrep_on") = "ON" /\ size # Gap /\ size # <<0>> THEN "Galera"
     ELSE IF <<text("version_comment"), "percona">> \in Brands THEN "Percona Server"
     ELSE IF \E name \in {"version_comment", "version"} : <<text(name), "mariadb">> \in Brands THEN "MariaDB"
     ELSE IF \E name \in {"version_comment", "version"} : text(name) # NoText THEN "MySQL Community"
     ELSE NoText

\* buildMySQLEnv: the settings shown are the newest variables'; the start of the
\* server is anchored to the sample that gave the uptime.
MySQLPanel(vars, uptime) ==
  IF vars = Nil THEN Nil
  ELSE [settings |-> vars,
        distribution |-> inferDistribution(vars),
        uptime |-> uptime.seconds,
        started |-> IF uptime.seconds > 0 THEN <<uptime.at - uptime.seconds>> ELSE Gap,
        galera |-> Setting(vars, "wsrep_on").text = "ON"]
buildMySQLEnv(c) == MySQLPanel(latestVariables(c), latestUptimeSeconds(c))

EnvironmentPanics(c) == latestVariables(c) # Nil /\ latestUptimeSeconds(c) = Panic

\* The time zone is a variable, shown with the host if there is anything of the host.
EnvironmentOf(host, mysql, timezone) ==
  [mysql |-> mysql,
   host |-> IF host = NoHost THEN Nil
            ELSE [panel |-> host, timezone |-> IF mysql = Nil THEN NoText ELSE timezone]]
buildEnvironmentSection(c) ==
  EnvironmentOf(buildHostEnv(c), buildMySQLEnv(c), Setting(latestVariables(c), "system_time_zone").text)

EnvBadge(env) ==
  CASE env.host # Nil /\ env.mysql # Nil -> ""
    [] env.host # Nil /\ env.mysql = Nil -> "host only"
    [] env.host = Nil /\ env.mysql # Nil -> "mysql only"
    [] OTHER -> "missing"
-----------------------------------------------------------------------------
\* A usage bar: part of whole, cut to what lies between none and all of it.
Bar(part, whole, severity(_, _)) ==
  IF part = Gap \/ whole = Gap THEN Nil
  ELSE IF whole[1] <= 0 THEN Nil
  ELSE LET cut == Min({whole[1], Max({0, part[1]})})
       IN [part |-> cut, whole |-> whole[1], severity |-> severity(cut, whole[1])]

severityForFrac(part, whole, warn, crit) ==
  IF part * 100 >= whole * crit THEN "crit" ELSE IF part * 100 >= whole * warn THEN "warn" ELSE "ok"

Subtracted(a, b) == IF a = Gap \/ b = Gap THEN Gap ELSE <<a[1] - b[1]>>

\* bufferPoolFillPct, bufferPoolDirtyPct, tableCacheUsage
UsageBars(merged, vars) ==
  LET total == GaugeLast(merged, "Innodb_buffer_pool_pages_total")
      free == GaugeLast(merged, "Innodb_buffer_pool_pages_free")
      dirty == GaugeLast(merged, "Innodb_buffer_pool_pages_dirty")
  IN [fill |-> Bar(Subtracted(total, free), total, LAMBDA p, w : "ok"),
      dirty |-> Bar(dirty, total, LAMBDA p, w : severityForFrac(p, w, 50, 80)),
      tables |-> Bar(GaugeLast(merged, "Open_tables"), VariableFloat(vars, "table_open_cache"),
                     LAMBDA p, w : severityForFrac(p, w, 80, 95))]
=============================================================================
