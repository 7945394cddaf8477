------------------------------ MODULE Parsers -------------------------------
(***************************************************************************)
(* The parsers of package parse over every file of a bounded length: the   *)
(* kind of the file decides which parser reads it.                         *)
(***************************************************************************)
EXTENDS SamplerParsers, TopParser, NetstatParser, ProcesslistParser, InnodbParser,
        MysqlParsers, MemoryParsers, HostParsers

\* The locals a parser starts with.
StartOf(k) ==
  CASE k = "iostat" -> IostatStart
    [] k = "top" -> TopStart
    [] k = "netstat" -> NetstatStart
    [] k = "netstat_s" -> NetstatSStart
    [] k = "processlist" -> ProcesslistStart
    [] k = "innodbstatus1" -> InnodbStart
    [] k = "mysqladmin" -> MysqladminStart
    [] k = "vmstat" -> VmstatStart
    [] k = "variables" -> VariablesStart
    [] k \in {"meminfo", "env_meminfo"} -> MemoryStart
    [] k \in HostKinds -> HostStart

Init ==
  /\ kind \in Kinds
  /\ start \in IF kind = "top" THEN Starts ELSE {Min(Starts)}
  /\ read = <<>>
  /\ loc = StartOf(kind)
  /\ diags = <<>>
  /\ result = [state |-> "reading", data |-> None]

Next ==
  \/ kind = "iostat" /\ IostatNext
  \/ kind = "top" /\ TopNext
  \/ kind = "netstat" /\ NetstatNext
  \/ kind = "netstat_s" /\ NetstatSNext
  \/ kind = "processlist" /\ ProcesslistNext
  \/ kind = "innodbstatus1" /\ InnodbNext
  \/ kind = "mysqladmin" /\ MysqladminNext
  \/ kind = "vmstat" /\ VmstatNext
  \/ kind = "variables" /\ VariablesNext
  \/ kind = "meminfo" /\ MeminfoNext
  \/ kind = "env_meminfo" /\ EnvMeminfoNext
  \/ kind \in HostKinds /\ HostNext

Spec == Init /\ [][Next]_parserVars
=============================================================================
