--------------------------- MODULE MemoryParsers ----------------------------
(***************************************************************************)
(* The two readers of a -meminfo file, which repeats /proc/meminfo dumps   *)
(* under TS lines: parseMeminfo makes a series of every dump and rejects   *)
(* the file if one is cut short; ParseEnvMeminfoWithDiagnostics looks for  *)
(* the newest dump that is complete.                                       *)
(***************************************************************************)
EXTENDS LineParser

CONSTANTS
  Fields,       \* the fields of /proc/meminfo
  CoreFields,   \* those every complete dump has
  Charted,      \* those parseMeminfo makes series of
  Sizes         \* values, in kB

Swap == {"SwapTotal", "SwapFree"}

ASSUME MemoryAssumption ==
  {"MemTotal"} \cup Swap \subseteq CoreFields /\ CoreFields \cup Charted \subseteq Fields /\ Sizes \subseteq Nat

MemoryStart == [samples |-> <<>>]

\* Field f of the newest sample is v.
Filled(sample, f, v) == [g \in DOMAIN sample \cup {f} |-> IF g = f THEN v ELSE sample[g]]
WithField(s, f, v) == [s EXCEPT !.samples[Len(s.samples)] = Filled(@, f, v)]
NewSample(s) == [s EXCEPT !.samples = Append(@, <<>>)]

MeminfoTS == Line("meminfo", Of("ts"), NewSample(loc), None)
MeminfoOther == Line("meminfo", Of("other"), loc, None)

MeminfoField ==
  \E f \in Fields, v \in Sizes :
    /\ loc.samples # <<>>
    /\ Line("meminfo", [t |-> "field", f |-> f, v |-> v], WithField(loc, f, v), None)

\* A field before the first TS rejects the file at once.
MeminfoMisplaced == loc.samples = <<>> /\ Return("meminfo", TRUE, None, Failure)

Truncated == \E i \in DOMAIN loc.samples : ~(Swap \subseteq DOMAIN loc.samples[i])

SizeIn(sample, f) == IF f \in DOMAIN sample THEN sample[f] ELSE 0
SwapUsed(sample) == Max({0, SizeIn(sample, "SwapTotal") - SizeIn(sample, "SwapFree")})

NeverSeen == {f \in Charted : \A i \in DOMAIN loc.samples : f \notin DOMAIN loc.samples[i]}

MeminfoEnd ==
  LET bad == loc.samples = <<>> \/ Truncated IN
  End("meminfo", bad,
      [f \in Charted \cup {"swap_used"} |->
         [i \in DOMAIN loc.samples |->
            IF f = "swap_used" THEN SwapUsed(loc.samples[i]) ELSE SizeIn(loc.samples[i], f)]],
      IF bad THEN Failure ELSE [n \in 1..Cardinality(NeverSeen) |-> "warning"])

MeminfoNext == MeminfoTS \/ MeminfoOther \/ MeminfoField \/ MeminfoMisplaced \/ MeminfoEnd
-----------------------------------------------------------------------------
\* The first line that is not blank opens a sample if no TS has.
Opened == IF loc.samples = <<>> THEN NewSample(loc) ELSE loc

EnvMeminfoTS == Line("env_meminfo", Of("ts"), NewSample(loc), None)
EnvMeminfoOther == Line("env_meminfo", Of("other"), Opened, None)
EnvMeminfoField ==
  \E f \in Fields, v \in Sizes :
    Line("env_meminfo", [t |-> "field", f |-> f, v |-> v], WithField(Opened, f, v), None)
EnvMeminfoBadField == Line("env_meminfo", Of("bad"), Opened, Warning)

\* The samples in which some field was seen.
Tracked == {i \in DOMAIN loc.samples : loc.samples[i] # <<>>}

\* Mutant of Newest: the oldest.
OldestSample(S) == Min(S)
Newest(S) == Max(S)

EnvMeminfoEnd ==
  LET complete == {i \in Tracked : CoreFields \subseteq DOMAIN loc.samples[i]}
      total == {i \in Tracked : "MemTotal" \in DOMAIN loc.samples[i]}
      chosen == IF complete # {} THEN Newest(complete) ELSE IF total # {} THEN Newest(total) ELSE Max(Tracked)
  IN Return("env_meminfo", Tracked = {}, IF Tracked = {} THEN <<>> ELSE loc.samples[chosen],
            IF Tracked = {} \/ Max(Tracked) \in complete THEN None ELSE Warning)

EnvMeminfoNext ==
  EnvMeminfoTS \/ EnvMeminfoOther \/ EnvMeminfoField \/ EnvMeminfoBadField \/ EnvMeminfoEnd
-----------------------------------------------------------------------------
\* A dump of the file, from the line after position s (a TS line, or 0) to the
\* next TS line, and what it says of field f.
Dumps == {0} \cup Positions("ts", Len(read))
DumpLines(s, f) ==
  {i \in Positions("field", Len(read)) : read[i].f = f /\ LastBefore("ts", i) = s}
FieldsOf(s) == {f \in Fields : DumpLines(s, f) # {}}
CompleteDumps == {s \in Dumps : CoreFields \subseteq FieldsOf(s)}

\* parse/envmeminfo.go: the memory shown is that of one dump, never a mix of
\* two: the newest complete one, else the newest with MemTotal; and a warning tells of any newer dump that was
\* passed over or of fields that are missing.
CompleteBeatsPartial ==
  kind = "env_meminfo" /\ result.state = "data" =>
    /\ \E s \in Dumps :
         /\ DOMAIN result.data = FieldsOf(s)
         /\ \A f \in FieldsOf(s) : result.data[f] = read[Max(DumpLines(s, f))].v
         /\ CompleteDumps # {} => s = Max(CompleteDumps)
         /\ LET total == {u \in Dumps : "MemTotal" \in FieldsOf(u)} IN
            CompleteDumps = {} /\ total # {} => s = Max(total)
    /\ LET newest == Max({s \in Dumps : FieldsOf(s) # {}})
           bad == Cardinality(Positions("bad", Len(read)))
       IN (Len(diags) > bad) <=> (newest \notin CompleteDumps)
=============================================================================
