------------------------------ MODULE Payloads ------------------------------
(***************************************************************************)
(* What the report is built from: a collection as parse.Discover returns    *)
(* it, and how render and findings look into it.                            *)
(*                                                                          *)
(* A collection is [hostname, snapshots, sidecars].  A snapshot is [time,    *)
(* files]; files maps the suffixes it has to [path, status, parsed], and    *)
(* parsed is empty, or holds the payload of the file's parser, which may be *)
(* its nil pointer.  sidecars maps suffixes to [at, says]: what is read in  *)
(* the file, and the time in its name.                                      *)
(***************************************************************************)
EXTENDS ObservedQueries

Nil == <<>>    \* the nil pointer of a parser that found no data
Gap == <<>>    \* a slot with NaN; <<v>> is a slot with a value

\* Numbers in ascending order.
Ascending(S) == InOrder(S, {p \in S \X S : p[1] < p[2]})

\* The snapshots whose file of suffix s has an answer of its parser.
Answered(c, s) ==
  {n \in DOMAIN c.snapshots :
     s \in DOMAIN c.snapshots[n].files /\ c.snapshots[n].files[s].parsed # <<>>}

PayloadAt(c, n, s) == c.snapshots[n].files[s].parsed[1]

\* The payloads of suffix s, in the order of the snapshots, and those that are not nil.
PayloadsOf(c, s) ==
  LET at == Ascending(Answered(c, s)) IN [n \in DOMAIN at |-> PayloadAt(c, at[n], s)]
Present(ins) ==
  LET at == Ascending({n \in DOMAIN ins : ins[n] # Nil}) IN [n \in DOMAIN at |-> ins[at[n]]]

\* One payload for each snapshot, Nil where it has none.
PerSnapshot(c, s) ==
  [n \in DOMAIN c.snapshots |-> IF n \in Answered(c, s) THEN PayloadAt(c, n, s) ELSE Nil]

\* What numbers add up to, from none of them to all.
Sums(terms) ==
  LET sum[n \in 0..Len(terms)] == IF n = 0 THEN 0 ELSE sum[n - 1] + terms[n] IN sum
Total(terms) == Sums(terms)[Len(terms)]

\* The position on a common axis at which each of lens samples begins, from 0.
Offsets(lens) == [n \in DOMAIN lens |-> Sums(lens)[n - 1]]
OffsetsOf(ins, length(_)) == Offsets([n \in DOMAIN ins |-> length(ins[n])])
-----------------------------------------------------------------------------
\* reportutil.GaugeLast: the newest value of a gauge in the merged status data.
GaugeLast(merged, name) ==
  IF merged = Nil THEN Gap
  ELSE IF name \in merged.counters \/ name \notin merged.names THEN Gap
  ELSE LET at == {i \in DOMAIN merged.deltas[name] : merged.deltas[name][i] # Gap}
       IN IF at = {} THEN Gap ELSE merged.deltas[name][Max(at)]

\* reportutil.VariableRaw: the setting in the newest snapshot that lists it.  A
\* setting is [text, num]; num is Gap when the text is no number.
NoSetting == [text |-> "", num |-> Gap]
VariableRaw(vars, name) ==
  LET at == {n \in DOMAIN vars : vars[n] # Nil /\ name \in DOMAIN vars[n]}
  IN IF at = {} THEN NoSetting ELSE vars[Max(at)][name]
VariableFloat(vars, name) == VariableRaw(vars, name).num
=============================================================================
