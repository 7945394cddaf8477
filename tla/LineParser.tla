----------------------------- MODULE LineParser -----------------------------
(***************************************************************************)
(* What the parsers of package parse have in common: one file is read line *)
(* by line into local variables; at its end, or when the scanner gives up  *)
(* on a line, the locals become the payload, or nil for a file without     *)
(* data.  A line is a record of what a parser tells apart in it; a         *)
(* diagnostic is its severity.                                             *)
(***************************************************************************)
EXTENDS Integers, Sequences, FiniteSets, TLC, SequencesExt, FiniteSetsExt, Functions

CONSTANTS
  Kinds,      \* the collectors of this instance
  MaxLines,   \* the most lines a file of each kind has
  Starts      \* what Snapshot.Timestamp may be, in seconds

ASSUME LineAssumption == MaxLines \in [Kinds -> Nat] /\ Starts \subseteq Nat /\ Starts # {}

VARIABLES
  kind,     \* the Suffix of the file
  start,    \* Snapshot.Timestamp
  read,     \* the lines of the file read so far
  loc,      \* the parser's local variables
  diags,    \* severities of the diagnostics, in order
  result    \* [state |-> "reading", "nil" or "data", data |-> the payload]

parserVars == <<kind, start, read, loc, diags, result>>

Warning == <<"warning">>
Failure == <<"error">>
None == <<>>

Of(t) == [t |-> t]

\* One line of a file of kind k: the locals become s, with diagnostics d.
Line(k, l, s, d) ==
  /\ kind = k /\ result.state = "reading"
  /\ Len(read) < MaxLines[k]
  /\ read' = Append(read, l)
  /\ loc' = s
  /\ diags' = diags \o d
  /\ UNCHANGED <<kind, start, result>>

\* The parser returns: data, or nil if there is none; d are its last diagnostics.
Return(k, nil, data, d) ==
  /\ kind = k /\ result.state = "reading"
  /\ diags' = diags \o d
  /\ result' = IF nil THEN [state |-> "nil", data |-> None] ELSE [state |-> "data", data |-> data]
  /\ UNCHANGED <<kind, start, read, loc>>

\* The end of the file, or of what the scanner can read of it.
End(k, nil, data, d) == \E readError \in {None, Failure} : Return(k, nil, data, readError \o d)

\* The lines of class t among the first n, by their positions.
Positions(t, n) == {i \in 1..n : read[i].t = t}

\* The last line of class t before line i, or 0.
LastBefore(t, i) == Max(Positions(t, i - 1) \cup {0})

\* How many numbers of S are at most i, and the numbers of S in ascending order.
Rank(S, i) == Cardinality({j \in S : j <= i})
Sorted(S) == [n \in 1..Cardinality(S) |-> CHOOSE i \in S : Rank(S, i) = n]

\* A function with x at k, where it may have had a value or none.
With(f, k, x) == [y \in DOMAIN f \cup {k} |-> IF y = k THEN x ELSE f[y]]

\* The sum of the values of a function into Nat, as the size of a set: an argument and
\* a number up to its value.
Total(f) == Cardinality(UNION {{x} \X (1..f[x]) : x \in DOMAIN f})
=============================================================================
