---------------------------- MODULE MysqlParsers ----------------------------
(***************************************************************************)
(* parseMysqladmin: every "Variable_name" row starts a column; a counter's *)
(* slot is its difference to its last value, a gauge's the value itself.   *)
(* A slot is a sequence: <<v>>, or <<>> for NaN.                           *)
(*                                                                         *)
(* parseVariables: the first SHOW GLOBAL VARIABLES section of the file; the *)
(* sections of session variables after it are out of scope.                *)
(***************************************************************************)
EXTENDS LineParser

CONSTANTS
  StatusNames,   \* [listed, family, suffix]: what classifyAsCounter tells apart
  Tally,         \* values a status variable can have
  Variables, Settings   \* names of settings, and their values

ASSUME MysqlAssumption == Tally \subseteq Int

MysqladminStart == [col |-> 0, previous |-> <<>>, slots |-> <<>>]

NaN == <<>>

PageGauges == {"data", "free", "misc", "old", "dirty", "total"}

classifyAsCounter(n) ==
  \/ n.listed = "counter"
  \/ /\ n.listed = "no"
     /\ \/ n.family \in {"com", "handler", "connection_errors", "innodb_rows", "performance_schema"}
        \/ n.family = "innodb_buffer_pool_pages" /\ n.suffix \notin PageGauges

\* Lines that do not start with "|" or have no two fields.
MysqladminOther == Line("mysqladmin", Of("other"), loc, None)

MysqladminColumn == Line("mysqladmin", Of("header"), [loc EXCEPT !.col = @ + 1], None)

SlotsOf(n) == IF n \in DOMAIN loc.slots THEN loc.slots[n] ELSE <<>>
PreviousOf(n) == IF n \in DOMAIN loc.previous THEN loc.previous[n] ELSE 0

Padded(slots, n) == slots \o [i \in 1..n - Len(slots) |-> NaN]

\* Mutant of NewPrevious: gauges and counters alike forget what they do not report next.
NewPreviousOfColumn(n, v) == With(<<>>, n, v)

\* previous after counter n reports v.
NewPrevious(n, v) == With(loc.previous, n, v)

\* Variable n reports v in the current column: earlier columns without it are
\* NaN, a second report in the column overwrites the first.
NewValue(n, v) ==
  LET out == IF classifyAsCounter(n) /\ loc.col > 1 THEN v - PreviousOf(n) ELSE v
      slots == Append(SubSeq(Padded(SlotsOf(n), loc.col - 1), 1, loc.col - 1), <<out>>)
  IN [loc EXCEPT !.slots = With(@, n, slots),
                 !.previous = IF classifyAsCounter(n) THEN NewPrevious(n, v) ELSE @]

\* A row before any header is ignored; a value that is no number counts as 0.
MysqladminRow ==
  \E n \in StatusNames, v \in Tally :
    Line("mysqladmin", [t |-> "row", name |-> n, v |-> v], IF loc.col = 0 THEN loc ELSE NewValue(n, v), None)

\* finish: a warning for each variable that is missing from the last columns.
Short == {n \in DOMAIN loc.slots : Len(loc.slots[n]) < loc.col}

MysqladminEnd ==
  End("mysqladmin", loc.col = 0 \/ loc.slots = <<>>,
      [names |-> DOMAIN loc.slots, count |-> loc.col, times |-> [i \in 1..loc.col |-> start + i - 1],
       deltas |-> [n \in DOMAIN loc.slots |-> Padded(loc.slots[n], loc.col)],
       counters |-> {n \in DOMAIN loc.slots : classifyAsCounter(n)}, boundaries |-> <<0>>],
      [n \in 1..Cardinality(Short) |-> "warning"])

MysqladminNext == MysqladminOther \/ MysqladminColumn \/ MysqladminRow \/ MysqladminEnd
-----------------------------------------------------------------------------
\* The rows of variable n in column c, and in any column.
RowsIn(n, c) ==
  {i \in Positions("row", Len(read)) :
     /\ read[i].name = n
     /\ Cardinality(Positions("header", i)) = c}
ValueRows(n) == UNION {RowsIn(n, c) : c \in 1..loc.col}

Gain(s) == IF s # NaN /\ s[1] > 0 THEN s[1] ELSE 0
Loss(s) == IF s # NaN /\ s[1] < 0 THEN -s[1] ELSE 0
SlotSum(slots) ==
  Total([c \in DOMAIN slots |-> Gain(slots[c])]) - Total([c \in DOMAIN slots |-> Loss(slots[c])])

\* parse/mysqladmin.go, deltas: whatever columns a variable is missing from, and
\* wherever the file is cut, a value stands in the column that reports it, and a
\* counter reported at most once in a column has slots that add up to its last
\* value: no increment is lost and none counted twice over a gap.
DeltasTelescope ==
  kind = "mysqladmin" /\ result.state = "data" =>
    \A n \in result.data.names :
      LET slots == result.data.deltas[n] IN
      /\ Len(slots) = result.data.count
      /\ \A c \in DOMAIN slots : (slots[c] = NaN) <=> (RowsIn(n, c) = {})
      /\ IF n \in result.data.counters
         THEN (\A c \in DOMAIN slots : Cardinality(RowsIn(n, c)) <= 1)
                => SlotSum(slots) = read[Max(ValueRows(n))].v
         ELSE \A c \in DOMAIN slots : slots[c] # NaN => slots[c][1] = read[Max(RowsIn(n, c))].v
-----------------------------------------------------------------------------
VariablesStart == [inGlobal |-> FALSE, stopped |-> FALSE, values |-> <<>>]

\* A line of the variables file, unless an earlier one ended the scan.
VarLine(l, s, d) == ~loc.stopped /\ Line("variables", l, s, d)

VariablesBlank == VarLine(Of("blank"), loc, None)

\* A SHOW command before the global section is skipped, after it ends the scan.
VariablesShow == VarLine(Of("show"), [loc EXCEPT !.stopped = loc.inGlobal], None)

VariablesHeader == VarLine(Of("header"), [loc EXCEPT !.inGlobal = TRUE], None)

\* "THREAD_ID", or a row without two columns, ends the global section.
VariablesOther == VarLine(Of("other"), [loc EXCEPT !.stopped = loc.inGlobal], None)

\* The first value of a variable wins; each later one is a warning.
VariablesRow ==
  \E n \in Variables, v \in Settings :
    VarLine([t |-> "row", name |-> n, v |-> v],
            IF loc.inGlobal THEN [loc EXCEPT !.values = @ @@ (n :> v)] ELSE loc,
            IF loc.inGlobal /\ n \in DOMAIN loc.values THEN Warning ELSE None)

VariablesEnd == End("variables", loc.values = <<>>, loc.values, None)

VariablesNext ==
  \/ VariablesBlank \/ VariablesShow \/ VariablesHeader \/ VariablesOther \/ VariablesRow \/ VariablesEnd
=============================================================================
