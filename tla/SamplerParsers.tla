--------------------------- MODULE SamplerParsers ---------------------------
(***************************************************************************)
(* parseIostat and parseVmstat: samples without a time of their own, taken *)
(* a second apart.                                                         *)
(*                                                                         *)
(* iostat: reports are blocks of device rows under a Device header; a      *)
(* sample's time is its position among the samples of its device.          *)
(* vmstat: the last header gives each column its position; every line that *)
(* starts with a number is a sample, a second after the last.              *)
(***************************************************************************)
EXTENDS LineParser

CONSTANTS
  Devices, Readings,
  VmstatColumns,   \* the keys of the series of vmstat
  Headers,         \* its header lines: sequences over the columns
  VmstatRows       \* its data rows: sequences of numbers, possibly cut short

IostatStart == [inSample |-> FALSE, points |-> [d \in Devices |-> <<>>]]

\* A blank line ends the report.
IostatBlank == Line("iostat", Of("blank"), [loc EXCEPT !.inSample = FALSE], None)

\* A header names the columns; without %util or aqu-sz its rows are skipped.
IostatHeader ==
  \E known \in BOOLEAN :
    Line("iostat", [t |-> "header", known |-> known], [loc EXCEPT !.inSample = known],
         IF known THEN None ELSE Warning)

\* Mutant of IostatRow: rows outside a report count too.
IostatRowAnywhere ==
  \E d \in Devices, v \in Readings :
    Line("iostat", [t |-> "row", dev |-> d, v |-> v], [loc EXCEPT !.points[d] = Append(@, v)], None)

IostatRow ==
  \E d \in Devices, v \in Readings :
    Line("iostat", [t |-> "row", dev |-> d, v |-> v],
         IF loc.inSample THEN [loc EXCEPT !.points[d] = Append(@, v)] ELSE loc, None)

\* The banner, the CPU lines and, in a report, a row with too few or unreadable columns.
IostatOther == Line("iostat", Of("other"), loc, IF loc.inSample THEN Warning ELSE None)

Seen == {d \in Devices : loc.points[d] # <<>>}

IostatEnd ==
  End("iostat", Seen = {},
      [d \in Seen |-> [i \in DOMAIN loc.points[d] |-> [at |-> start + i - 1, v |-> loc.points[d][i]]]], None)

IostatNext == IostatBlank \/ IostatHeader \/ IostatRow \/ IostatOther \/ IostatEnd
-----------------------------------------------------------------------------
VmstatStart == [cols |-> <<>>, samples |-> <<>>]

\* Blank lines and the repeated "procs" banner.
VmstatBanner == Line("vmstat", Of("banner"), loc, None)

\* Neither data nor a known header.
VmstatUnknown == Line("vmstat", Of("unknown"), loc, Warning)

VmstatHeader ==
  \E h \in Headers : Line("vmstat", [t |-> "header", cols |-> h], [loc EXCEPT !.cols = h], None)

\* The reading of column c: its first position in the header; 0 if the header
\* lacks it or the row is too short.
Reading(cols, row, c) ==
  LET at == {i \in DOMAIN cols : cols[i] = c} IN
  IF at = {} \/ Min(at \cup {Len(row) + 1}) > Len(row) THEN 0 ELSE row[Min(at)]

VmstatRow ==
  \E row \in VmstatRows :
    Line("vmstat", [t |-> "row", row |-> row],
         IF loc.cols = <<>> THEN loc
         ELSE [loc EXCEPT !.samples = Append(@, [c \in VmstatColumns |-> Reading(loc.cols, row, c)])],
         IF loc.cols = <<>> THEN Warning ELSE None)

VmstatEnd ==
  End("vmstat", loc.samples = <<>>,
      [c \in VmstatColumns |-> [i \in DOMAIN loc.samples |-> [at |-> start + i - 1, v |-> loc.samples[i][c]]]],
      None)

VmstatNext == VmstatBanner \/ VmstatUnknown \/ VmstatHeader \/ VmstatRow \/ VmstatEnd
-----------------------------------------------------------------------------
\* The reports of the file: a report is its rows, between a known header and
\* the next header or blank line.
ReportRows(h) ==
  LET ends == {i \in h + 1..Len(read) : read[i].t \in {"header", "blank"}} IN
  {i \in h + 1..Min(ends \cup {Len(read) + 1}) - 1 : read[i].t = "row"}
Reports == {h \in Positions("header", Len(read)) : read[h].known}

\* Every report lists every device once.
Complete ==
  \A h \in Reports, d \in Devices : Cardinality({i \in ReportRows(h) : read[i].dev = d}) = 1

\* parse/iostat.go: "for a well-formed iostat file every device appears in
\* every sample": then sample n of a device is its row of report n, whatever
\* stands between the reports.
IostatBySecond ==
  kind = "iostat" /\ result.state = "data" /\ Complete =>
    \A d \in Devices, h \in Reports :
      LET n == Cardinality({g \in Reports : g <= h})
          row == CHOOSE i \in ReportRows(h) : read[i].dev = d
      IN /\ Len(result.data[d]) = Cardinality(Reports)
         /\ result.data[d][n] = [at |-> start + n - 1, v |-> read[row].v]
=============================================================================
