------------------------------ MODULE Discover ------------------------------
(***************************************************************************)
(* parse.Discover: one pass over a directory finds the files of a pt-stalk  *)
(* collection, groups them into snapshots, loads the environment sidecars   *)
(* and parses every collector's file.  The directory belongs to someone     *)
(* else: files may disappear between the passes, and the caller may cancel. *)
(***************************************************************************)
EXTENDS Payloads

CONSTANTS
  Names,          \* what a directory may hold, in the order of os.ReadDir
  Directories,    \* the directories of this instance: functions on positions of Names
  KnownSuffixes,  \* the collectors, in the order they are parsed
  Sidecars,       \* envSidecarSuffixes
  MaxFileBytes,
  MaxLost         \* bound: how many files vanish

\* A name is [prefix, date, suffix]: a prefix 0 stands for a name without the form
\* of a timestamp, and date tells whether a prefix of that form is a date.  A file
\* is [size, readable, text, says, known, data, diags, envDiags]: its size; whether it
\* can be opened; the kind of its text ("empty", "blank", "full"), and what it says as a
\* sidecar; whether DetectFormat knows it; the payload its collector's parser makes of
\* it, with which diagnostics; and those of ParseEnvMeminfo.

\* The diagnostics that a parser gives to a file are severities.
Severities == {"info", "warning", "error"}

ASSUME DiscoverAssumption ==
  /\ Names \in Seq([prefix : Nat, date : BOOLEAN, suffix : STRING])
  /\ \A i, j \in DOMAIN Names :
       i < j /\ Names[i].prefix # 0 /\ Names[j].prefix # 0 => Names[i].prefix <= Names[j].prefix
  /\ IsInjective(Names)
  /\ KnownSuffixes \in Seq(STRING) /\ IsInjective(KnownSuffixes)
  /\ Sidecars \in Seq(STRING)
  /\ \A d \in Directories :
       /\ DOMAIN d \subseteq DOMAIN Names
       /\ \A i \in DOMAIN d : d[i].diags \in Seq(Severities) /\ d[i].envDiags \in Seq(Severities)

VARIABLES
  dir,        \* the files that are there, by position in Names
  lost,       \* how many have vanished
  cancelled,  \* ctx is done
  phase,      \* "scan", "group", "sidecars", "parse", "done", "failed"
  todo,       \* what the phase has left, in order
  matches,    \* snapshotMatches: positions in Names
  summary,    \* summaryPresent
  found,      \* the collection: hostname, total, snapshots, sidecars, files
  mirrored,   \* diagnostics given to the sink, in order
  error       \* why Discover failed

discoverVars == <<dir, lost, cancelled, phase, todo, matches, summary, found, mirrored, error>>

Dated(i) == Names[i].prefix # 0 /\ Names[i].date
Summaries == {i \in DOMAIN Names : Names[i].suffix \in {"pt-summary.out", "pt-mysql-summary.out"}}

NoSnapshots == <<>>
NoCollection ==
  [hostname |-> "", total |-> 0, snapshots |-> NoSnapshots,
   sidecars |-> [s \in {} |-> 0], diagnostics |-> <<>>, files |-> [i \in {} |-> 0]]

Init ==
  /\ dir \in Directories
  /\ lost = 0
  /\ cancelled = FALSE
  /\ phase = "scan"
  /\ todo = SelectSeq([i \in DOMAIN Names |-> i], LAMBDA i : i \in DOMAIN dir)
  /\ matches = <<>>
  /\ summary = FALSE
  /\ found = NoCollection
  /\ mirrored = <<>>
  /\ error = ""

\* The caller's context is done; Discover notices at its next check.
Cancel ==
  /\ ~cancelled /\ phase \notin {"done", "failed"}
  /\ cancelled' = TRUE
  /\ UNCHANGED <<dir, lost, phase, todo, matches, summary, found, mirrored, error>>

\* Someone removes a file.
Vanish ==
  /\ lost < MaxLost /\ phase \notin {"done", "failed"}
  /\ \E i \in DOMAIN dir : dir' = [j \in DOMAIN dir \ {i} |-> dir[j]]
  /\ lost' = lost + 1
  /\ UNCHANGED <<cancelled, phase, todo, matches, summary, found, mirrored, error>>

Fail(why) ==
  /\ phase' = "failed"
  /\ error' = why
  /\ found' = NoCollection
  /\ UNCHANGED <<dir, lost, cancelled, todo, matches, summary, mirrored>>

\* One entry of the first pass.
ScanEntry ==
  /\ phase = "scan" /\ todo # <<>>
  /\ LET i == Head(todo) IN
     \/ cancelled /\ Fail("cancelled")
     \/ ~cancelled /\ i \notin DOMAIN dir /\ Fail("path")
     \/ /\ ~cancelled /\ i \in DOMAIN dir
        /\ IF (Names[i].prefix # 0 \/ i \in Summaries) /\ dir[i].size > MaxFileBytes
           THEN Fail("size")
           ELSE /\ todo' = Tail(todo)
                /\ matches' = IF Dated(i) THEN Append(matches, i) ELSE matches
                /\ summary' = (summary \/ i \in Summaries)
                /\ found' = [found EXCEPT !.total = @ + dir[i].size]
                /\ UNCHANGED <<dir, lost, cancelled, phase, mirrored, error>>

\* readHostnameFrom: the first line of the earliest hostname file with one; a
\* file that cannot be read ends the search.
readHostnameFrom ==
  LET hosts == SelectSeq(matches, LAMBDA i : Names[i].suffix = "hostname")
      opened(i) == i \in DOMAIN dir /\ dir[i].readable
      ends == {n \in DOMAIN hosts : ~opened(hosts[n]) \/ dir[hosts[n]].text = "full"}
  IN IF ends = {} \/ ~opened(hosts[Min(ends \cup {Len(hosts)})]) THEN "" ELSE dir[hosts[Min(ends)]].says.first

\* The collectors' files, and the snapshots: the prefixes that have one, or else
\* the earliest prefix there is, or else the placeholder 0.
Collectors == {i \in ToSet(matches) : Names[i].suffix \in ToSet(KnownSuffixes)}
PrefixesOf(S) == {Names[i].prefix : i \in S}
SnapshotsOf ==
  IF Collectors # {} THEN Ascending(PrefixesOf(Collectors))
  ELSE IF matches # <<>> THEN <<Min(PrefixesOf(ToSet(matches)))>>
  ELSE <<0>>

\* A SourceFile before its parser runs.
NotParsed(i) == [path |-> i, status |-> "failed", parsed |-> <<>>, diags |-> <<>>, ran |-> FALSE]

\* No more entries: not a collection, or its snapshots.
Group ==
  /\ phase = "scan" /\ todo = <<>>
  /\ IF matches = <<>> /\ ~summary THEN Fail("not a pt-stalk directory")
     ELSE /\ phase' = "sidecars"
          /\ todo' = Sidecars
          /\ found' = [found EXCEPT !.hostname = readHostnameFrom,
                                    !.snapshots = SnapshotsOf,
                                    !.files = [i \in Collectors |-> NotParsed(i)]]
          /\ UNCHANGED <<dir, lost, cancelled, matches, summary, mirrored, error>>

\* The files "*-suffix" of the root; those without a date are passed over.
Candidates(suffix) == {i \in DOMAIN dir : Names[i].suffix = suffix /\ Dated(i)}
Usable(i) == dir[i].readable /\ dir[i].text # "empty"

\* The first that can be used, beginning with the newest.
Newest(files) == CHOOSE i \in files : \A j \in files : Names[j].prefix <= Names[i].prefix

SidecarWarning == "fell back"

\* Mutant of PassedOver: no fallback is reported.
NonePassedOver(files, i) == FALSE

\* Newer files were empty or unreadable.
PassedOver(files, i) == \E j \in files : Names[j].prefix > Names[i].prefix

\* The diagnostics, about the file they are of.
About(i, diags) == [n \in DOMAIN diags |-> [file |-> i, what |-> diags[n]]]

\* The files in the order of their parsers: snapshots, then KnownSuffixes.
FilesOf(time, s) == {i \in DOMAIN found.files : Names[i].prefix = time /\ Names[i].suffix = s}
ParsedBefore(i, j) ==
  \/ Names[i].prefix < Names[j].prefix
  \/ /\ Names[i].prefix = Names[j].prefix
     /\ \E m, n \in DOMAIN KnownSuffixes :
          m < n /\ KnownSuffixes[m] = Names[i].suffix /\ KnownSuffixes[n] = Names[j].suffix
ParseOrder ==
  LET files == {i \in DOMAIN found.files : Names[i].prefix \in ToSet(found.snapshots)}
  IN InOrder(files, {p \in files \X files : ParsedBefore(p[1], p[2])})

\* What loadEnvSidecars has to say of the sidecar it takes from some files.
SidecarDiags(suffix, files, i) ==
  (IF suffix = "meminfo" THEN dir[i].envDiags ELSE <<>>)
    \o (IF PassedOver(files, i) THEN <<SidecarWarning>> ELSE <<>>)

\* loadEnvSidecars for one suffix; after the last, all its diagnostics go to the sink.
LoadSidecar ==
  /\ phase = "sidecars" /\ todo # <<>>
  /\ LET suffix == Head(todo)
         files == Candidates(suffix)
         usable == {i \in files : Usable(i)}
         i == Newest(usable)
     IN IF usable = {} THEN UNCHANGED found
        ELSE found' = [found EXCEPT
               !.sidecars = [s \in DOMAIN @ \cup {suffix} |->
                               IF s = suffix THEN [path |-> i, says |-> dir[i].says] ELSE @[s]],
               !.diagnostics = @ \o About(i, SidecarDiags(suffix, files, i))]
  /\ todo' = Tail(todo)
  /\ UNCHANGED <<dir, lost, cancelled, phase, matches, summary, mirrored, error>>

SidecarsLoaded ==
  /\ phase = "sidecars" /\ todo = <<>>
  /\ phase' = "parse"
  /\ todo' = ParseOrder
  /\ mirrored' = mirrored \o found.diagnostics
  /\ UNCHANGED <<dir, lost, cancelled, matches, summary, found, error>>

\* Mutant of StatusOf: a file of no known format counts like one without diagnostics.
StatusOfDiagnostics(f) ==
  IF \E n \in DOMAIN f.diags : f.diags[n] \in {"warning", "error"} THEN "partial" ELSE "ok"

\* runOneParser, where the file can be opened: a parser's answer is never the nil
\* interface, so that a file without data counts like one with.
StatusOf(f) ==
  IF ~f.known THEN "unsupported"
  ELSE IF \E n \in DOMAIN f.diags : f.diags[n] \in {"warning", "error"} THEN "partial" ELSE "ok"

DiagsOf(f) == IF f.known THEN f.diags ELSE <<"warning">>

\* Mutant of Mirrors: a file that cannot be opened is reported on its SourceFile alone.
MirrorsUnlessClosed(i, diags) == IF i \in DOMAIN dir /\ dir[i].readable THEN diags ELSE <<>>

\* What the sink hears of a file's diagnostics.
Mirrors(i, diags) == diags

\* What runOneParser makes of a file of the listing.
Parsed(i) ==
  IF i \in DOMAIN dir /\ dir[i].readable
  THEN [path |-> i, diags |-> About(i, DiagsOf(dir[i])), ran |-> TRUE,
        status |-> StatusOf(dir[i]), parsed |-> IF dir[i].known THEN <<dir[i].data>> ELSE <<>>]
  ELSE [path |-> i, diags |-> About(i, <<"error">>), ran |-> TRUE,
        status |-> "failed", parsed |-> <<>>]

\* The next file of runParsers.
ParseFile ==
  /\ phase = "parse" /\ todo # <<>>
  /\ IF cancelled THEN Fail("cancelled")
     ELSE LET i == Head(todo) IN
          /\ found' = [found EXCEPT !.files[i] = Parsed(i)]
          /\ mirrored' = mirrored \o Mirrors(i, Parsed(i).diags)
          /\ todo' = Tail(todo)
          /\ UNCHANGED <<dir, lost, cancelled, phase, matches, summary, error>>

Return ==
  /\ phase = "parse" /\ todo = <<>>
  /\ phase' = "done"
  /\ UNCHANGED <<dir, lost, cancelled, todo, matches, summary, found, mirrored, error>>

Next == ScanEntry \/ Group \/ LoadSidecar \/ SidecarsLoaded \/ ParseFile \/ Return \/ Cancel \/ Vanish
Spec == Init /\ [][Next]_discoverVars
-----------------------------------------------------------------------------
\* Everything recorded, with the file it is about: the sidecars, then the files.
Recorded ==
  LET order == ParseOrder
      upTo[n \in Nat] == IF n = 0 THEN found.diagnostics ELSE upTo[n - 1] \o found.files[order[n]].diags
  IN upTo[Len(order)]

\* parse/parse.go, DiagnosticSink: whatever fails or vanishes on the way, the
\* sink has heard of every diagnostic of a returned collection, each exactly
\* once, and of none it does not have.
EverythingMirrored == phase = "done" => mirrored = Recorded

\* parse.Discover: a collection that is returned is complete, also if the
\* caller cancelled late or files vanished: it has a snapshot, in time order,
\* and every collector's file of the listing has been through its parser.
NothingHalfParsed ==
  phase = "done" =>
    /\ found.snapshots # <<>>
    /\ \A m, n \in DOMAIN found.snapshots : m < n => found.snapshots[m] < found.snapshots[n]
    /\ \A i \in DOMAIN found.files :
         /\ found.files[i].ran
         /\ Names[i].prefix \in ToSet(found.snapshots)
         /\ found.files[i].parsed = <<>> <=> found.files[i].status \in {"failed", "unsupported"}
         /\ found.files[i].status # "ok" => found.files[i].diags # <<>>

\* loadEnvSidecars: a sidecar is the newest file of its suffix that can be used;
\* a file that is still there, newer and usable, was not passed over, and that
\* an older one was taken over a newer one is never silent.
NewestSidecar ==
  phase \in {"parse", "done"} =>
    \A s \in DOMAIN found.sidecars :
      LET chosen == found.sidecars[s].path
          newer == {i \in DOMAIN dir : /\ Names[i].suffix = s /\ Dated(i)
                                       /\ Names[i].prefix > Names[chosen].prefix}
      IN /\ \A i \in newer : ~Usable(i)
         /\ newer # {} => \E n \in DOMAIN mirrored : mirrored[n] = [file |-> chosen, what |-> SidecarWarning]
=============================================================================
