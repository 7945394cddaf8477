---------------------------- MODULE PrepareInput ----------------------------
(***************************************************************************)
(* prepareInput (cmd/my-gather/archive_input.go) and the exit codes that   *)
(* run makes of its errors: a directory is searched for the one collection *)
(* in it; an archive is extracted into a temporary directory, and that is  *)
(* searched instead, without a bound on the depth and in hidden            *)
(* directories too.                                                        *)
(***************************************************************************)
EXTENDS ArchiveExtract, RootSearch

CONSTANTS
  MaxDepth,     \* DefaultMaxRootSearchDepth
  Unlimited,    \* UnlimitedRootSearchDepth
  MaxEntries,   \* DefaultMaxRootSearchEntries
  Trees,        \* input directories: [dirs, content, unreadable]
  Archives      \* input archives: [format, entries]

ASSUME OptionAssumption == {MaxDepth, Unlimited, MaxEntries} \subseteq Nat

\* An input directory is a tree, and finite; the names of an archive's entries
\* are shorter than the depth that stands for "unlimited" (math.MaxInt32).
ASSUME InputAssumption ==
  /\ \A t \in Trees :
       /\ IsFiniteSet(t.dirs) /\ IsFiniteSet(DOMAIN t.content)
       /\ t.dirs \subseteq Paths /\ Root \in t.dirs /\ t.unreadable \subseteq t.dirs
       /\ DOMAIN t.content \subseteq Paths \ t.dirs /\ t.content \in [DOMAIN t.content -> Nat]
       /\ \A p \in t.dirs \cup DOMAIN t.content : Above(p) \subseteq t.dirs
  /\ \A a \in Archives :
       /\ a.format \in {"zip", "tar", "gzip"}
       /\ a.entries \in Seq(Entries)
       /\ \A k \in DOMAIN a.entries : Len(a.entries[k].target) <= Unlimited

VARIABLES
  stage,   \* "stat", "extract", "search", "ready" or "failed"
  code     \* the exit code of a failure

vars == <<dirs, content, extractVars, searchVars, stage, code>>

IsArchive == format # "none"

NoFiles == [p \in {} |-> 0]

Init ==
  /\ stage = "stat" /\ code = 0
  /\ ExtractInit /\ SearchInit
  /\ opts = [depth |-> 0, entries |-> 0, hidden |-> FALSE]
  /\ \/ \E t \in Trees :
          /\ dirs = t.dirs /\ content = t.content /\ unreadable = t.unreadable
          /\ format = "none" /\ archive = <<>>
     \/ \E a \in Archives :
          /\ dirs = {} /\ content = NoFiles /\ unreadable = {}
          /\ format = a.format /\ archive = a.entries

\* mapInputPreparationError and mapDiscoverError.
CodeOf(error) ==
  CASE error \in {"unsafe", "invalid", "pathError"} -> 3
    [] error \in {"notAPtStalkDir", "multipleRoots"} -> 4
    [] error \in {"fileSize", "totalSize"} -> 5
    [] OTHER -> 70

Exit(error) ==
  /\ stage' = "failed"
  /\ code' = CodeOf(error)

\* cleanup: the extraction directory goes, an input directory does not.
Cleanup ==
  IF IsArchive THEN dirs' = {} /\ content' = NoFiles ELSE UNCHANGED <<dirs, content>>

\* The input is not there (or is gone when the walk resolves it), is something
\* else or has another extension; or the temporary directory cannot be made.
CannotBegin ==
  /\ stage = "stat"
  /\ \E error \in {"pathError"} \cup (IF IsArchive THEN {"internal"} ELSE {}) : Exit(error)
  /\ UNCHANGED <<dirs, content, extractVars, searchVars>>

BeginDirectory ==
  /\ stage = "stat" /\ ~IsArchive
  /\ stage' = "search"
  /\ SearchStart([depth |-> MaxDepth, entries |-> MaxEntries, hidden |-> FALSE])
  /\ UNCHANGED <<dirs, content, extractVars, code>>

BeginArchive ==
  /\ stage = "stat" /\ IsArchive
  /\ stage' = "extract"
  /\ dirs' = {Root}
  /\ ExtractStart
  /\ UNCHANGED <<content, searchVars, code>>

ExtractStep ==
  /\ stage = "extract"
  /\ ExtractNext
  /\ UNCHANGED <<searchVars, stage, code>>

ExtractionFails ==
  /\ stage = "extract" /\ verdict \in Refusals
  /\ Cleanup
  /\ Exit(verdict)
  /\ UNCHANGED <<extractVars, searchVars>>

\* Mutant of ArchiveOptions: those of a directory input.
ArchiveOptionsAsDirectory == [depth |-> MaxDepth, entries |-> MaxEntries, hidden |-> FALSE]

ArchiveOptions == [depth |-> Unlimited, entries |-> MaxEntries, hidden |-> TRUE]

SearchArchive ==
  /\ stage = "extract" /\ verdict = "extracted"
  /\ stage' = "search"
  /\ SearchStart(ArchiveOptions)
  /\ UNCHANGED <<dirs, content, extractVars, code>>

SearchStep ==
  /\ stage = "search"
  /\ SearchNext
  /\ UNCHANGED <<dirs, content, extractVars, stage, code>>

SearchFails ==
  /\ stage = "search" /\ found \in Answers \ {"root"}
  /\ Cleanup
  /\ Exit(found)
  /\ UNCHANGED <<extractVars, searchVars>>

SearchSucceeds ==
  /\ stage = "search" /\ found = "root"
  /\ stage' = "ready"
  /\ UNCHANGED <<dirs, content, extractVars, searchVars, code>>

Next ==
  \/ CannotBegin \/ BeginDirectory
  \/ BeginArchive \/ ExtractStep \/ ExtractionFails \/ SearchArchive
  \/ SearchStep \/ SearchFails \/ SearchSucceeds

Spec == Init /\ [][Next]_vars
-----------------------------------------------------------------------------
\* Every variable stays in its domain, and the tree is one.
TypeOK ==
  /\ TreeOK /\ ExtractTypeOK /\ SearchTypeOK
  /\ stage \in {"stat", "extract", "search", "ready", "failed"}
  /\ code \in {0, 3, 4, 5, 70} /\ (code # 0 <=> stage = "failed")

\* The directories of an archive that hold a file recognised as a signal.
CollectionsOfArchive ==
  {Front(archive[k].target) : k \in {i \in FileEntries : Last(archive[i].target) \in Signals}}

\* spec 008: an archive is accepted for the one collection packed in it,
\* however deep or hidden, with all of its files, and refused with code 4
\* for none or several of them, as long as the cap on entries is not reached.
ArchiveByItsCollection ==
  IsArchive /\ flickered = {} /\ entries < opts.entries =>
    /\ stage = "ready" => roots = CollectionsOfArchive
    /\ code = 4 => Cardinality(CollectionsOfArchive) # 1
=============================================================================
