--------------------------- MODULE ArchiveExtract ---------------------------
(***************************************************************************)
(* extractArchive (cmd/my-gather/archive_input.go): one entry of a zip,    *)
(* tar or gzip file after the other is checked and written below the       *)
(* extraction directory, up to the first that is refused or fails.         *)
(***************************************************************************)
EXTENDS FileTree

CONSTANTS
  MaxFile,    \* maxArchiveFileBytes
  MaxTotal    \* maxArchiveExtractedBytes

ASSUME LimitAssumption == MaxFile \in Nat /\ MaxTotal \in Nat

\* An entry of an archive: what safeArchiveTarget makes of its name, the size
\* of its data, and what is damaged: nothing, the header, or the data from
\* byte good on.
Kinds == {"dir", "file", "other", "global"}
Entries == [kind : Kinds, safe : BOOLEAN, target : Paths, size : Nat, good : Nat,
            damage : {"none", "header", "data"}]

VARIABLES
  format,    \* archiveKind: "zip", "tar" (also inside gzip), or "gzip"
  archive,   \* its entries
  at,        \* the entry that is next
  written,   \* bytes written so far
  verdict,   \* "none", "extracting", "extracted", or the error's class
  fault      \* history: a call of the operating system has failed

extractVars == <<format, archive, at, written, verdict, fault>>
inputVars == <<format, archive>>

\* unsafeArchivePathError, archiveInputError, parse.SizeError,
\* archiveExtractedSizeError, and any other error.
Refusals == {"unsafe", "invalid", "fileSize", "totalSize", "internal"}

ExtractTypeOK ==
  /\ format \in {"none", "zip", "tar", "gzip"} /\ archive \in Seq(Entries)
  /\ at \in 1 .. Len(archive) + 1 /\ written \in Nat
  /\ verdict \in Refusals \cup {"none", "extracting", "extracted"} /\ fault \in BOOLEAN

ExtractInit ==
  /\ at = 1 /\ written = 0 /\ verdict = "none" /\ fault = FALSE

\* The archive is opened, or cannot be: no permission, no central directory,
\* no gzip header.
ExtractStart ==
  /\ \/ verdict' = "extracting" /\ UNCHANGED fault
     \/ verdict' = "invalid" /\ fault' = TRUE
  /\ UNCHANGED <<inputVars, at, written>>

Current == archive[at]

\* os.MkdirAll of a path none of whose parts is a file.
MkdirAll(p) == dirs' = dirs \cup Above(p) \cup {p}

Blocked(p) == (Above(p) \cup {p}) \cap Files # {}

\* The checks that need nothing but the entry.
Refusal(e) ==
  IF e.damage = "header" /\ format # "zip" THEN "invalid"
  ELSE IF ~e.safe THEN "unsafe"
  ELSE IF e.kind = "other" \/ (e.kind = "file" /\ e.target = Root) THEN "invalid"
  ELSE "none"

Fail(class) == verdict' = class

Running == verdict = "extracting" /\ at <= Len(archive)

RefuseEntry ==
  /\ Running
  /\ Refusal(Current) # "none"
  /\ Fail(Refusal(Current))
  /\ UNCHANGED <<dirs, content, inputVars, at, written, fault>>

\* pax headers of the archive as a whole.
SkipGlobalHeader ==
  /\ Running /\ Refusal(Current) = "none" /\ Current.kind = "global"
  /\ at' = at + 1
  /\ UNCHANGED <<dirs, content, inputVars, written, verdict, fault>>

MakeDirectory ==
  /\ Running /\ Refusal(Current) = "none" /\ Current.kind = "dir"
  /\ IF Blocked(Current.target)
     THEN Fail("internal") /\ UNCHANGED <<dirs, at>>
     ELSE MkdirAll(Current.target) /\ at' = at + 1 /\ UNCHANGED verdict
  /\ UNCHANGED <<content, inputVars, written, fault>>

WritesFile == Running /\ Refusal(Current) = "none" /\ Current.kind = "file"

\* O_EXCL.
CanCreate(p) == p \notin dirs \cup Files

\* The parent cannot be made, the file exists, or zip cannot open the entry.
CannotCreate ==
  /\ WritesFile
  /\ LET p == Current.target IN
     \/ /\ Blocked(Front(p))
        /\ Fail("internal")
        /\ UNCHANGED dirs
     \/ /\ ~Blocked(Front(p))
        /\ Current.damage = "header"
        /\ Fail("invalid")
        /\ MkdirAll(Front(p))
     \/ /\ ~Blocked(Front(p)) /\ Current.damage # "header"
        /\ ~CanCreate(p)
        /\ Fail("internal")
        /\ MkdirAll(Front(p))
  /\ UNCHANGED <<content, inputVars, at, written, fault>>

\* How much may be copied: the limit that is met first.
CopyLimit ==
  LET remaining == IF MaxTotal > written THEN MaxTotal - written ELSE 0
  IN  IF remaining < MaxFile THEN remaining ELSE MaxFile

\* Mutant of CopyBytes: LimitReader without the extra byte.
CopyBytesAtLimit == CopyLimit

\* io.LimitReader: one byte more shows an excess.
CopyBytes == CopyLimit + 1

Least(a, b) == IF a < b THEN a ELSE b

\* Mutant of CopyVerdict: ">=" instead of ">".
CopyVerdictAtLimit(n, failed) ==
  IF n >= MaxFile THEN "fileSize"
  ELSE IF written + n >= MaxTotal THEN "totalSize"
  ELSE IF ~failed THEN "extracting"
  ELSE IF format = "gzip" THEN "invalid" ELSE "internal"

\* What a copy of n bytes, that met an error or not, means.
CopyVerdict(n, failed) ==
  IF n > MaxFile THEN "fileSize"
  ELSE IF written + n > MaxTotal THEN "totalSize"
  ELSE IF ~failed THEN "extracting"
  ELSE IF format = "gzip" THEN "invalid" ELSE "internal"

Copied(n, failed) ==
  /\ MkdirAll(Front(Current.target))
  /\ content' = [p \in Files \cup {Current.target} |->
                   IF p = Current.target THEN n ELSE content[p]]
  /\ written' = written + n
  /\ verdict' = CopyVerdict(n, failed)
  /\ at' = IF verdict' = "extracting" THEN at + 1 ELSE at

Creates ==
  /\ WritesFile
  /\ ~Blocked(Front(Current.target)) /\ Current.damage # "header" /\ CanCreate(Current.target)

\* The bytes that can be had from the current entry.
Readable == IF Current.damage = "data" THEN Current.good ELSE Current.size

WriteFile ==
  /\ Creates
  /\ Copied(Least(Readable, CopyBytes), Current.damage = "data" /\ Readable <= CopyLimit)
  /\ UNCHANGED <<inputVars, fault>>

\* The operating system refuses: a directory, a file, or a write part way.
DiskFails ==
  /\ Running /\ Refusal(Current) = "none" /\ Current.kind \in {"dir", "file"}
  /\ fault' = TRUE
  /\ \/ /\ \E class \in {"internal", IF format = "gzip" THEN "invalid" ELSE "internal"} : Fail(class)
        /\ dirs' \in {dirs, IF Blocked(Current.target) THEN dirs ELSE dirs \cup Above(Current.target)}
        /\ UNCHANGED <<content, at, written>>
     \/ /\ Creates
        /\ \E n \in 0 .. Least(Readable, CopyLimit) : Copied(n, TRUE)
  /\ UNCHANGED inputVars

EndOfArchive ==
  /\ verdict = "extracting" /\ at > Len(archive)
  /\ verdict' = "extracted"
  /\ UNCHANGED <<dirs, content, inputVars, at, written, fault>>

ExtractNext ==
  \/ RefuseEntry \/ SkipGlobalHeader \/ MakeDirectory \/ CannotCreate
  \/ WriteFile \/ DiskFails \/ EndOfArchive
-----------------------------------------------------------------------------
\* A reference for the machine above: what is wrong with the archive's k-th
\* entry, from the archive alone, if nothing is wrong with those before it.
FilesBefore(k) == {archive[j].target : j \in {i \in 1 .. k - 1 : archive[i].kind = "file"}}

MadeBefore(k) ==
  UNION {Above(archive[j].target) \cup {archive[j].target} :
           j \in {i \in 1 .. k - 1 : archive[i].kind \in {"file", "dir"}}}

SizeOf(e) == IF e.kind = "file" THEN e.size ELSE 0

TotalBefore(k) ==
  LET total[n \in Nat] == IF n = 0 THEN 0 ELSE total[n - 1] + SizeOf(archive[n])
  IN  total[k - 1]

Damaged == IF format = "gzip" THEN "invalid" ELSE "internal"

DefectOfFile(e, k) ==
  LET bytes == IF e.damage = "data" THEN e.good ELSE e.size IN
  IF Above(e.target) \cap FilesBefore(k) # {} THEN "internal"
  ELSE IF e.damage = "header" THEN "invalid"
  ELSE IF e.target \in MadeBefore(k) THEN "internal"
  ELSE IF bytes > MaxFile /\ TotalBefore(k) + MaxFile <= MaxTotal THEN "fileSize"
  ELSE IF TotalBefore(k) + bytes > MaxTotal THEN "totalSize"
  ELSE IF e.damage = "data" THEN Damaged
  ELSE "none"

Defect(k) ==
  LET e == archive[k] IN
  IF Refusal(e) # "none" THEN Refusal(e)
  ELSE IF e.kind = "file" THEN DefectOfFile(e, k)
  ELSE IF e.kind = "dir" /\ (Above(e.target) \cup {e.target}) \cap FilesBefore(k) # {}
       THEN "internal"
  ELSE "none"

Defective == {k \in DOMAIN archive : Defect(k) # "none"}

\* An archive is refused for the first thing that is wrong in it, and for
\* nothing else: a later size excess does not mask an earlier unsafe name,
\* damage is not reported as an excess or the reverse, of two limits the one
\* that is met first is named, and a sound archive is extracted, unless the
\* operating system refused something.
FirstDefectDecides ==
  verdict \in Refusals \cup {"extracted"} /\ ~fault =>
    verdict = (IF Defective = {} THEN "extracted" ELSE Defect(Min(Defective)))

FileEntries == {k \in DOMAIN archive : archive[k].kind = "file"}

\* What is searched and parsed is the archive, the whole archive and nothing
\* but the archive: no entry is cut short or overwritten by a later one, and
\* the bytes that count towards the limit are those of its files.
ExtractedExactly ==
  verdict = "extracted" /\ dirs # {} =>
    /\ Files = {archive[k].target : k \in FileEntries}
    /\ \A k \in FileEntries : content[archive[k].target] = archive[k].size
    /\ \A j, k \in FileEntries : archive[j].target = archive[k].target => j = k
    /\ dirs = {Root} \cup (MadeBefore(Len(archive) + 1) \ Files)
    /\ written = TotalBefore(Len(archive) + 1)

\* An archive cannot fill the disk: whatever it claims, at most one byte more
\* than the limits is written, and only on the way to an error.
ExtractionBounded ==
  verdict # "none" =>
    /\ written <= MaxTotal + 1
    /\ \A p \in Files : content[p] <= MaxFile + 1
    /\ verdict \in {"extracting", "extracted"} =>
         written <= MaxTotal /\ \A p \in Files : content[p] <= MaxFile
=============================================================================
