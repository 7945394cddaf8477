------------------------------- MODULE CliRun -------------------------------
(***************************************************************************)
(* Runs of the my-gather command (cmd/my-gather/main.go) that write the    *)
(* same output path: guards, preparation of the input, rendering into a    *)
(* sibling temp file, and its installation.  The runs may overlap, other   *)
(* programs create and remove the output, every file operation may fail,   *)
(* and a run may be interrupted between any two of them.                   *)
(***************************************************************************)
EXTENDS Naturals, FiniteSets

CONSTANTS
  Runs,        \* invocations with an input and the same --out
  Overwrite,   \* those with --overwrite
  Archives,    \* those whose input is an archive
  Absent,      \* "no such file"
  Foreign      \* a file that no run wrote

ASSUME RunAssumption == Overwrite \subseteq Runs /\ Archives \subseteq Runs
ASSUME FileAssumption == {Absent, Foreign} \cap Runs = {} /\ Absent # Foreign

VARIABLES
  pc,            \* the operation each run does next
  code,          \* the exit code each run has settled on
  out,           \* the file at the output path; a run's own is named after it
  content,       \* how much of its own file each run has written
  temp,          \* runs whose temp name .<out>.tmp-* exists
  tempDir,       \* runs whose extraction directory exists
  installed,     \* history: runs whose file has been at the output path
  removeFailed,  \* history: runs that could not remove a temp file or directory
  removed        \* history: another program has removed the output

vars == <<pc, code, out, content, temp, tempDir, installed, removeFailed, removed>>

Codes == {0, 2, 3, 4, 5, 6, 7, 70}
Stages == {"start", "stat", "prepare", "extract", "discover", "create", "render", "install",
           "unlink", "discard", "leave", "exited", "killed"}

Init ==
  /\ pc = [r \in Runs |-> "start"]
  /\ code = [r \in Runs |-> 0]
  /\ out \in {Absent, Foreign}
  /\ content = [r \in Runs |-> "none"]
  /\ temp = {} /\ tempDir = {} /\ installed = {} /\ removeFailed = {}
  /\ removed = FALSE

Goto(r, stage) == pc' = [pc EXCEPT ![r] = stage] /\ UNCHANGED code

\* The run will exit with status after the operations of the stage.
Finish(r, stage, status) ==
  /\ pc' = [pc EXCEPT ![r] = stage]
  /\ code' = [code EXCEPT ![r] = status]
-----------------------------------------------------------------------------
\* Flags, arguments, paths, and the output-inside-input guard.
CheckArguments(r) ==
  /\ pc[r] = "start"
  /\ Goto(r, "stat") \/ \E status \in {2, 3, 7, 70} : Finish(r, "exited", status)
  /\ UNCHANGED <<out, content, temp, tempDir, installed, removeFailed, removed>>

\* The early check of the overwrite guard; the stat itself may fail.
StatOutput(r) ==
  /\ pc[r] = "stat"
  /\ \/ IF out # Absent /\ r \notin Overwrite
        THEN Finish(r, "exited", 6)
        ELSE Goto(r, "prepare")
     \/ Finish(r, "exited", 70)
  /\ UNCHANGED <<out, content, temp, tempDir, installed, removeFailed, removed>>

\* What an error of prepareInput or parse.Discover is mapped to.
InputErrors == {3, 4, 5, 70}

\* prepareInput: a directory is searched for its root; an archive gets a
\* directory to be extracted to.
PrepareInput(r) ==
  /\ pc[r] = "prepare"
  /\ \/ r \notin Archives /\ Goto(r, "discover") /\ UNCHANGED tempDir
     \/ r \in Archives /\ Goto(r, "extract") /\ tempDir' = tempDir \cup {r}
     \/ (\E status \in InputErrors : Finish(r, "exited", status)) /\ UNCHANGED tempDir
  /\ UNCHANGED <<out, content, temp, installed, removeFailed, removed>>

\* extractArchive and the search for the root, then parse.Discover.
ReadInput(r) ==
  /\ pc[r] \in {"extract", "discover"}
  /\ \/ Goto(r, IF pc[r] = "extract" THEN "discover" ELSE "create")
     \/ \E status \in InputErrors : Finish(r, "leave", status)
  /\ UNCHANGED <<out, content, temp, tempDir, installed, removeFailed, removed>>
-----------------------------------------------------------------------------

CreateTemp(r) ==
  /\ pc[r] = "create"
  /\ \/ /\ Goto(r, "render")
        /\ temp' = temp \cup {r}
        /\ content' = [content EXCEPT ![r] = "partial"]
     \/ Finish(r, "leave", 70) /\ UNCHANGED <<temp, content>>
  /\ UNCHANGED <<out, tempDir, installed, removeFailed, removed>>

\* What the Go runtime exits with after a panic, once the deferred calls are done.
PanicStatus == 2

\* Render, Sync and Close; one of them may fail, with the file half written.
\* Render may also panic (see NeverPanics of Report): of the deferred calls
\* one closes the temp file, and run's removes the extraction directory, but
\* the temp file's own cleanup is called on an error only.
RenderReport(r) ==
  /\ pc[r] = "render"
  /\ \/ Goto(r, "install") /\ content' = [content EXCEPT ![r] = "complete"]
     \/ Finish(r, "discard", 70) /\ UNCHANGED content
     \/ Finish(r, "leave", PanicStatus) /\ UNCHANGED content
  /\ UNCHANGED <<out, temp, tempDir, installed, removeFailed, removed>>

Rename(r) ==
  /\ out' = r
  /\ installed' = installed \cup {r}
  /\ temp' = temp \ {r}

\* Mutant of Install: "check, then rename" instead of link.
InstallByRename(r) ==
  /\ pc[r] = "install"
  /\ Rename(r)
  /\ Finish(r, "leave", 0)
  /\ UNCHANGED <<content, tempDir, removeFailed, removed>>

\* installRenderedFile up to the temp file's removal: rename replaces, link
\* refuses to.
Install(r) ==
  /\ pc[r] = "install"
  /\ \/ r \in Overwrite /\ Rename(r) /\ Finish(r, "leave", 0)
     \/ /\ r \notin Overwrite /\ out = Absent
        /\ out' = r
        /\ installed' = installed \cup {r}
        /\ Goto(r, "unlink")
        /\ UNCHANGED temp
     \/ /\ r \notin Overwrite /\ out # Absent
        /\ Finish(r, "discard", 6)
        /\ UNCHANGED <<out, installed, temp>>
     \/ Finish(r, "discard", 70) /\ UNCHANGED <<out, installed, temp>>
  /\ UNCHANGED <<content, tempDir, removeFailed, removed>>

\* What os.Remove after a successful link makes of the run.
LinkedStatus(ok) == IF ok THEN 0 ELSE 70

\* os.Remove of the temp name, when the report is linked and when it is given
\* up; the former's failure is an error, the latter's is ignored.
RemoveTemp(r) ==
  /\ pc[r] \in {"unlink", "discard"}
  /\ \E ok \in BOOLEAN :
       /\ temp' = IF ok THEN temp \ {r} ELSE temp
       /\ removeFailed' = IF ok THEN removeFailed ELSE removeFailed \cup {r}
       /\ IF pc[r] = "unlink" THEN Finish(r, "leave", LinkedStatus(ok)) ELSE Goto(r, "leave")
  /\ UNCHANGED <<out, content, tempDir, installed, removed>>

\* Mutant of Extracted: cleanup is called by prepareInput's caller only on
\* success.
ExtractedOnSuccess(r) == r \in tempDir /\ code[r] = 0

\* The run has an extraction directory to remove.
Extracted(r) == r \in tempDir

\* The cleanup of prepareInput, called on its error or deferred by run.
Leave(r) ==
  /\ pc[r] = "leave"
  /\ Goto(r, "exited")
  /\ \/ tempDir' = (IF Extracted(r) THEN tempDir \ {r} ELSE tempDir) /\ UNCHANGED removeFailed
     \/ Extracted(r) /\ UNCHANGED tempDir /\ removeFailed' = removeFailed \cup {r}
  /\ UNCHANGED <<out, content, temp, installed, removed>>
-----------------------------------------------------------------------------
\* SIGINT, SIGTERM or SIGKILL: no handler is installed, no deferred call runs.
Interrupt(r) ==
  /\ pc[r] \notin {"exited", "killed"}
  /\ Goto(r, "killed")
  /\ UNCHANGED <<out, content, temp, tempDir, installed, removeFailed, removed>>

\* Another program creates or removes a file at the output path.
OtherProgram ==
  /\ \/ out = Absent /\ out' = Foreign /\ UNCHANGED removed
     \/ out # Absent /\ out' = Absent /\ removed' = TRUE
  /\ UNCHANGED <<pc, code, content, temp, tempDir, installed, removeFailed>>

Step(r) ==
  \/ CheckArguments(r) \/ StatOutput(r) \/ PrepareInput(r) \/ ReadInput(r)
  \/ CreateTemp(r) \/ RenderReport(r) \/ Install(r) \/ RemoveTemp(r) \/ Leave(r)
  \/ Interrupt(r)

Next == OtherProgram \/ \E r \in Runs : Step(r)

Spec == Init /\ [][Next]_vars
-----------------------------------------------------------------------------
\* Every variable stays in its domain.
TypeOK ==
  /\ pc \in [Runs -> Stages]
  /\ code \in [Runs -> Codes]
  /\ out \in Runs \cup {Absent, Foreign}
  /\ content \in [Runs -> {"none", "partial", "complete"}]
  /\ temp \in SUBSET Runs /\ tempDir \in SUBSET Archives
  /\ installed \in SUBSET Runs /\ removeFailed \in SUBSET Runs
  /\ removed \in BOOLEAN

\* Nobody ever sees half a report at the output path, wherever a run fails
\* or is interrupted.
OutputComplete == out \in Runs => content[out] = "complete"

\* FR-002: a run without --overwrite replaces no file, not even one that
\* another run or program put there after its early check.
ExistingOutputKept ==
  [][out # Absent /\ out' \notin {out, Absent} => out' \in Overwrite]_vars

\* Of overlapping runs without --overwrite one at most gets its report
\* installed, unless the output was removed in between.
OneCreator ==
  ~removed => \A p, q \in installed \ Overwrite : p = q

\* The exit code tells whether the run's report was installed, except that a
\* report is there despite code 70 when its temp name could not be removed.
ExitCodeTells ==
  \A r \in Runs : pc[r] = "exited" =>
    /\ code[r] = 0 => r \in installed
    /\ r \in installed => code[r] = 0 \/ (code[r] = 70 /\ r \in removeFailed)

\* A run that exits has removed its temp file and its extraction directory,
\* whatever failed, or tried to; only a panic in Render leaves the temp file, and
\* then the run has not succeeded but exits with the runtime's own code.
ExitCleansUp ==
  \A r \in Runs \ removeFailed : pc[r] = "exited" =>
    /\ r \notin tempDir
    /\ r \in temp => code[r] = PanicStatus /\ r \notin installed
-----------------------------------------------------------------------------
\* Who looks at the output path or at the exit status sees no more than this:
\* half a report would be Foreign there, whoever wrote it.
Seen == IF out \in Runs /\ content[out] # "complete" THEN Foreign ELSE out

AnswerOf(r) ==
  IF pc[r] = "killed" THEN "killed"
  ELSE IF pc[r] # "exited" THEN "none"
  ELSE IF code[r] = 0 THEN "success"
  ELSE IF r \in installed /\ r \in removeFailed THEN "leftover"
  ELSE "failure"

Output ==
  INSTANCE AtomicOutput WITH file <- Seen, published <- installed, answer <- [r \in Runs |-> AnswerOf(r)]

\* writeAtomic, installRenderedFile and run: however the runs overlap, fail and
\* are interrupted, the output path changes to a run's report in one step, which
\* replaces no file without --overwrite (FR-002), and the exit code tells whether
\* the report was installed.
ImplementsAtomicOutput == Output!Spec
=============================================================================
