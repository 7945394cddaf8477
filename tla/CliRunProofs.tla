---------------------------- MODULE CliRunProofs ----------------------------
(***************************************************************************)
(* Proofs about CliRun, for any number of runs of each kind.               *)
(***************************************************************************)
EXTENDS CliRun, TLAPS

USE RunAssumption, FileAssumption

LEMMA TypeInit == Init => TypeOK
  BY DEF Init, TypeOK, Stages, Codes

\* A step of a run keeps the domains; one named step per stage.
LEMMA StepTyped ==
  ASSUME TypeOK, NEW r \in Runs, Step(r)
  PROVE  TypeOK'
<1>1. ASSUME CheckArguments(r) \/ StatOutput(r) \/ ReadInput(r) \/ Interrupt(r) PROVE TypeOK'
  BY <1>1 DEF TypeOK, Stages, Codes, Goto, Finish, CheckArguments, StatOutput, ReadInput,
     InputErrors, Interrupt
<1>2. CASE PrepareInput(r)
  BY <1>2 DEF TypeOK, Stages, Codes, Goto, Finish, PrepareInput, InputErrors
<1>3. CASE CreateTemp(r) \/ RenderReport(r)
  BY <1>3 DEF TypeOK, Stages, Codes, Goto, Finish, CreateTemp, RenderReport, PanicStatus
<1>4. CASE Install(r)
  BY <1>4 DEF TypeOK, Stages, Codes, Goto, Finish, Install, Rename
<1>5. CASE RemoveTemp(r)
  BY <1>5 DEF TypeOK, Stages, Codes, Goto, Finish, RemoveTemp, LinkedStatus
<1>6. CASE Leave(r)
  BY <1>6 DEF TypeOK, Stages, Codes, Goto, Leave, Extracted
<1> QED
  BY <1>1, <1>2, <1>3, <1>4, <1>5, <1>6 DEF Step

LEMMA TypeStep == TypeOK /\ [Next]_vars => TypeOK'
<1> SUFFICES ASSUME TypeOK, [Next]_vars PROVE TypeOK'
  OBVIOUS
<1>1. CASE OtherProgram
  BY <1>1 DEF TypeOK, OtherProgram
<1>2. CASE UNCHANGED vars
  BY <1>2 DEF TypeOK, vars
<1> QED
  BY <1>1, <1>2, StepTyped DEF Next

\* Every variable stays in its domain: in particular a run exits with a
\* documented code and only archives are extracted.
THEOREM TypeCorrect == Spec => []TypeOK
<1> QED
  BY TypeInit, TypeStep, PTL DEF Spec
-----------------------------------------------------------------------------
(* The inductive invariant: what each stage of a run has done by then.     *)

\* The report is complete before its file can be at the output path.
Rendered ==
  /\ \A r \in Runs : pc[r] \in {"install", "unlink"} => content[r] = "complete"
  /\ \A r \in installed : content[r] = "complete"
  /\ out \in Runs => out \in installed

\* A run that has installed its report is past Install, and its code says so.
Told ==
  \A r \in Runs :
    /\ r \in installed => pc[r] \in {"unlink", "leave", "exited", "killed"}
    /\ pc[r] = "unlink" => r \in installed
    /\ pc[r] = "discard" => code[r] # 0
    /\ pc[r] \in {"leave", "exited"} =>
         /\ code[r] = 0 => r \in installed
         /\ r \in installed => code[r] = 0 \/ (code[r] = 70 /\ r \in removeFailed)

\* A temp file and an extraction directory exist only between their creation
\* and removal, but for the temp file of a run that panicked.
Tidy ==
  \A r \in Runs \ removeFailed :
    /\ r \in temp =>
         \/ pc[r] \in {"render", "install", "unlink", "discard", "killed"}
         \/ pc[r] \in {"leave", "exited"} /\ code[r] = PanicStatus
    /\ r \in tempDir => pc[r] \notin {"start", "stat", "prepare", "exited"}

\* While nobody removes the output, an installed report keeps the path taken.
Taken ==
  ~removed =>
    /\ installed # {} => out # Absent
    /\ \A p, q \in installed \ Overwrite : p = q

RunInv == Rendered /\ Told /\ Tidy /\ Taken

LEMMA InvInit == Init => RunInv
  BY DEF Init, RunInv, Rendered, Told, Tidy, Taken

\* The operations that only move a run on or settle its code.
LEMMA QuietStep ==
  ASSUME TypeOK, RunInv, NEW r \in Runs,
         CheckArguments(r) \/ StatOutput(r) \/ ReadInput(r) \/ Interrupt(r)
  PROVE  RunInv'
<1>1. Rendered'
  BY DEF TypeOK, RunInv, Rendered, Goto, Finish, CheckArguments, StatOutput, ReadInput,
     InputErrors, Interrupt
<1>2. Told'
  BY DEF TypeOK, RunInv, Told, Goto, Finish, CheckArguments, StatOutput, ReadInput,
     InputErrors, Interrupt
<1>3. Tidy'
  BY DEF TypeOK, RunInv, Tidy, Goto, Finish, CheckArguments, StatOutput, ReadInput,
     InputErrors, Interrupt
<1>4. Taken'
  BY DEF RunInv, Taken, CheckArguments, StatOutput, ReadInput, Interrupt
<1> QED
  BY <1>1, <1>2, <1>3, <1>4 DEF RunInv

\* Preparing the input and rendering touch files, not the output.
LEMMA WorkStep ==
  ASSUME TypeOK, RunInv, NEW r \in Runs,
         PrepareInput(r) \/ CreateTemp(r) \/ RenderReport(r)
  PROVE  RunInv'
<1>1. Rendered'
  BY DEF TypeOK, RunInv, Rendered, Told, Goto, Finish, PrepareInput, InputErrors,
     CreateTemp, RenderReport
<1>2. Told'
  BY DEF TypeOK, RunInv, Told, Goto, Finish, PrepareInput, InputErrors,
     CreateTemp, RenderReport, PanicStatus
<1>3. Tidy'
  BY DEF TypeOK, RunInv, Tidy, Goto, Finish, PrepareInput, InputErrors,
     CreateTemp, RenderReport
<1>4. Taken'
  BY DEF RunInv, Taken, PrepareInput, CreateTemp, RenderReport
<1> QED
  BY <1>1, <1>2, <1>3, <1>4 DEF RunInv

\* A link succeeds only while the path is free, so nothing is installed yet
\* or the output was removed.
LEMMA InstallStep ==
  ASSUME TypeOK, RunInv, NEW r \in Runs, Install(r)
  PROVE  RunInv'
<1>1. Rendered'
  BY DEF TypeOK, RunInv, Rendered, Goto, Finish, Install, Rename
<1>2. Told'
  BY DEF TypeOK, RunInv, Told, Goto, Finish, Install, Rename
<1>3. Tidy'
  BY DEF TypeOK, RunInv, Tidy, Goto, Finish, Install, Rename
<1>4. Taken'
  BY DEF TypeOK, RunInv, Taken, Install, Rename
<1> QED
  BY <1>1, <1>2, <1>3, <1>4 DEF RunInv

LEMMA RemoveStep ==
  ASSUME TypeOK, RunInv, NEW r \in Runs, RemoveTemp(r) \/ Leave(r)
  PROVE  RunInv'
<1>1. Rendered'
  BY DEF TypeOK, RunInv, Rendered, Goto, Finish, RemoveTemp, Leave
<1>2. CASE RemoveTemp(r)
  <2>1. Told'
    BY <1>2 DEF TypeOK, RunInv, Told, Goto, Finish, RemoveTemp, LinkedStatus
  <2>2. Tidy'
    BY <1>2 DEF TypeOK, RunInv, Tidy, Goto, Finish, RemoveTemp
  <2>3. Taken'
    BY <1>2 DEF RunInv, Taken, RemoveTemp
  <2> QED
    BY <1>1, <2>1, <2>2, <2>3 DEF RunInv
<1>3. CASE Leave(r)
  <2>1. Told'
    BY <1>3 DEF TypeOK, RunInv, Told, Goto, Leave
  <2>2. Tidy'
    BY <1>3 DEF TypeOK, RunInv, Tidy, Goto, Leave, Extracted
  <2>3. Taken'
    BY <1>3 DEF RunInv, Taken, Leave
  <2> QED
    BY <1>1, <2>1, <2>2, <2>3 DEF RunInv
<1> QED
  BY <1>2, <1>3

LEMMA InvStep == TypeOK /\ RunInv /\ [Next]_vars => RunInv'
<1> SUFFICES ASSUME TypeOK, RunInv, [Next]_vars PROVE RunInv'
  OBVIOUS
<1>1. ASSUME NEW r \in Runs, Step(r) PROVE RunInv'
  BY <1>1, QuietStep, WorkStep, InstallStep, RemoveStep DEF Step
<1>2. CASE OtherProgram
  BY <1>2 DEF TypeOK, RunInv, Rendered, Told, Tidy, Taken, OtherProgram
<1>3. CASE UNCHANGED vars
  BY <1>3 DEF RunInv, Rendered, Told, Tidy, Taken, vars
<1> QED
  BY <1>1, <1>2, <1>3 DEF Next

LEMMA Invariant == Spec => [](TypeOK /\ RunInv)
<1> QED
  BY TypeInit, TypeStep, InvInit, InvStep, PTL DEF Spec
-----------------------------------------------------------------------------
\* The file at the output path is never half of a run's report, whichever
\* operations fail and whenever a run is interrupted.
THEOREM ReportIsAtomic == Spec => []OutputComplete
<1>1. TypeOK /\ RunInv => OutputComplete
  BY DEF RunInv, Rendered, OutputComplete
<1> QED
  BY <1>1, Invariant, PTL

\* Of any number of overlapping runs without --overwrite at most one installs
\* its report, unless another program removes the output.
THEOREM LinkElectsOne == Spec => []OneCreator
<1>1. TypeOK /\ RunInv => OneCreator
  BY DEF RunInv, Taken, OneCreator
<1> QED
  BY <1>1, Invariant, PTL

\* Exit code 0 is returned exactly for installed reports, apart from a report
\* whose temp name could not be removed, which exits with 70.
THEOREM CodeMeansInstalled == Spec => []ExitCodeTells
<1>1. TypeOK /\ RunInv => ExitCodeTells
  BY DEF RunInv, Told, ExitCodeTells
<1> QED
  BY <1>1, Invariant, PTL

\* A run that exits leaves no extraction directory behind unless its removal
\* failed, and no temp file unless its removal failed or Render panicked.
THEOREM NothingLeftBehind == Spec => []ExitCleansUp
<1>1. TypeOK /\ RunInv => ExitCleansUp
  BY DEF RunInv, Tidy, Told, ExitCleansUp, PanicStatus
<1> QED
  BY <1>1, Invariant, PTL

\* No step of a run without --overwrite replaces a file at the output path.
THEOREM ForeignFilesSurvive == Spec => ExistingOutputKept
<1>1. ASSUME Next, out # Absent, out' \notin {out, Absent} PROVE out' \in Overwrite
  <2>1. CASE OtherProgram
    BY <1>1, <2>1 DEF OtherProgram
  <2>2. ASSUME NEW r \in Runs, Step(r) PROVE out' \in Overwrite
    <3>1. CASE Install(r)
      BY <1>1, <3>1 DEF Install, Rename
    <3>2. CASE ~Install(r)
      BY <1>1, <2>2, <3>2 DEF Step, CheckArguments, StatOutput, PrepareInput, ReadInput,
         CreateTemp, RenderReport, RemoveTemp, Leave, Interrupt
    <3> QED
      BY <3>1, <3>2
  <2> QED
    BY <1>1, <2>1, <2>2 DEF Next
<1>2. [Next]_vars => [out # Absent /\ out' \notin {out, Absent} => out' \in Overwrite]_vars
  BY <1>1
<1> QED
  BY <1>2, PTL DEF Spec, ExistingOutputKept
-----------------------------------------------------------------------------
(* The refinement of AtomicOutput.                                         *)

\* The report at the output path is complete, so that it is seen as it is.
LEMMA SeenAsIs == RunInv => Seen = out
  BY DEF RunInv, Rendered, Seen

LEMMA SeenAsIsNext == RunInv' => Seen' = out'
  BY DEF RunInv, Rendered, Seen

Answers == [q \in Runs |-> AnswerOf(q)]

\* A step that leaves the codes, stages and histories of the other runs alone
\* changes one answer.
LEMMA OneAnswer ==
  ASSUME NEW r \in Runs, TypeOK, TypeOK',
         \A q \in Runs \ {r} : pc'[q] = pc[q] /\ code'[q] = code[q],
         \A q \in Runs \ {r} : (q \in installed') = (q \in installed),
         \A q \in Runs \ {r} : (q \in removeFailed') = (q \in removeFailed)
  PROVE  Answers' = [Answers EXCEPT ![r] = AnswerOf(r)']
<1>1. \A q \in Runs \ {r} : AnswerOf(q)' = AnswerOf(q)
  BY DEF AnswerOf
<1> QED
  BY <1>1 DEF Answers

\* A run moves on without having told anything, or tells of a failure.
LEMMA QuietMaps ==
  ASSUME TypeOK, RunInv, TypeOK', NEW r \in Runs,
         UNCHANGED <<out, installed, removeFailed>>,
         pc[r] \notin {"exited", "killed"}, r \notin installed,
         \E stage \in Stages, status \in Codes :
           /\ pc' = [pc EXCEPT ![r] = stage] /\ code' = [code EXCEPT ![r] = status]
           /\ stage = "exited" => status # 0
           /\ stage # "killed"
  PROVE  /\ UNCHANGED <<out, installed>>
         /\ Answers' = Answers \/ Answers' = [Answers EXCEPT ![r] = "failure"]
         /\ Answers[r] = "none"
<1>1. Answers[r] = "none"
  BY DEF Answers, AnswerOf
<1>2. AnswerOf(r)' \in {"none", "failure"}
  BY DEF TypeOK, AnswerOf
<1>3. Answers' = [Answers EXCEPT ![r] = AnswerOf(r)']
  BY OneAnswer DEF TypeOK
<1> QED
  BY <1>1, <1>2, <1>3 DEF Answers

\* The operations up to the installation, and those that fail: nothing is told, or
\* a failure.
LEMMA EarlyStepMaps ==
  ASSUME TypeOK, RunInv, TypeOK', RunInv', NEW r \in Runs,
         \/ CheckArguments(r) \/ StatOutput(r) \/ PrepareInput(r) \/ ReadInput(r)
         \/ CreateTemp(r) \/ RenderReport(r)
  PROVE  Output!Tell(r) \/ UNCHANGED Output!outputVars
<1>1. /\ UNCHANGED <<out, installed, removeFailed>>
      /\ pc[r] \notin {"exited", "killed"}
      /\ r \notin installed
  BY DEF RunInv, Told, CheckArguments, StatOutput, PrepareInput, ReadInput, CreateTemp, RenderReport
<1>2. \E stage \in Stages, status \in Codes :
        /\ pc' = [pc EXCEPT ![r] = stage] /\ code' = [code EXCEPT ![r] = status]
        /\ stage = "exited" => status # 0
        /\ stage # "killed"
  <2>1. CASE CheckArguments(r)
    BY <2>1 DEF TypeOK, Stages, Codes, Goto, Finish, CheckArguments
  <2>2. CASE StatOutput(r)
    BY <2>2 DEF TypeOK, Stages, Codes, Goto, Finish, StatOutput
  <2>3. CASE PrepareInput(r)
    BY <2>3 DEF TypeOK, Stages, Codes, Goto, Finish, PrepareInput, InputErrors
  <2>4. CASE ReadInput(r)
    BY <2>4 DEF TypeOK, Stages, Codes, Goto, Finish, ReadInput, InputErrors
  <2>5. CASE CreateTemp(r) \/ RenderReport(r)
    BY <2>5 DEF TypeOK, Stages, Codes, Goto, Finish, CreateTemp, RenderReport, PanicStatus
  <2> QED
    BY <2>1, <2>2, <2>3, <2>4, <2>5
<1>3. /\ Answers' = Answers \/ Answers' = [Answers EXCEPT ![r] = "failure"]
      /\ Answers[r] = "none"
  BY <1>1, <1>2, QuietMaps
<1>4. Seen' = Seen
  BY <1>1, SeenAsIs, SeenAsIsNext
<1> QED
  BY <1>1, <1>3, <1>4 DEF Output!Tell, Output!outputVars, Answers

\* A link or a rename publishes the report.
LEMMA InstallMaps ==
  ASSUME TypeOK, RunInv, TypeOK', RunInv', NEW r \in Runs, Install(r)
  PROVE  Output!Publish(r) \/ UNCHANGED Output!outputVars
<1>1. Seen = out /\ Seen' = out'
  BY SeenAsIs, SeenAsIsNext
<1>2. pc[r] = "install" /\ r \notin installed /\ removeFailed' = removeFailed
  BY DEF Install, RunInv, Told
<1>3. AnswerOf(r) = "none" /\ AnswerOf(r)' = "none"
  BY DEF TypeOK, Install, Goto, Finish, AnswerOf
<1>4. /\ \A q \in Runs \ {r} : pc'[q] = pc[q] /\ code'[q] = code[q]
      /\ \A q \in Runs \ {r} : (q \in installed') = (q \in installed)
  BY DEF TypeOK, Install, Goto, Finish, Rename
<1>5. Answers' = Answers /\ Answers[r] = "none"
  <2>1. \A q \in Runs \ {r} : (q \in removeFailed') = (q \in removeFailed)
    BY <1>2
  <2>2. Answers' = [Answers EXCEPT ![r] = AnswerOf(r)']
    BY <1>4, <2>1, OneAnswer
  <2> QED
    BY <1>3, <2>2 DEF Answers
<1>6. \/ out' = r /\ installed' = installed \cup {r} /\ (out = Absent \/ r \in Overwrite)
      \/ UNCHANGED <<out, installed>>
  BY DEF Install, Rename
<1> QED
  BY <1>1, <1>2, <1>5, <1>6 DEF Output!Publish, Output!outputVars, Answers

\* After it the run only removes, and then tells what it came to.
LEMMA LateStepMaps ==
  ASSUME TypeOK, RunInv, TypeOK', RunInv', NEW r \in Runs, RemoveTemp(r) \/ Leave(r) \/ Interrupt(r)
  PROVE  Output!Tell(r) \/ Output!Die(r) \/ UNCHANGED Output!outputVars
<1>1. Seen' = Seen
  BY SeenAsIs, SeenAsIsNext DEF RemoveTemp, Leave, Interrupt
<1>2. /\ UNCHANGED installed
      /\ pc[r] \notin {"exited", "killed"}
  BY DEF RemoveTemp, Leave, Interrupt
<1>3. Answers[r] = "none"
  BY <1>2 DEF Answers, AnswerOf
<1>4. /\ \A q \in Runs \ {r} : pc'[q] = pc[q] /\ code'[q] = code[q]
      /\ \A q \in Runs \ {r} : (q \in installed') = (q \in installed)
      /\ \A q \in Runs \ {r} : (q \in removeFailed') = (q \in removeFailed)
  BY DEF TypeOK, RemoveTemp, Leave, Interrupt, Goto, Finish
<1>5. Answers' = [Answers EXCEPT ![r] = AnswerOf(r)']
  BY <1>4, OneAnswer
<1>6. CASE RemoveTemp(r)
  <2>1. AnswerOf(r)' = "none"
    BY <1>6 DEF TypeOK, RemoveTemp, Goto, Finish, AnswerOf
  <2> QED
    BY <1>1, <1>2, <1>3, <1>5, <2>1 DEF Output!outputVars, Answers
<1>7. CASE Leave(r)
  <2>1. /\ r \in installed => AnswerOf(r)' \in {"success", "leftover"}
        /\ r \notin installed => AnswerOf(r)' = "failure"
    <3>1. pc'[r] = "exited" /\ installed' = installed
      BY <1>7 DEF TypeOK, Leave, Goto
    <3> QED
      BY <3>1 DEF RunInv, Told, AnswerOf
  <2> QED
    BY <1>1, <1>2, <1>3, <1>5, <2>1 DEF Output!Tell, Answers
<1>8. CASE Interrupt(r)
  <2>1. AnswerOf(r)' = "killed"
    BY <1>8 DEF TypeOK, Interrupt, Goto, AnswerOf
  <2> QED
    BY <1>1, <1>2, <1>3, <1>5, <2>1 DEF Output!Die, Answers
<1> QED
  BY <1>6, <1>7, <1>8

LEMMA OtherMaps ==
  ASSUME TypeOK, RunInv, TypeOK', RunInv', OtherProgram
  PROVE  Output!Other
<1>1. Seen = out /\ Seen' = out'
  BY SeenAsIs, SeenAsIsNext
<1>2. UNCHANGED <<pc, code, installed, removeFailed>>
  BY DEF OtherProgram
<1>3. Answers' = Answers
  BY <1>2 DEF Answers, AnswerOf
<1> QED
  BY <1>1, <1>2, <1>3 DEF OtherProgram, Output!Other, Answers

LEMMA InitMaps == Init => Output!Init
<1> SUFFICES ASSUME Init PROVE Output!Init
  OBVIOUS
<1>1. Seen = out
  BY TypeInit, InvInit, SeenAsIs
<1>2. Answers = [r \in Runs |-> "none"]
  BY DEF Init, Answers, AnswerOf
<1> QED
  BY <1>1, <1>2 DEF Init, Output!Init, Answers

LEMMA StepMaps ==
  ASSUME TypeOK, RunInv, TypeOK', RunInv', [Next]_vars
  PROVE  [Output!Next]_Output!outputVars
<1>1. ASSUME NEW r \in Runs, Step(r) PROVE Output!Next \/ UNCHANGED Output!outputVars
  BY <1>1, EarlyStepMaps, InstallMaps, LateStepMaps DEF Step, Output!Next
<1>2. CASE OtherProgram
  BY <1>2, OtherMaps DEF Output!Next
<1>3. CASE UNCHANGED vars
  BY <1>3 DEF vars, Output!outputVars, Seen, AnswerOf
<1> QED
  BY <1>1, <1>2, <1>3 DEF Next

\* Any number of overlapping runs, whatever fails and whenever they are
\* interrupted, implement the abstract output: reports appear whole, in one
\* step, over nothing or where a run may overwrite, and runs tell the truth.
THEOREM RunsImplementAtomicOutput == Spec => ImplementsAtomicOutput
<1>1. TypeOK /\ RunInv /\ TypeOK' /\ RunInv' /\ [Next]_vars => [Output!Next]_Output!outputVars
  BY StepMaps
<1> QED
  BY <1>1, InitMaps, Invariant, PTL DEF Spec, ImplementsAtomicOutput, Output!Spec
=============================================================================
