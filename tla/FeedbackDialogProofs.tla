------------------------ MODULE FeedbackDialogProofs ------------------------
(***************************************************************************)
(* Proofs about FeedbackDialog, for any bounds.                            *)
(***************************************************************************)
EXTENDS FeedbackDialog, FiniteSetTheorems, TLAPS

USE BoundAssumption DEF None

LEMMA TypeInit == Init => TypeOK
<1> SUFFICES ASSUME Init PROVE TypeOK
  OBVIOUS
<1>1. FlagsOK
  BY DEF Init, FlagsOK
<1>2. CountersOK
  BY DEF Init, CountersOK
<1>3. RecordingsOK
  BY DEF Init, RecordingsOK, Recordings
<1>4. NoSubmit \in SubmissionsOf(0)
  BY DEF NoSubmit, SubmissionsOf, Stages
<1>5. subs \in [Submits -> SubmissionsOf(keys)]
  BY <1>4 DEF Init
<1> QED
  BY <1>1, <1>2, <1>3, <1>5 DEF TypeOK

LEMMA FlagsTyped ==
  ASSUME FlagsOK, Next
  PROVE  FlagsOK'
<1>1. CASE OpenDialog \/ Edit \/ PasteImage \/ RemoveAttachment
  BY <1>1, Zenon DEF FlagsOK, OpenDialog, Edit, PasteImage, RemoveAttachment, ContentChanged, AttachmentsChange,
     recorderVars
<1>2. CASE StartRecording \/ Stop \/ CloseDialog
  BY <1>2, Zenon DEF FlagsOK, StartRecording, Stop, CloseDialog, StopRecording, ContentChanged,
     AttachmentsChange, formVars, buttonVars
<1>3. CASE Submit
  BY <1>3, Zenon DEF FlagsOK, Submit, StopRecording, formVars
<1>4. ASSUME NEW i \in Recordings, NotRecorded(i) \/ Granted(i) \/ DeviceLost(i) \/ StopEvent(i)
      PROVE  FlagsOK'
  BY <1>4, Zenon DEF FlagsOK, NotRecorded, Granted, DeviceLost, StopEvent, ContentChanged,
     AttachmentsChange, formVars, buttonVars
<1>5. ASSUME NEW s \in Submits, Progress(s) \/ Reply(s) PROVE FlagsOK'
  BY <1>5, Zenon DEF FlagsOK, Progress, Reply, RecordingFinished, EscapeHatch, Encoded, HeadersArrive,
     SubmissionFails, ReplyRejected, Rejected, ReplySucceeds, formVars, buttonVars, recorderVars
<1> QED
  BY <1>1, <1>2, <1>3, <1>4, <1>5 DEF Next, User, Recorder

LEMMA CountersTyped ==
  ASSUME CountersOK, Next
  PROVE  CountersOK'
<1>1. CASE OpenDialog \/ Edit \/ PasteImage \/ RemoveAttachment
  BY <1>1 DEF CountersOK, OpenDialog, Edit, PasteImage, RemoveAttachment, ContentChanged, AttachmentsChange,
     sessionVars, submitVars
<1>2. CASE StartRecording \/ Stop \/ CloseDialog
  BY <1>2 DEF CountersOK, StartRecording, Stop, CloseDialog, ContentChanged,
     AttachmentsChange, formVars, buttonVars, sessionVars, submitVars
<1>3. CASE Submit
  BY <1>3 DEF CountersOK, Submit, Begin, Minted, formVars, sessionVars
<1>4. ASSUME NEW i \in Recordings, NotRecorded(i) \/ Granted(i) \/ DeviceLost(i) \/ StopEvent(i)
      PROVE  CountersOK'
  BY <1>4 DEF CountersOK, NotRecorded, Granted, DeviceLost, StopEvent, ContentChanged,
     AttachmentsChange, formVars, buttonVars, sessionVars, submitVars
<1>5. ASSUME NEW s \in Submits, Progress(s) \/ Reply(s) PROVE CountersOK'
  BY <1>5 DEF CountersOK, Progress, Reply, RecordingFinished, EscapeHatch, Encoded, HeadersArrive,
     SubmissionFails, ReplyRejected, Rejected, ReplySucceeds, Begin, Minted, formVars, buttonVars,
     sessionVars
<1> QED
  BY <1>1, <1>2, <1>3, <1>4, <1>5 DEF Next, User, Recorder

LEMMA RecordingsTyped ==
  ASSUME TypeOK, Next
  PROVE  RecordingsOK'
<1> USE DEF RecordingsOK
<1> RecordingsOK /\ openings \in 0 .. MaxOpenings /\ recordings \in 0 .. MaxRecordings
  BY DEF TypeOK, CountersOK
<1>1. CASE OpenDialog \/ Edit \/ PasteImage \/ RemoveAttachment
  BY <1>1 DEF OpenDialog, Edit, PasteImage, RemoveAttachment, AttachmentsChange,
     recorderVars, sessionVars
<1>2. CASE StartRecording
  BY <1>2, SMTT(30) DEF StartRecording, Recordings, formVars
<1>3. ASSUME StopRecording
      PROVE  /\ rec' \in [Recordings -> {"none", "asking", "recording", "stopping", "ended"}]
             /\ live' \subseteq Recordings
             /\ recStream' = None
  BY <1>3 DEF StopRecording, IsRecording
<1>4. CASE Stop \/ CloseDialog
  BY <1>3, <1>4 DEF Stop, CloseDialog, Silence, AttachmentsChange, formVars, sessionVars
<1>5. CASE Submit
  BY <1>3, <1>5 DEF Submit, formVars, sessionVars
<1>6. ASSUME NEW i \in Recordings, NotRecorded(i) \/ Granted(i) \/ DeviceLost(i) \/ StopEvent(i)
      PROVE  RecordingsOK'
  BY <1>6 DEF NotRecorded, Granted, DeviceLost, StopEvent, AttachmentsChange, formVars,
     sessionVars
<1>7. ASSUME NEW s \in Submits, Progress(s) \/ Reply(s) PROVE RecordingsOK'
  BY <1>7 DEF Progress, Reply, RecordingFinished, EscapeHatch, Encoded, HeadersArrive,
     SubmissionFails, ReplyRejected, ReplySucceeds, formVars, recorderVars, sessionVars
<1> QED
  BY <1>1, <1>2, <1>4, <1>5, <1>6, <1>7 DEF Next, User, Recorder

LEMMA MoreKeys ==
  ASSUME NEW m \in Nat, NEW n \in Nat, m <= n
  PROVE  SubmissionsOf(m) \subseteq SubmissionsOf(n)
  BY DEF SubmissionsOf

LEMMA BeginTyped ==
  ASSUME TypeOK, NEW s \in Submits, NEW sub \in SubmissionsOf(keys), Begin(s, sub)
  PROVE  subs' \in [Submits -> SubmissionsOf(keys')]
<1> DEFINE begun == [sub EXCEPT !.started = Minted, !.media = media]
           next == IF hasImage \/ voice # None
                   THEN [begun EXCEPT !.stage = "encode"] ELSE Posted(begun, Minted)
<1>1. keys \in Nat /\ keys' \in Nat /\ keys <= keys' /\ Minted \in 0 .. keys'
  BY DEF TypeOK, CountersOK, Begin, Minted
<1>2. sub \in SubmissionsOf(keys') /\ subs \in [Submits -> SubmissionsOf(keys')]
  BY <1>1, MoreKeys DEF TypeOK
<1>3. begun \in SubmissionsOf(keys')
  BY <1>1, <1>2 DEF SubmissionsOf, TypeOK, CountersOK
<1>4. [begun EXCEPT !.stage = "encode"] \in SubmissionsOf(keys')
  BY <1>3 DEF SubmissionsOf, Stages
<1>5. Posted(begun, Minted) \in SubmissionsOf(keys')
  BY <1>1, <1>3 DEF SubmissionsOf, Posted, TypeOK, CountersOK, Stages
<1>6. subs' = [subs EXCEPT ![s] = next]
  BY DEF Begin
<1> HIDE DEF begun
<1> QED
  BY <1>2, <1>4, <1>5, <1>6

LEMMA SubmissionsTyped ==
  ASSUME TypeOK, Next
  PROVE  subs' \in [Submits -> SubmissionsOf(keys')]
<1>0. subs \in [Submits -> SubmissionsOf(keys)]
  BY DEF TypeOK
<1>1. CASE UNCHANGED submitVars
  BY <1>0, <1>1 DEF submitVars
<1>2. CASE Submit
  <2> DEFINE new == [NoSubmit EXCEPT !.opening = openings, !.awaits = recorder]
             idle == [new EXCEPT !.awaits = None]
  <2>1. submits' \in Submits
    BY <1>2 DEF TypeOK, CountersOK, Submit, Submits
  <2>2. new \in SubmissionsOf(keys) /\ idle \in SubmissionsOf(keys)
        /\ [new EXCEPT !.stage = "finish"] \in SubmissionsOf(keys)
    <3>1. keys \in Nat /\ openings \in 0 .. MaxOpenings /\ recorder \in Recordings \cup {None}
      BY DEF TypeOK, CountersOK, RecordingsOK
    <3>2. NoSubmit \in SubmissionsOf(keys)
      BY <3>1 DEF NoSubmit, SubmissionsOf, Stages
    <3>3. new \in SubmissionsOf(keys)
      BY <3>1, <3>2 DEF SubmissionsOf
    <3> HIDE DEF new
    <3> QED
      BY <3>3 DEF SubmissionsOf, Stages
  <2>3. CASE IsRecording(recorder)
    <3>1. keys' = keys /\ subs' = [subs EXCEPT ![submits'] = [new EXCEPT !.stage = "finish"]]
      BY <1>2, <2>3 DEF Submit
    <3> HIDE DEF new
    <3> QED
      BY <1>0, <2>1, <2>2, <3>1
  <2>4. CASE ~IsRecording(recorder)
    <3>1. Begin(submits', idle)
      BY <1>2, <2>4 DEF Submit
    <3> QED
      BY <2>1, <2>2, <3>1, BeginTyped
  <2> QED
    BY <2>3, <2>4
<1>3. ASSUME NEW s \in Submits, RecordingFinished(s) \/ EscapeHatch(s)
      PROVE  subs' \in [Submits -> SubmissionsOf(keys')]
  BY <1>0, <1>3, BeginTyped DEF RecordingFinished, EscapeHatch
<1>4. ASSUME NEW s \in Submits, Encoded(s)
      PROVE  subs' \in [Submits -> SubmissionsOf(keys')]
  <2>1. subs[s] \in SubmissionsOf(keys) /\ keys' = keys /\ subs' = [subs EXCEPT ![s] = Posted(@, key)]
    BY <1>0, <1>4 DEF Encoded
  <2>2. Posted(subs[s], key) \in SubmissionsOf(keys)
    BY <2>1 DEF TypeOK, CountersOK, Posted, SubmissionsOf, Stages
  <2> QED
    BY <1>0, <2>1, <2>2
<1>5. ASSUME NEW s \in Submits,
             HeadersArrive(s) \/ SubmissionFails(s) \/ ReplyRejected(s) \/ ReplySucceeds(s)
      PROVE  subs' \in [Submits -> SubmissionsOf(keys')]
  <2>1. /\ subs[s] \in SubmissionsOf(keys) /\ keys' = keys
        /\ \E x \in Stages : subs' = [subs EXCEPT ![s] = [subs[s] EXCEPT !.stage = x]]
    BY <1>0, <1>5 DEF HeadersArrive, SubmissionFails, ReplyRejected, ReplySucceeds, Stages
  <2>2. \A x \in Stages : [subs[s] EXCEPT !.stage = x] \in SubmissionsOf(keys)
    BY <2>1 DEF SubmissionsOf
  <2> QED
    BY <1>0, <2>1, <2>2
<1>6. UNCHANGED submitVars \/ Submit \/ \E s \in Submits : Progress(s) \/ Reply(s)
  BY DEF Next, User, OpenDialog, Edit, PasteImage, RemoveAttachment, StartRecording, Stop,
     CloseDialog, Recorder, NotRecorded, Granted, DeviceLost, StopEvent
<1> QED
  BY <1>1, <1>2, <1>3, <1>4, <1>5, <1>6 DEF Progress, Reply

LEMMA TypeStep == TypeOK /\ [Next]_vars => TypeOK'
<1> SUFFICES ASSUME TypeOK, [Next]_vars PROVE TypeOK'
  OBVIOUS
<1>1. CASE Next
  BY <1>1, FlagsTyped, CountersTyped, RecordingsTyped, SubmissionsTyped DEF TypeOK
<1>2. CASE UNCHANGED vars
  BY <1>2 DEF TypeOK, FlagsOK, CountersOK, RecordingsOK, vars, formVars, buttonVars, recorderVars,
     sessionVars, submitVars
<1> QED
  BY <1>1, <1>2

\* Every variable stays in its domain.
THEOREM TypeCorrect == Spec => []TypeOK
<1> QED
  BY TypeInit, TypeStep, PTL DEF Spec
-----------------------------------------------------------------------------
(* The recorder.                                                           *)

\* The session that a late grant is compared with is the newest recording's,
\* and was started in the dialog that is open.
SessionInv ==
  /\ recSession # None => open /\ recSession = recordings
  /\ recChunks # None => open /\ recorder = recChunks
  /\ \A i \in Recordings :
       /\ rec[i] = "none" <=> i > recordings
       /\ recordedIn[i] <= openings
       /\ i \in {recSession, recChunks, voice} => i <= recordings /\ recordedIn[i] = openings

\* What is live is what records, and that is what stopRecording will stop;
\* nothing records while the newest recording still asks for permission.
ActiveInv ==
  \A i \in Recordings :
    /\ i \in live \ unstartable <=> rec[i] = "recording"
    /\ i \in unstartable => rec[i] = "ended"
    /\ rec[i] = "recording" =>
         /\ open /\ recorder = i /\ recChunks = i /\ recStream = i
         /\ recSession = None \/ rec[recSession] # "asking"

\* A recording that has not delivered still has the recorder's chunks, or has
\* been left behind.
LeftBehindInv ==
  \A i \in Recordings :
    /\ rec[i] \in {"recording", "stopping"} =>
         recChunks = i \/ recordedIn[i] < openings \/ ~open \/ i < recordings
    /\ i \in dropped =>
         i <= recordings /\ (recordedIn[i] < openings \/ ~open \/ i < recordings)

RecorderInv == SessionInv /\ ActiveInv /\ LeftBehindInv /\ CancelledRecordingStaysOut

LEMMA RecorderInvInit == Init => RecorderInv
  BY DEF Init, RecorderInv, SessionInv, ActiveInv, LeftBehindInv, CancelledRecordingStaysOut,
     Recordings

\* The domains of what the invariant is about.
LEMMA RecorderTypes ==
  ASSUME TypeOK
  PROVE  /\ recSession \in Recordings \cup {None} /\ recorder \in Recordings \cup {None}
         /\ recChunks \in Recordings \cup {None} /\ recStream \in Recordings \cup {None}
         /\ voice \in Recordings \cup {None}
         /\ rec \in [Recordings -> {"none", "asking", "recording", "stopping", "ended"}]
         /\ live \subseteq Recordings /\ dropped \subseteq Recordings
         /\ recordedIn \in [Recordings -> 0 .. MaxOpenings]
         /\ openings \in Nat
         /\ recordings \in Nat
         /\ Recordings \subseteq Nat \ {None}
<1>1. /\ recSession \in Recordings \cup {None} /\ recorder \in Recordings \cup {None}
      /\ recChunks \in Recordings \cup {None} /\ recStream \in Recordings \cup {None}
      /\ voice \in Recordings \cup {None}
  <2>1. {recSession, recorder, recChunks, recStream, voice} \subseteq Recordings \cup {None}
    BY DEF TypeOK, RecordingsOK
  <2> QED
    BY <2>1
<1>2. /\ rec \in [Recordings -> {"none", "asking", "recording", "stopping", "ended"}]
      /\ live \subseteq Recordings /\ dropped \subseteq Recordings
      /\ recordedIn \in [Recordings -> 0 .. MaxOpenings]
  BY DEF TypeOK, RecordingsOK
<1>3. openings \in 0 .. MaxOpenings /\ recordings \in 0 .. MaxRecordings
  BY DEF TypeOK, CountersOK
<1>4. openings \in Nat /\ recordings \in Nat
  BY <1>3, BoundAssumption
<1>5. Recordings \subseteq Nat \ {None}
  BY BoundAssumption DEF Recordings, None
<1> QED
  BY <1>1, <1>2, <1>4, <1>5

\* Callbacks and edits that leave the recorder alone.
LEMMA QuietStep ==
  ASSUME TypeOK, RecorderInv,
         UNCHANGED <<open, openings, recorderVars, sessionVars>>, voice' \in {voice, None}
  PROVE  RecorderInv'
<1> USE RecorderTypes DEF RecorderInv, recorderVars, sessionVars
<1>1. SessionInv'
  BY DEF SessionInv
<1>2. ActiveInv'
  BY DEF ActiveInv
<1>3. LeftBehindInv'
  BY DEF LeftBehindInv
<1>4. CancelledRecordingStaysOut'
  BY DEF CancelledRecordingStaysOut
<1> QED
  BY <1>1, <1>2, <1>3, <1>4

LEMMA OpenStep ==
  ASSUME TypeOK, RecorderInv, OpenDialog
  PROVE  RecorderInv'
<1> openings' = openings + 1 /\ ~open /\ open' = TRUE /\ UNCHANGED <<voice, recorderVars, sessionVars>>
  BY DEF OpenDialog
<1> USE RecorderTypes
<1>1. SessionInv'
  BY DEF RecorderInv, SessionInv, CancelledRecordingStaysOut, recorderVars, sessionVars
<1>2. ActiveInv'
  BY DEF RecorderInv, ActiveInv, recorderVars, sessionVars
<1>3. LeftBehindInv'
  BY DEF RecorderInv, SessionInv, LeftBehindInv, recorderVars, sessionVars
<1>4. CancelledRecordingStaysOut'
  BY DEF RecorderInv, CancelledRecordingStaysOut
<1> QED
  BY <1>1, <1>2, <1>3, <1>4 DEF RecorderInv

LEMMA StartStep ==
  ASSUME TypeOK, RecorderInv, StartRecording
  PROVE  RecorderInv'
<1> USE RecorderTypes DEF RecorderInv, StartRecording, Recordings, formVars
<1>1. SessionInv'
  BY DEF SessionInv, CancelledRecordingStaysOut
<1>2. ActiveInv'
  BY DEF SessionInv, ActiveInv, IsRecording
<1>3. LeftBehindInv'
  BY DEF SessionInv, LeftBehindInv
<1>4. CancelledRecordingStaysOut'
  BY DEF SessionInv, CancelledRecordingStaysOut
<1> QED
  BY <1>1, <1>2, <1>3, <1>4

\* stopRecording leaves nothing recording.
LEMMA StopEffect ==
  ASSUME TypeOK, RecorderInv, StopRecording
  PROVE  /\ \A i \in Recordings : rec'[i] = IF rec[i] = "recording" THEN "stopping" ELSE rec[i]
         /\ live' \subseteq live
         /\ \A i \in live' : i \in unstartable
<1> USE RecorderTypes
<1>1. rec' = IF IsRecording(recorder) THEN [rec EXCEPT ![recorder] = "stopping"] ELSE rec
  BY DEF StopRecording
<1>2. \A i \in Recordings : rec[i] = "recording" => recorder = i /\ recStream = i
  BY DEF RecorderInv, ActiveInv
<1>3. \A i \in Recordings : rec'[i] = IF rec[i] = "recording" THEN "stopping" ELSE rec[i]
  <2>1. CASE IsRecording(recorder)
    BY <1>1, <1>2, <2>1 DEF IsRecording
  <2>2. CASE ~IsRecording(recorder)
    BY <1>1, <1>2, <2>2 DEF IsRecording
  <2> QED
    BY <2>1, <2>2
<1>4. live' = live \ {recStream}
  BY DEF StopRecording
<1>5. \A i \in live : i \in unstartable \/ i = recStream
  BY <1>2 DEF RecorderInv, ActiveInv
<1> QED
  BY <1>3, <1>4, <1>5

LEMMA StopStep ==
  ASSUME TypeOK, RecorderInv, StopRecording,
         UNCHANGED <<open, openings, voice, recorder, recChunks, sessionVars>>
  PROVE  RecorderInv'
<1> USE RecorderTypes, StopEffect DEF RecorderInv, sessionVars
<1>1. SessionInv'
  BY DEF SessionInv
<1>2. ActiveInv'
  BY DEF ActiveInv
<1>3. LeftBehindInv'
  BY DEF LeftBehindInv
<1>4. CancelledRecordingStaysOut'
  BY DEF CancelledRecordingStaysOut
<1> QED
  BY <1>1, <1>2, <1>3, <1>4

LEMMA CloseStep ==
  ASSUME TypeOK, RecorderInv, CloseDialog
  PROVE  RecorderInv'
<1> USE RecorderTypes DEF RecorderInv
<1>1. /\ open' = FALSE /\ recSession' = None /\ voice' = None
      /\ UNCHANGED <<openings, recorder, recordings, recordedIn, dropped, unstartable>>
  BY DEF CloseDialog, AttachmentsChange
<1>2. /\ recChunks' = None
      /\ \A i \in Recordings : rec'[i] = IF rec[i] = "recording" THEN "stopping" ELSE rec[i]
      /\ live' \subseteq live
      /\ \A i \in live' : i \in unstartable
  <2>1. CASE recorder # None \/ recStream # None \/ ticking
    BY <2>1, StopEffect DEF CloseDialog, Silence
  <2>2. CASE ~(recorder # None \/ recStream # None \/ ticking)
    BY <2>2 DEF CloseDialog, SessionInv, ActiveInv
  <2> QED
    BY <2>1, <2>2
<1>3. SessionInv'
  BY <1>1, <1>2 DEF SessionInv
<1>4. ActiveInv'
  BY <1>1, <1>2 DEF ActiveInv
<1>5. LeftBehindInv'
  BY <1>1, <1>2 DEF LeftBehindInv
<1>6. CancelledRecordingStaysOut'
  BY <1>1 DEF CancelledRecordingStaysOut
<1> QED
  BY <1>3, <1>4, <1>5, <1>6

LEMMA RecorderStep ==
  ASSUME TypeOK, RecorderInv, NEW i \in Recordings,
         NotRecorded(i) \/ Granted(i) \/ DeviceLost(i) \/ StopEvent(i)
  PROVE  RecorderInv'
<1> USE RecorderTypes DEF RecorderInv
<1>1. CASE NotRecorded(i)
  <2>1. SessionInv'
    BY <1>1 DEF NotRecorded, SessionInv, formVars, sessionVars
  <2>2. ActiveInv'
    BY <1>1 DEF NotRecorded, ActiveInv, Superseded, formVars, sessionVars
  <2>3. LeftBehindInv'
    BY <1>1 DEF NotRecorded, LeftBehindInv, formVars, sessionVars
  <2>4. CancelledRecordingStaysOut'
    BY <1>1 DEF NotRecorded, CancelledRecordingStaysOut, formVars, sessionVars
  <2> QED
    BY <2>1, <2>2, <2>3, <2>4
<1>2. CASE Granted(i)
  <2>1. SessionInv'
    BY <1>2 DEF Granted, Superseded, SessionInv, formVars
  <2>2. ActiveInv'
    BY <1>2 DEF Granted, Superseded, SessionInv, ActiveInv, formVars
  <2>3. LeftBehindInv'
    BY <1>2 DEF Granted, Superseded, SessionInv, LeftBehindInv, formVars
  <2>4. CancelledRecordingStaysOut'
    BY <1>2 DEF Granted, CancelledRecordingStaysOut, formVars
  <2> QED
    BY <2>1, <2>2, <2>3, <2>4
<1>3. CASE DeviceLost(i)
  <2>1. SessionInv'
    BY <1>3 DEF DeviceLost, SessionInv, formVars, sessionVars
  <2>2. ActiveInv'
    BY <1>3 DEF DeviceLost, ActiveInv, formVars, sessionVars
  <2>3. LeftBehindInv'
    BY <1>3 DEF DeviceLost, LeftBehindInv, formVars, sessionVars
  <2>4. CancelledRecordingStaysOut'
    BY <1>3 DEF DeviceLost, CancelledRecordingStaysOut, formVars, sessionVars
  <2> QED
    BY <2>1, <2>2, <2>3, <2>4
<1>4. CASE StopEvent(i)
  <2>1. SessionInv'
    BY <1>4 DEF StopEvent, Collected, AttachmentsChange, SessionInv
  <2>2. ActiveInv'
    BY <1>4 DEF StopEvent, ActiveInv
  <2>3. LeftBehindInv'
    BY <1>4 DEF StopEvent, Collected, SessionInv, LeftBehindInv
  <2>4. CancelledRecordingStaysOut'
    BY <1>4 DEF StopEvent, Collected, AttachmentsChange, SessionInv, CancelledRecordingStaysOut
  <2> QED
    BY <2>1, <2>2, <2>3, <2>4
<1> QED
  BY <1>1, <1>2, <1>3, <1>4

LEMMA RecorderInvStep == TypeOK /\ RecorderInv /\ [Next]_vars => RecorderInv'
<1> SUFFICES ASSUME TypeOK, RecorderInv, [Next]_vars PROVE RecorderInv'
  OBVIOUS
<1>1. CASE Edit \/ PasteImage \/ RemoveAttachment
  BY <1>1, QuietStep DEF Edit, PasteImage, RemoveAttachment, AttachmentsChange
<1>2. CASE Stop
  BY <1>2, StopStep DEF Stop, formVars
<1>3. CASE Submit
  <2>1. CASE IsRecording(recorder)
    BY <1>3, <2>1, StopStep DEF Submit, formVars
  <2>2. CASE ~IsRecording(recorder)
    BY <1>3, <2>2, QuietStep DEF Submit, formVars, recorderVars
  <2> QED
    BY <2>1, <2>2
<1>4. ASSUME NEW s \in Submits, Progress(s) \/ Reply(s) PROVE RecorderInv'
  BY <1>4, QuietStep DEF Progress, Reply, RecordingFinished, EscapeHatch, Encoded, HeadersArrive,
     SubmissionFails, ReplyRejected, ReplySucceeds, formVars
<1>5. CASE UNCHANGED vars
  BY <1>5, QuietStep DEF vars, formVars
<1> QED
  BY <1>1, <1>2, <1>3, <1>4, <1>5, OpenStep, StartStep, CloseStep, RecorderStep
     DEF Next, User, Recorder

\* Where each recording stands, and what every later step can still do to it:
\* the inductive invariant of the recorder.
THEOREM RecorderInvariant == Spec => []RecorderInv
<1> QED
  BY RecorderInvInit, RecorderInvStep, TypeCorrect, PTL DEF Spec

\* data-model.md: one recorder at a time.
THEOREM AtMostOneRecorder == Spec => []OneActiveRecorder
<1>1. TypeOK /\ RecorderInv => OneActiveRecorder
  <2> SUFFICES ASSUME TypeOK, RecorderInv PROVE OneActiveRecorder
    OBVIOUS
  <2>1. {i \in Recordings : rec[i] = "recording"} \subseteq {recorder}
    BY DEF RecorderInv, ActiveInv
  <2>2. IsFiniteSet({recorder}) /\ Cardinality({recorder}) = 1
    BY FS_Singleton
  <2>3. /\ IsFiniteSet({i \in Recordings : rec[i] = "recording"})
        /\ Cardinality({i \in Recordings : rec[i] = "recording"}) <= Cardinality({recorder})
    BY <2>1, <2>2, FS_Subset
  <2> QED
    BY <2>2, <2>3 DEF OneActiveRecorder
<1> QED
  BY <1>1, TypeCorrect, RecorderInvariant, PTL

\* No microphone stays open behind the dialog's back, however late a grant or
\* a stop event is.
THEOREM MicrophoneIsReleased == Spec => []NoStrayMicrophone
<1>1. TypeOK /\ RecorderInv => NoStrayMicrophone
  BY RecorderTypes DEF RecorderInv, ActiveInv, NoStrayMicrophone
<1> QED
  BY <1>1, TypeCorrect, RecorderInvariant, PTL

\* A recording of a dismissed dialog never becomes an attachment of another.
THEOREM CancelledStaysOut == Spec => []CancelledRecordingStaysOut
<1>1. RecorderInv => CancelledRecordingStaysOut
  BY DEF RecorderInv
<1> QED
  BY <1>1, RecorderInvariant, PTL

\* A recording is dropped only when it has been left behind.
THEOREM DropsAreExplained == Spec => []DroppedForAReason
<1>1. TypeOK /\ RecorderInv => DroppedForAReason
  BY RecorderTypes DEF RecorderInv, LeftBehindInv, DroppedForAReason
<1> QED
  BY <1>1, TypeCorrect, RecorderInvariant, PTL
-----------------------------------------------------------------------------
(* The idempotency key.                                                    *)

\* What a submission took is older than the form, or is what the form holds.
\* A key that is still in use was minted for what the form holds; a post with
\* a key out of use says something else, or was followed by a success.
KeyInv ==
  \A s \in Submits :
    /\ subs[s].media <= media
    /\ subs[s].started # None /\ subs[s].started = key => subs[s].media = media
    /\ subs[s].posted => subs[s].stage \in {"post", "read", "done"}
    /\ OwnKey(s) =>
         /\ subs[s].fields <= fields /\ subs[s].after <= successes
         /\ subs[s].sent = key => subs[s].fields = fields
         /\ subs[s].sent # key => Content(s) # <<media, fields>> \/ subs[s].after < successes

ContentInv == KeyInv /\ OwnKeySameContent /\ RetryKeepsKey

LEMMA KeyTypes ==
  ASSUME TypeOK
  PROVE  /\ media \in Nat /\ fields \in Nat /\ successes \in Nat /\ keys \in Nat /\ key \in 0 .. keys
         /\ subs \in [Submits -> SubmissionsOf(keys)]
         /\ \A s \in Submits :
              /\ subs[s].media \in Nat /\ subs[s].fields \in Nat /\ subs[s].after \in Nat
              /\ subs[s].started \in 0 .. keys /\ subs[s].sent \in 0 .. keys
  BY DEF TypeOK, CountersOK, SubmissionsOf

LEMMA ContentInvInit == Init => ContentInv
  BY DEF Init, ContentInv, KeyInv, OwnKeySameContent, RetryKeepsKey, OwnKey, Content, NoSubmit

\* What the properties read of a submission.
SameSubmission(s) ==
  /\ subs'[s].media = subs[s].media /\ subs'[s].fields = subs[s].fields
  /\ subs'[s].started = subs[s].started /\ subs'[s].sent = subs[s].sent
  /\ subs'[s].posted = subs[s].posted /\ subs'[s].after = subs[s].after
  /\ subs'[s].stage \in {subs[s].stage, "read", "done"}

\* Steps that submit nothing: either the key stays with the content, or it is
\* dropped as the content changes or a success is rendered.
LEMMA FormStep ==
  ASSUME TypeOK, ContentInv, \A s \in Submits : SameSubmission(s),
         \/ UNCHANGED <<key, media, fields, successes>>
         \/ /\ key' = None
            /\ media' \in Nat /\ fields' \in Nat /\ successes' \in Nat
            /\ media <= media' /\ fields <= fields' /\ successes <= successes'
            /\ media < media' \/ fields < fields' \/ successes < successes'
  PROVE  ContentInv'
<1> USE KeyTypes DEF ContentInv, SameSubmission
<1>1. KeyInv'
  BY DEF KeyInv, OwnKey, Content
<1>2. \A s \in Submits : (OwnKey(s)' <=> OwnKey(s)) /\ Content(s)' = Content(s)
  BY DEF OwnKey, Content
<1>3. OwnKeySameContent'
  BY <1>2 DEF OwnKeySameContent
<1>4. RetryKeepsKey'
  BY <1>2 DEF RetryKeepsKey
<1> QED
  BY <1>1, <1>3, <1>4

\* A submission begins, posts or goes on: one submission changes.
LEMMA SubmitStep ==
  ASSUME TypeOK, ContentInv, TypeOK', UNCHANGED <<media, fields, successes>>,
         NEW s \in Submits, \A t \in Submits \ {s} : SameSubmission(t),
         key' = key \/ (key = None /\ key' = keys + 1),
         subs'[s].started # None /\ subs'[s].started = key' => subs'[s].media = media,
         subs'[s].media <= media,
         subs'[s].posted => /\ subs'[s].stage = "post"
                            /\ subs'[s].sent = key' /\ subs'[s].fields = fields
                            /\ subs'[s].after = successes
  PROVE  ContentInv'
<1> USE KeyTypes DEF ContentInv, SameSubmission
<1>1. /\ subs'[s].media \in Nat /\ subs'[s].fields \in Nat /\ subs'[s].after \in Nat
  BY DEF TypeOK, SubmissionsOf
<1>2. ASSUME NEW t \in Submits, OwnKey(t), subs[t].sent = key'
      PROVE  key' = key
  BY <1>2 DEF OwnKey
<1>3. KeyInv'
  BY <1>1, <1>2 DEF KeyInv, OwnKey, Content
<1>4. \A t \in Submits \ {s} : (OwnKey(t)' <=> OwnKey(t)) /\ Content(t)' = Content(t)
  BY DEF OwnKey, Content
<1>5. OwnKey(s)' => /\ key' # None /\ subs'[s].sent = key' /\ subs'[s].after = successes
                    /\ Content(s)' = <<media, fields>>
  BY DEF OwnKey, Content
<1>6. \A t \in Submits : OwnKey(t) /\ subs[t].sent = key' => Content(t) = <<media, fields>>
  <2> SUFFICES ASSUME NEW t \in Submits, OwnKey(t), subs[t].sent = key'
               PROVE  Content(t) = <<media, fields>>
    OBVIOUS
  <2>1. subs[t].sent = key
    BY <1>2
  <2> QED
    BY <2>1 DEF KeyInv, OwnKey, Content
<1>7. \A t \in Submits : OwnKey(t) /\ Content(t) = <<media, fields>> /\ subs[t].after = successes
        => subs[t].sent = key
  BY DEF KeyInv
<1>8. \A t \in Submits : OwnKey(t) /\ subs[t].sent = key => key' = key
  BY DEF OwnKey
<1>9. OwnKeySameContent'
  BY <1>4, <1>5, <1>6 DEF OwnKeySameContent, SameSubmission
<1>10. RetryKeepsKey'
  BY <1>4, <1>5, <1>7, <1>8 DEF RetryKeepsKey, SameSubmission
<1> QED
  BY <1>3, <1>9, <1>10

LEMMA BeginStep ==
  ASSUME TypeOK, TypeOK', ContentInv, NEW s \in Submits, NEW sub \in SubmissionsOf(keys),
         ~sub.posted, Begin(s, sub), UNCHANGED <<media, fields, successes>>
  PROVE  ContentInv'
<1> USE KeyTypes
<1>1. key' = Minted /\ (Minted = key \/ (key = None /\ Minted = keys + 1))
  BY DEF Begin, Minted
<1>2. \A t \in Submits \ {s} : SameSubmission(t)
  BY DEF Begin, SameSubmission
<1>3. subs'[s] = IF hasImage \/ voice # None
                 THEN [[sub EXCEPT !.started = Minted, !.media = media] EXCEPT !.stage = "encode"]
                 ELSE Posted([sub EXCEPT !.started = Minted, !.media = media], Minted)
  BY DEF Begin
<1>4. /\ subs'[s].media = media
      /\ subs'[s].posted => /\ subs'[s].stage = "post"
                            /\ subs'[s].sent = key' /\ subs'[s].fields = fields
                            /\ subs'[s].after = successes
  <2>1. CASE hasImage \/ voice # None
    BY <1>3, <2>1 DEF SubmissionsOf
  <2>2. CASE ~(hasImage \/ voice # None)
    BY <1>1, <1>3, <2>2 DEF SubmissionsOf, Posted
  <2> QED
    BY <2>1, <2>2
<1> QED
  BY <1>1, <1>2, <1>4, SubmitStep

LEMMA ContentInvStep == TypeOK /\ TypeOK' /\ ContentInv /\ [Next]_vars => ContentInv'
<1> SUFFICES ASSUME TypeOK, TypeOK', ContentInv, [Next]_vars PROVE ContentInv'
  OBVIOUS
<1> USE KeyTypes
<1>1. ASSUME UNCHANGED <<subs, key, media, fields, successes>> PROVE ContentInv'
  BY <1>1, FormStep DEF SameSubmission
<1>2. CASE OpenDialog \/ StartRecording \/ Stop \/ UNCHANGED vars
  BY <1>1, <1>2 DEF OpenDialog, StartRecording, Stop, vars, formVars, buttonVars, submitVars
<1>3. ASSUME UNCHANGED <<subs, successes>>, key' = None,
             (media' = media + 1 /\ fields' \in {fields, fields + 1})
               \/ (media' = media /\ fields' = fields + 1)
      PROVE  ContentInv'
  BY <1>3, FormStep DEF SameSubmission
<1>4. CASE Edit \/ PasteImage \/ RemoveAttachment \/ CloseDialog
  BY <1>3, <1>4 DEF Edit, PasteImage, RemoveAttachment, CloseDialog, ContentChanged,
     AttachmentsChange, submitVars
<1>5. ASSUME NEW i \in Recordings, NotRecorded(i) \/ Granted(i) \/ DeviceLost(i)
      PROVE  ContentInv'
  BY <1>1, <1>5 DEF NotRecorded, Granted, DeviceLost, formVars, buttonVars, submitVars
<1>6. ASSUME NEW i \in Recordings, StopEvent(i) PROVE ContentInv'
  BY <1>1, <1>3, <1>6 DEF StopEvent, ContentChanged, AttachmentsChange, buttonVars, submitVars
<1>7. CASE Submit
  <2> DEFINE new == [NoSubmit EXCEPT !.opening = openings, !.awaits = recorder]
             idle == [new EXCEPT !.awaits = None]
  <2>1. submits' \in Submits /\ UNCHANGED <<media, fields, successes>>
    BY <1>7 DEF TypeOK, CountersOK, Submit, Submits, formVars
  <2>2. CASE IsRecording(recorder)
    <3>1. UNCHANGED key /\ subs' = [subs EXCEPT ![submits'] = [new EXCEPT !.stage = "finish"]]
      BY <1>7, <2>2 DEF Submit
    <3>2. \A t \in Submits \ {submits'} : SameSubmission(t)
      BY <3>1 DEF SameSubmission
    <3>3. /\ subs'[submits'].started = None /\ ~subs'[submits'].posted
          /\ subs'[submits'].media = 0
      BY <2>1, <3>1 DEF NoSubmit
    <3> QED
      BY <2>1, <3>1, <3>2, <3>3, SubmitStep
  <2>3. CASE ~IsRecording(recorder)
    <3>1. Begin(submits', idle)
      BY <1>7, <2>3 DEF Submit
    <3>2. keys \in Nat /\ openings \in 0 .. MaxOpenings /\ recorder \in Recordings \cup {None}
      BY DEF TypeOK, CountersOK, RecordingsOK
    <3>3. idle \in SubmissionsOf(keys)
      <4>1. NoSubmit \in SubmissionsOf(keys)
        BY <3>2 DEF NoSubmit, SubmissionsOf, Stages
      <4>2. new \in SubmissionsOf(keys)
        BY <3>2, <4>1 DEF SubmissionsOf
      <4> HIDE DEF new
      <4> QED
        BY <4>2 DEF SubmissionsOf
    <3>4. ~idle.posted
      BY DEF NoSubmit
    <3> HIDE DEF idle
    <3> QED
      BY <2>1, <3>1, <3>3, <3>4, BeginStep
  <2> QED
    BY <2>2, <2>3
<1>8. ASSUME NEW s \in Submits, RecordingFinished(s) \/ EscapeHatch(s) PROVE ContentInv'
  <2>1. /\ Begin(s, subs[s]) /\ subs[s].stage = "finish"
        /\ UNCHANGED <<media, fields, successes>>
    BY <1>8 DEF RecordingFinished, EscapeHatch, formVars
  <2>2. ~subs[s].posted
    BY <2>1 DEF ContentInv, KeyInv
  <2> QED
    BY <2>1, <2>2, BeginStep
<1>9. ASSUME NEW s \in Submits, Encoded(s) PROVE ContentInv'
  <2>1. /\ subs' = [subs EXCEPT ![s] = Posted(subs[s], key)]
        /\ UNCHANGED <<key, media, fields, successes>>
    BY <1>9 DEF Encoded, formVars, buttonVars
  <2>2. \A t \in Submits \ {s} : SameSubmission(t)
    BY <2>1 DEF SameSubmission
  <2>3. /\ subs'[s].media = subs[s].media /\ subs'[s].started = subs[s].started
        /\ subs'[s].stage = "post" /\ subs'[s].sent = key /\ subs'[s].fields = fields
        /\ subs'[s].after = successes
    BY <2>1 DEF Posted, SubmissionsOf
  <2> QED
    BY <2>1, <2>2, <2>3, SubmitStep DEF ContentInv, KeyInv
<1>10. ASSUME NEW s \in Submits,
              HeadersArrive(s) \/ SubmissionFails(s) \/ ReplyRejected(s) \/ ReplySucceeds(s)
       PROVE  ContentInv'
  <2>1. /\ \E x \in {"read", "done"} : subs' = [subs EXCEPT ![s] = [subs[s] EXCEPT !.stage = x]]
        /\ UNCHANGED <<media, fields>>
        /\ UNCHANGED <<key, successes>> \/ (key' = None /\ successes' = successes + 1)
    BY <1>10 DEF HeadersArrive, SubmissionFails, ReplyRejected, Rejected, ReplySucceeds,
       formVars, buttonVars
  <2>2. \A t \in Submits : SameSubmission(t)
    BY <2>1 DEF SameSubmission, SubmissionsOf
  <2> QED
    BY <2>1, <2>2, FormStep
<1> QED
  BY <1>2, <1>4, <1>5, <1>6, <1>7, <1>8, <1>9, <1>10 DEF Next, User, Recorder, Progress, Reply

\* What every key stands for: the inductive invariant of the submissions.
THEOREM ContentInvariant == Spec => []ContentInv
<1> QED
  BY ContentInvInit, ContentInvStep, TypeCorrect, PTL DEF Spec

\* Posts with one key of their own have one content: a replay by the Worker
\* never swallows a changed form.
THEOREM KeysTellContents == Spec => []OwnKeySameContent
<1>1. ContentInv => OwnKeySameContent
  BY DEF ContentInv
<1> QED
  BY <1>1, ContentInvariant, PTL

\* A retry of unchanged content carries the key of the attempt before.
THEOREM RetriesKeepTheirKey == Spec => []RetryKeepsKey
<1>1. ContentInv => RetryKeepsKey
  BY DEF ContentInv
<1> QED
  BY <1>1, ContentInvariant, PTL
=============================================================================
