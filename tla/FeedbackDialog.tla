--------------------------- MODULE FeedbackDialog ---------------------------
(***************************************************************************)
(* The feedback dialog of the HTML report: initFeedbackDialog in           *)
(* render/assets/app-js/03.js and 04.js.  The user edits, records, submits *)
(* and dismisses the dialog; permission grants, recorder events, file      *)
(* readers and replies of the Worker come back as callbacks, at any later  *)
(* time and in any order, onto whatever the dialog is by then.             *)
(*                                                                         *)
(* One action per callback: JavaScript runs each to its end, together with *)
(* the promise reactions it makes ready (a submission without attachments  *)
(* posts in the very click).  The content of the form is two version       *)
(* numbers, one for the fields and one for the attachments.                *)
(***************************************************************************)
EXTENDS Naturals, FiniteSets

CONSTANTS
  MaxOpenings,     \* bound: times the dialog is opened
  MaxEdits,        \* bound: edits of the fields and pasted images
  MaxRecordings,   \* bound: calls of startRecording
  MaxSubmits       \* bound: calls of doSubmit

ASSUME BoundAssumption ==
  {MaxOpenings, MaxEdits, MaxRecordings, MaxSubmits} \subseteq Nat

Recordings == 1 .. MaxRecordings
Submits == 1 .. MaxSubmits
None == 0   \* null: no key, no recorder, no stream, no recording

VARIABLES
  open,            \* dialog.open
  formShown,       \* the form region is visible
  filled,          \* the fields pass the gate of updateSubmitEnabled
  fields,          \* version of the fields' content
  media,           \* version of the attachments
  hasImage,        \* imgBlob # null
  voice,           \* the recording in voiceBlob, or None
  submitDisabled,  \* submitBtn.disabled
  recordDisabled,  \* recordBtn.disabled
  key,             \* idempotencyKey: the number of its minting, or None
  recSession,      \* the startRecording that recSessionId still matches
  rec,             \* state of each recording
  recorder,        \* the recording that recorder, recChunks and recStream
  recChunks,       \* each refer to, or None
  recStream,
  ticking,         \* the timer and the Stop button are shown
  live,            \* recordings whose microphone stream has live tracks
  subs,            \* the submissions
  edits, recordings, submits, keys,   \* counters
  openings,        \* history: times the dialog was opened
  successes,       \* history: replies rendered as success
  recordedIn,      \* history: the opening each recording was started in
  dropped,         \* history: recordings no attachment was made of
  unstartable      \* history: recordings whose MediaRecorder.start() threw

formVars == <<open, formShown, filled, fields, media, hasImage, voice, openings, edits>>
buttonVars == <<submitDisabled, key>>
recorderVars == <<rec, recorder, recChunks, recStream, ticking, live, recordDisabled>>
sessionVars == <<recSession, recordings, recordedIn, dropped, unstartable>>
submitVars == <<subs, submits, keys, successes>>
vars == <<formVars, buttonVars, recorderVars, sessionVars, submitVars>>

NoSubmit == [stage |-> "none", awaits |-> None, opening |-> 0, started |-> None,
             media |-> 0, posted |-> FALSE, sent |-> None, fields |-> 0, after |-> 0]

Init ==
  /\ open = FALSE /\ formShown = TRUE /\ filled = FALSE
  /\ fields = 0 /\ media = 0 /\ hasImage = FALSE /\ voice = None
  /\ submitDisabled = TRUE /\ recordDisabled = FALSE
  /\ key = None
  /\ recSession = None
  /\ rec = [i \in Recordings |-> "none"]
  /\ recorder = None /\ recChunks = None /\ recStream = None
  /\ ticking = FALSE
  /\ live = {}
  /\ subs = [s \in Submits |-> NoSubmit]
  /\ openings = 0 /\ edits = 0 /\ recordings = 0 /\ submits = 0 /\ keys = 0 /\ successes = 0
  /\ recordedIn = [i \in Recordings |-> 0]
  /\ dropped = {} /\ unstartable = {}
-----------------------------------------------------------------------------
\* Mutant of ContentChanged: the key is kept.
ContentChangedKeepsKey ==
  /\ submitDisabled' = ~filled'
  /\ UNCHANGED key

\* onFormContentChange, clearAttachment and addAttachment: what the user is
\* composing is no longer what the key was minted for.
ContentChanged ==
  /\ submitDisabled' = ~filled'
  /\ key' = None

AttachmentsChange(image, note) ==
  /\ hasImage' = image
  /\ voice' = note
  /\ media' = media + 1

OpenDialog ==
  /\ ~open
  /\ openings < MaxOpenings
  /\ openings' = openings + 1
  /\ open' = TRUE
  /\ formShown' = TRUE
  /\ submitDisabled' = ~filled
  /\ UNCHANGED <<filled, fields, media, hasImage, voice, edits, key,
                 recorderVars, sessionVars, submitVars>>

Edit ==
  /\ open /\ formShown
  /\ edits < MaxEdits
  /\ edits' = edits + 1
  /\ fields' = fields + 1
  /\ filled' \in BOOLEAN
  /\ ContentChanged
  /\ UNCHANGED <<open, formShown, media, hasImage, voice, openings,
                 recorderVars, sessionVars, submitVars>>

\* The dialog listens for a paste, so the success panel takes one too.
PasteImage ==
  /\ open
  /\ edits < MaxEdits
  /\ edits' = edits + 1
  /\ AttachmentsChange(TRUE, voice)
  /\ UNCHANGED filled
  /\ ContentChanged
  /\ UNCHANGED <<open, formShown, fields, openings, recorderVars, sessionVars, submitVars>>

RemoveAttachment ==
  /\ open /\ formShown
  /\ \/ hasImage /\ AttachmentsChange(FALSE, voice)
     \/ voice # None /\ AttachmentsChange(hasImage, None)
  /\ UNCHANGED filled
  /\ ContentChanged
  /\ UNCHANGED <<open, formShown, fields, openings, edits,
                 recorderVars, sessionVars, submitVars>>
-----------------------------------------------------------------------------
IsRecording(i) == i # None /\ rec[i] = "recording"

\* Mutant of StopRecording: the recorder is stopped, its stream is not.
StopRecordingOnly ==
  /\ rec' = IF IsRecording(recorder) THEN [rec EXCEPT ![recorder] = "stopping"] ELSE rec
  /\ recStream' = None
  /\ ticking' = FALSE
  /\ recordDisabled' = FALSE
  /\ UNCHANGED live

\* stopRecording: the microphone is released at once, the recorder's stop
\* event comes later.
StopRecording ==
  /\ rec' = IF IsRecording(recorder) THEN [rec EXCEPT ![recorder] = "stopping"] ELSE rec
  /\ live' = live \ {recStream}
  /\ recStream' = None
  /\ ticking' = FALSE
  /\ recordDisabled' = FALSE

\* The Stop button, the timer at 10 minutes, or Record while recording.
Stop ==
  /\ \/ ticking
     \/ open /\ formShown /\ ~recordDisabled /\ IsRecording(recorder)
  /\ StopRecording
  /\ UNCHANGED <<formVars, buttonVars, recorder, recChunks, sessionVars, submitVars>>

StartRecording ==
  /\ open /\ formShown /\ ~recordDisabled
  /\ ~IsRecording(recorder)
  /\ recordings < MaxRecordings
  /\ recordings' = recordings + 1
  /\ rec' = [rec EXCEPT ![recordings'] = "asking"]
  /\ recSession' = recordings'
  /\ recordedIn' = [recordedIn EXCEPT ![recordings'] = openings]
  /\ recordDisabled' = TRUE
  /\ UNCHANGED <<formVars, buttonVars, recorder, recChunks, recStream, ticking, live,
                 dropped, unstartable, submitVars>>

\* The guard of getUserMedia's continuation.
Superseded(i) == recSession # i \/ ~open

\* Permission denied, granted too late, or no MediaRecorder for the stream:
\* whatever stream there is has its tracks stopped.
NotRecorded(i) ==
  /\ rec[i] = "asking"
  /\ rec' = [rec EXCEPT ![i] = "ended"]
  /\ recordDisabled' = FALSE
  /\ UNCHANGED recStream \/ (~Superseded(i) /\ recStream' = None)
  /\ UNCHANGED <<formVars, buttonVars, recorder, recChunks, ticking, live, sessionVars,
                 submitVars>>

\* If start() throws, the handler of rejections enables Record, and no more.
Granted(i) ==
  /\ rec[i] = "asking"
  /\ ~Superseded(i)
  /\ recorder' = i /\ recChunks' = i /\ recStream' = i
  /\ live' = live \cup {i}
  /\ \/ /\ rec' = [rec EXCEPT ![i] = "recording"]
        /\ ticking' = TRUE /\ recordDisabled' = TRUE
        /\ UNCHANGED unstartable
     \/ /\ rec' = [rec EXCEPT ![i] = "ended"]
        /\ recordDisabled' = FALSE
        /\ unstartable' = unstartable \cup {i}
        /\ UNCHANGED ticking
  /\ UNCHANGED <<formVars, buttonVars, recSession, recordings, recordedIn, dropped, submitVars>>

\* The device goes away: the recorder stops by itself.
DeviceLost(i) ==
  /\ rec[i] = "recording"
  /\ rec' = [rec EXCEPT ![i] = "stopping"]
  /\ live' = live \ {i}
  /\ UNCHANGED <<formVars, buttonVars, recorder, recChunks, recStream, ticking, recordDisabled,
                 sessionVars, submitVars>>

\* Mutant of Collected: the recording must still have its stream.
CollectedWithStream(i) == recStream = i

\* The guard of the recorder's listeners: recChunks is still its own array.
Collected(i) == recChunks = i

\* dataavailable and stop; the recorder may have had no data.
StopEvent(i) ==
  /\ rec[i] = "stopping"
  /\ rec' = [rec EXCEPT ![i] = "ended"]
  /\ \/ /\ Collected(i)
        /\ AttachmentsChange(hasImage, i)
        /\ UNCHANGED <<filled, dropped>>
        /\ ContentChanged
     \/ /\ dropped' = IF Collected(i) THEN dropped ELSE dropped \cup {i}
        /\ UNCHANGED <<media, hasImage, voice, filled, buttonVars>>
  /\ IF recorder = i
     THEN recorder' = None /\ recChunks' = None
     ELSE UNCHANGED <<recorder, recChunks>>
  /\ UNCHANGED <<open, formShown, fields, openings, edits, recStream, ticking, live,
                 recordDisabled, recSession, recordings, recordedIn, unstartable, submitVars>>
-----------------------------------------------------------------------------
\* Mutant of Silence: recChunks stays.
SilenceNot == UNCHANGED recChunks

\* What closeDialog does to a recorder's late events.
Silence == recChunks' = None

\* closeDialog: Cancel, Escape, the backdrop or the Close of the success panel.
\* Its second run, on the close event, finds nothing left to do.
CloseDialog ==
  /\ open
  /\ open' = FALSE
  /\ recSession' = None
  /\ IF recorder # None \/ recStream # None \/ ticking
     THEN Silence /\ StopRecording
     ELSE UNCHANGED <<recChunks, rec, live, recStream, ticking, recordDisabled>>
  /\ AttachmentsChange(FALSE, None)
  /\ fields' = fields + 1
  /\ filled' = FALSE
  /\ ContentChanged
  /\ formShown' = TRUE
  /\ UNCHANGED <<openings, edits, recorder, recordings, recordedIn, dropped, unstartable,
                 submitVars>>
-----------------------------------------------------------------------------
\* The payload is built and fetch called; fields and key are read now, the
\* attachments were read before.
Posted(sub, current) ==
  [sub EXCEPT !.stage = "post", !.posted = TRUE, !.sent = current,
              !.fields = fields, !.after = successes]

\* The sticky key, or a new one.
Minted == IF key = None THEN keys + 1 ELSE key

\* doSubmit once no recording is being finished: mint, take the attachments,
\* and post unless there are some to encode first.
Begin(s, sub) ==
  LET begun == [sub EXCEPT !.started = Minted, !.media = media]
  IN  /\ key' = Minted
      /\ keys' = IF Minted > keys THEN Minted ELSE keys
      /\ subs' = [subs EXCEPT ![s] = IF hasImage \/ voice # None
                                     THEN [begun EXCEPT !.stage = "encode"]
                                     ELSE Posted(begun, Minted)]

\* A submit event; an active recording is stopped, and awaited.
Submit ==
  /\ open /\ ~submitDisabled
  /\ submits < MaxSubmits
  /\ submits' = submits + 1
  /\ submitDisabled' = TRUE
  /\ LET new == [NoSubmit EXCEPT !.opening = openings, !.awaits = recorder]
     IN  IF IsRecording(recorder)
         THEN /\ subs' = [subs EXCEPT ![submits'] = [new EXCEPT !.stage = "finish"]]
              /\ StopRecording
              /\ UNCHANGED <<key, keys>>
         ELSE /\ Begin(submits', [new EXCEPT !.awaits = None])
              /\ UNCHANGED <<rec, live, recStream, ticking, recordDisabled>>
  /\ UNCHANGED <<formVars, recorder, recChunks, sessionVars, successes>>

\* The recorder's stop event was delivered; its listener ran before.
RecordingFinished(s) ==
  /\ subs[s].stage = "finish"
  /\ rec[subs[s].awaits] = "ended"
  /\ Begin(s, subs[s])
  /\ UNCHANGED <<formVars, submitDisabled, recorderVars, sessionVars, submits, successes>>

\* Mutant of EscapeHatch: there is none.
EscapeHatchNone(s) ==
  /\ FALSE
  /\ UNCHANGED vars

\* 1500 ms have passed without a stop event.
EscapeHatch(s) ==
  /\ subs[s].stage = "finish"
  /\ rec[subs[s].awaits] # "ended"
  /\ Begin(s, subs[s])
  /\ UNCHANGED <<formVars, submitDisabled, recorderVars, sessionVars, submits, successes>>

Encoded(s) ==
  /\ subs[s].stage = "encode"
  /\ subs' = [subs EXCEPT ![s] = Posted(@, key)]
  /\ UNCHANGED <<formVars, buttonVars, recorderVars, sessionVars, submits, keys, successes>>

\* The response has a status: the timer that aborts the request is cleared.
HeadersArrive(s) ==
  /\ subs[s].stage = "post"
  /\ subs' = [subs EXCEPT ![s].stage = "read"]
  /\ UNCHANGED <<formVars, buttonVars, recorderVars, sessionVars, submits, keys, successes>>

\* An attachment cannot be read, the network fails, or 15 s have passed: the
\* fallback opens GitHub, and Submit is enabled.
SubmissionFails(s) ==
  /\ subs[s].stage \in {"encode", "post"}
  /\ subs' = [subs EXCEPT ![s].stage = "done"]
  /\ submitDisabled' = FALSE
  /\ UNCHANGED <<formVars, key, recorderVars, sessionVars, submits, keys, successes>>

\* Mutant of Rejected: an error reply ends the logical submission.
RejectedDropsKey ==
  /\ submitDisabled' = FALSE
  /\ key' = None

\* 400, 409 and 429 show an error, anything else the fallback.
Rejected ==
  /\ submitDisabled' = FALSE
  /\ UNCHANGED key

ReplyRejected(s) ==
  /\ subs[s].stage = "read"
  /\ subs' = [subs EXCEPT ![s].stage = "done"]
  /\ Rejected
  /\ UNCHANGED <<formVars, recorderVars, sessionVars, submits, keys, successes>>

\* renderSuccess.  The Worker answers a request without a key with 400.
ReplySucceeds(s) ==
  /\ subs[s].stage = "read"
  /\ subs[s].sent # None
  /\ subs' = [subs EXCEPT ![s].stage = "done"]
  /\ key' = None
  /\ formShown' = FALSE
  /\ successes' = successes + 1
  /\ UNCHANGED <<open, filled, fields, media, hasImage, voice, openings, edits, submitDisabled,
                 recorderVars, sessionVars, submits, keys>>

User ==
  \/ OpenDialog \/ Edit \/ PasteImage \/ RemoveAttachment
  \/ StartRecording \/ Stop \/ Submit \/ CloseDialog

Recorder ==
  \E i \in Recordings : NotRecorded(i) \/ Granted(i) \/ DeviceLost(i) \/ StopEvent(i)

\* A submission up to the response's headers, and after them.
Progress(s) ==
  RecordingFinished(s) \/ EscapeHatch(s) \/ Encoded(s) \/ SubmissionFails(s) \/ HeadersArrive(s)

Reply(s) == ReplyRejected(s) \/ ReplySucceeds(s)

Next == User \/ Recorder \/ \E s \in Submits : Progress(s) \/ Reply(s)

Spec == Init /\ [][Next]_vars

\* Timers fire, file readers end, and a fetch that is aborted rejects.  The
\* user, the recorder's stop event and the body of the response owe nothing.
FairSpec == Spec /\ \A s \in Submits : WF_vars(Progress(s))
-----------------------------------------------------------------------------
Stages == {"none", "finish", "encode", "post", "read", "done"}

SubmissionsOf(n) ==   \* with n keys minted
  [stage : Stages, awaits : Recordings \cup {None}, opening : 0 .. MaxOpenings,
   started : 0 .. n, media : Nat, posted : BOOLEAN, sent : 0 .. n, fields : Nat, after : Nat]

FlagsOK ==
  /\ open \in BOOLEAN /\ formShown \in BOOLEAN /\ filled \in BOOLEAN /\ hasImage \in BOOLEAN
  /\ submitDisabled \in BOOLEAN /\ recordDisabled \in BOOLEAN /\ ticking \in BOOLEAN

CountersOK ==
  /\ fields \in Nat /\ media \in Nat /\ edits \in Nat /\ successes \in Nat
  /\ openings \in 0 .. MaxOpenings
  /\ recordings \in 0 .. MaxRecordings
  /\ submits \in 0 .. MaxSubmits
  /\ keys \in Nat /\ key \in 0 .. keys

RecordingsOK ==
  /\ {recSession, recorder, recChunks, recStream, voice} \subseteq Recordings \cup {None}
  /\ rec \in [Recordings -> {"none", "asking", "recording", "stopping", "ended"}]
  /\ live \subseteq Recordings /\ dropped \subseteq Recordings /\ unstartable \subseteq Recordings
  /\ recordedIn \in [Recordings -> 0 .. MaxOpenings]

\* Every variable stays in its domain.
TypeOK ==
  /\ FlagsOK /\ CountersOK /\ RecordingsOK
  /\ subs \in [Submits -> SubmissionsOf(keys)]

\* data-model.md, recording state machine: one MediaRecorder records at a
\* time, although late grants and stop events enable Record out of turn.
OneActiveRecorder == Cardinality({i \in Recordings : rec[i] = "recording"}) <= 1

\* No microphone stays open behind the dialog's back: a live stream is the
\* one the next stopRecording stops, and a closed dialog has none, except
\* for a recorder that could not be started.
NoStrayMicrophone ==
  \A i \in live \ unstartable : open /\ recStream = i

\* A recording of a dismissed dialog never becomes an attachment of a later
\* one, however late its stop event is.
CancelledRecordingStaysOut ==
  voice # None => open /\ recordedIn[voice] = openings

\* A recording is dropped only if its dialog was dismissed or another
\* recording was started before its stop event.
DroppedForAReason ==
  \A i \in dropped : recordedIn[i] < openings \/ ~open \/ i < recordings

Content(s) == <<subs[s].media, subs[s].fields>>

\* The key a submission sends is the one it minted or found.
OwnKey(s) == subs[s].posted /\ subs[s].sent # None /\ subs[s].sent = subs[s].started

\* Two posts with one key have one content, so the Worker's replay of the
\* first cannot swallow what the second says, unless a post took over the key
\* of a submission that overlapped it.
OwnKeySameContent ==
  \A s, t \in Submits : OwnKey(s) /\ OwnKey(t) /\ subs[s].sent = subs[t].sent
    => Content(s) = Content(t)

\* A retry of unchanged content carries the key of the first attempt, so that
\* the Worker can recognise it, unless a success was rendered in between.
RetryKeepsKey ==
  \A s, t \in Submits : OwnKey(s) /\ OwnKey(t) /\ Content(s) = Content(t)
    => subs[s].sent = subs[t].sent \/ subs[s].after # subs[t].after

\* A submission is not held up by a recorder that never stops, a file reader
\* or the Worker: it gets a response, or falls back.
SubmissionGetsThrough ==
  \A s \in Submits :
    subs[s].stage \in {"finish", "encode", "post"} ~> subs[s].stage \in {"read", "done"}
=============================================================================
