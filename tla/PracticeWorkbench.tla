--------------------------- MODULE PracticeWorkbench ---------------------------
(***************************************************************************)
(* The recording sessions of the web client (PracticeWorkbench.tsx,        *)
(* capture.ts, transport.ts, coachClient.ts).                              *)
(*                                                                         *)
(* JavaScript runs one handler at a time, up to its next await.  Every     *)
(* asynchronous call of a handler is a run: starting a session, stopping   *)
(* one, a demo analysis, a microphone check, the classification of a       *)
(* chosen MGG file.  An action is the code between two awaits, and what    *)
(* a run read before an await (its closure and locals) stays in the run.   *)
(* React applies a handler's state updates and effects before the next     *)
(* handler runs.                                                           *)
(***************************************************************************)
EXTENDS Naturals, Sequences, FiniteSets

CONSTANTS Runs,     \* asynchronous calls in progress at a time
          Takes,    \* MicrophoneCapture objects, one per started session
          MaxLoads, \* bound on the songs loaded
          MaxDemos, \* bound: no demo starts once the history is this long
          None      \* null

ASSUME WorkbenchAssumption == MaxLoads \in Nat \ {0} /\ MaxDemos \in Nat /\ None \notin Takes /\ None \notin Runs

VARIABLES
  mounted,      \* mountedRef
  ui,           \* sessionState
  song,         \* the song, numbered by its load; 0 is null
  demo,         \* song.isDemo
  rights,       \* rightsAccepted
  wave,         \* waveform.current: the song it was created for, or 0
  shown,        \* the song that the analysis on display is about, or 0
  dialog,       \* the microphone dialog
  skipped,      \* microphoneCheckSkipped
  mic,          \* per take: its media stream
  captureRef,   \* capture.current
  recordingRef, \* recordingRef.current
  timers,       \* takes whose transport interval is running
  timerRef,     \* transportTimer.current
  coachRef,     \* coachAbort.current, by the run that made it
  checkRef,     \* microphoneCheckAbort.current, by the run that made it
  run,          \* per run: [pc, take, song]
  history,      \* the practice history: [take, song]
  disturbed     \* (history variable) a song has arrived while a session was busy

screen == <<ui, recordingRef>>
source == <<song, demo, rights, wave>>
hardware == <<mic, captureRef>>
clockwork == <<timers, timerRef>>
preferences == <<dialog, skipped, checkRef>>
vars == <<mounted, screen, source, shown, preferences, hardware, clockwork,
          coachRef, run, history, disturbed>>

SessionStates == {"idle", "arming", "recording", "analyzing", "ready", "error"}
DialogStates == {"closed", "idle", "checking", "error", "passed"}
RunStates == {"idle", "opening", "anchoring", "discarding", "failing",
              "closing", "decoding", "coaching", "demo", "checking", "classifying"}
Loads == 0 .. MaxLoads
RunRecord == [pc : RunStates, take : Takes \cup {None}, song : Loads]
-----------------------------------------------------------------------------
Done == [pc |-> "idle", take |-> None, song |-> 0]

Begin(r, pc, t, s) ==
  /\ run[r] = Done
  /\ run' = [run EXCEPT ![r] = [pc |-> pc, take |-> t, song |-> s]]

Go(r, pc) == run' = [run EXCEPT ![r].pc = pc]
End(r) == run' = [run EXCEPT ![r] = Done]

\* setSessionState, and the effect that keeps recordingRef in step with it
Show(state) == ui' = state /\ recordingRef' = (state = "recording")

\* Faulty variant of Busy: a session may start while a take is being analysed.
BusyUntilStopped == ui \in {"arming", "recording"}

Busy == ui \in {"arming", "recording", "analyzing"}
SourceLocked == dialog # "closed" \/ Busy

\* stopping a capture stops its tracks before the first await; twice does no harm
Close(t) == mic' = [mic EXCEPT ![t] = "closed"]

\* Faulty variant of ClearTimer: the reference is reset to another value than null.
ClearTimerToZero == timers' = timers \ {timerRef} /\ timerRef' = 0

ClearTimer == timers' = timers \ {timerRef} /\ timerRef' = None

Init ==
  /\ mounted = TRUE
  /\ ui = "idle" /\ recordingRef = FALSE
  /\ song = 0 /\ demo = FALSE /\ rights = FALSE /\ wave = 0 /\ shown = 0
  /\ dialog = "closed" /\ skipped \in BOOLEAN /\ checkRef = None
  /\ mic = [t \in Takes |-> "unused"] /\ captureRef = None
  /\ timers = {} /\ timerRef = None
  /\ coachRef = None
  /\ run = [r \in Runs |-> Done]
  /\ history = << >>
  /\ disturbed = FALSE
-----------------------------------------------------------------------------
(* The song.                                                               *)

\* setSongBlob; the new song's waveform comes later
SetSong(isDemo) ==
  /\ song < MaxLoads
  /\ song' = song + 1
  /\ demo' = isDemo
  /\ rights' = isDemo
  /\ wave' = 0
  /\ coachRef' = None
  /\ disturbed' = (disturbed \/ Busy)

LoadSong(isDemo) ==
  /\ mounted /\ ~SourceLocked
  /\ SetSong(isDemo)
  /\ shown' = 0
  /\ Show("idle")
  /\ UNCHANGED <<mounted, preferences, hardware, clockwork, run, history>>

\* an MGG file is classified first; nothing is locked meanwhile
PickMgg(r) ==
  /\ mounted /\ ~SourceLocked
  /\ Begin(r, "classifying", None, 0)
  /\ UNCHANGED <<mounted, screen, source, shown, preferences, hardware, clockwork,
                 coachRef, history, disturbed>>

AcceptMgg(r) ==
  /\ run[r].pc = "classifying"
  /\ mounted
  /\ SetSong(FALSE)
  /\ shown' = 0
  /\ Show("idle")
  /\ End(r)
  /\ UNCHANGED <<mounted, preferences, hardware, clockwork, history>>

\* encrypted or unreadable, or the page is gone
RefuseMgg(r) ==
  /\ run[r].pc = "classifying"
  /\ End(r)
  /\ UNCHANGED <<mounted, screen, source, shown, preferences, hardware, clockwork,
                 coachRef, history, disturbed>>

WaveReady ==
  /\ mounted
  /\ wave # song
  /\ wave' = song
  /\ UNCHANGED <<mounted, screen, song, demo, rights, shown, preferences, hardware,
                 clockwork, coachRef, run, history, disturbed>>

ToggleRights ==
  /\ mounted
  /\ song # 0 /\ ~demo /\ ui # "recording"
  /\ rights' = ~rights
  /\ UNCHANGED <<mounted, screen, song, demo, wave, shown, preferences, hardware,
                 clockwork, coachRef, run, history, disturbed>>
-----------------------------------------------------------------------------
(* The microphone dialog, and the session it starts.                       *)

\* startSession up to its first await; without a waveform or the singer's rights
\* it does nothing
StartSession(r, t) ==
  /\ mic[t] = "unused"
  /\ IF wave = 0 \/ ~rights
     THEN UNCHANGED <<screen, shown, mic, coachRef, run>>
     ELSE /\ coachRef' = None
          /\ shown' = 0
          /\ Show("arming")
          /\ mic' = [mic EXCEPT ![t] = "asked"]
          /\ Begin(r, "opening", t, wave)

CanStart == mounted /\ dialog = "closed" /\ ~Busy /\ song # 0 /\ wave # 0 /\ rights

StartUnchecked(r, t) ==
  /\ CanStart
  /\ skipped
  /\ StartSession(r, t)
  /\ UNCHANGED <<mounted, source, preferences, captureRef, clockwork, history, disturbed>>

OpenDialog ==
  /\ CanStart
  /\ ~skipped
  /\ dialog' = "idle"
  /\ UNCHANGED <<mounted, screen, source, shown, skipped, checkRef, hardware, clockwork,
                 coachRef, run, history, disturbed>>

\* Faulty variant of CloseDialog: the check under way stays the current one.
CloseDialogKeepsCheck ==
  /\ mounted
  /\ dialog # "closed"
  /\ dialog' = "closed"
  /\ UNCHANGED <<mounted, screen, source, shown, skipped, checkRef, hardware, clockwork,
                 coachRef, run, history, disturbed>>

CloseDialog ==
  /\ mounted
  /\ dialog # "closed"
  /\ dialog' = "closed"
  /\ checkRef' = None
  /\ UNCHANGED <<mounted, screen, source, shown, skipped, hardware, clockwork,
                 coachRef, run, history, disturbed>>

RunCheck(r) ==
  /\ mounted
  /\ dialog \in {"idle", "error", "passed"}
  /\ checkRef = None
  /\ checkRef' = r
  /\ dialog' = "checking"
  /\ Begin(r, "checking", None, 0)
  /\ UNCHANGED <<mounted, screen, source, shown, skipped, hardware, clockwork,
                 coachRef, history, disturbed>>

\* Faulty variant of CheckEnds: the result of an abandoned check is shown.
CheckEndsAnyway(r) ==
  /\ run[r].pc = "checking"
  /\ dialog' \in {"error", "passed"}
  /\ checkRef' = IF checkRef = r THEN None ELSE checkRef
  /\ End(r)
  /\ UNCHANGED <<mounted, screen, source, shown, skipped, hardware, clockwork,
                 coachRef, history, disturbed>>

\* the current check decides; an abandoned one is dropped, and so is one that the
\* browser ends with an AbortError of its own, which the catch takes for a cancel
CheckEnds(r) ==
  /\ run[r].pc = "checking"
  /\ \/ mounted /\ checkRef = r /\ dialog' \in {"error", "passed"}
     \/ UNCHANGED dialog
  /\ checkRef' = IF checkRef = r THEN None ELSE checkRef
  /\ End(r)
  /\ UNCHANGED <<mounted, screen, source, shown, skipped, hardware, clockwork,
                 coachRef, history, disturbed>>

Confirm(r, t) ==
  /\ mounted
  /\ dialog = "passed"
  /\ dialog' = "closed"
  /\ checkRef' = None
  /\ skipped' \in {skipped, TRUE}
  /\ StartSession(r, t)
  /\ UNCHANGED <<mounted, source, captureRef, clockwork, history, disturbed>>

RestoreReminder ==
  /\ mounted
  /\ skipped
  /\ skipped' = FALSE
  /\ UNCHANGED <<mounted, screen, source, shown, dialog, checkRef, hardware, clockwork,
                 coachRef, run, history, disturbed>>
-----------------------------------------------------------------------------
(* startSession after its awaits: capture.start(), then playback.          *)

\* the user grants the stream; the audio graph is still being built
GrantStream(r) ==
  /\ run[r].pc = "opening"
  /\ mic[run[r].take] = "asked"
  /\ mic' = [mic EXCEPT ![run[r].take] = "open"]
  /\ UNCHANGED <<mounted, screen, source, shown, preferences, captureRef, clockwork,
                 coachRef, run, history, disturbed>>

\* Faulty variant of CaptureStarted: the session is given up without a stop.
CaptureStartedKept(r) ==
  /\ run[r].pc = "opening"
  /\ mic[run[r].take] = "open"
  /\ UNCHANGED mic
  /\ IF mounted /\ wave = run[r].song
     THEN captureRef' = run[r].take /\ Go(r, "anchoring")
     ELSE Go(r, "discarding") /\ UNCHANGED captureRef
  /\ UNCHANGED <<mounted, screen, source, shown, preferences, clockwork,
                 coachRef, history, disturbed>>

CaptureStarted(r) ==
  /\ run[r].pc = "opening"
  /\ mic[run[r].take] = "open"
  /\ IF mounted /\ wave = run[r].song
     THEN captureRef' = run[r].take /\ Go(r, "anchoring") /\ UNCHANGED mic
     ELSE Close(run[r].take) /\ Go(r, "discarding") /\ UNCHANGED captureRef
  /\ UNCHANGED <<mounted, screen, source, shown, preferences, clockwork,
                 coachRef, history, disturbed>>

\* the new interval is stored over the reference to any older one
Anchored(r) ==
  LET t == run[r].take
  IN  /\ run[r].pc = "anchoring"
      /\ IF mounted /\ captureRef = t
         THEN /\ timers' = timers \cup {t} /\ timerRef' = t
              /\ Show("recording")
              /\ End(r)
              /\ UNCHANGED mic
         ELSE Close(t) /\ Go(r, "discarding") /\ UNCHANGED <<clockwork, screen>>
      /\ UNCHANGED <<mounted, source, shown, preferences, captureRef, coachRef, history, disturbed>>

\* Faulty variant of StartFails: the catch forgets the capture.
StartFailsOpen(r) ==
  /\ run[r].pc \in {"opening", "anchoring"}
  /\ ClearTimer
  /\ recordingRef' = FALSE
  /\ Go(r, "failing")
  /\ UNCHANGED <<mounted, ui, source, shown, preferences, hardware, coachRef, history, disturbed>>

\* permission denied, no audio graph or no playback: the catch up to its await
StartFails(r) ==
  /\ run[r].pc \in {"opening", "anchoring"}
  /\ ClearTimer
  /\ recordingRef' = FALSE
  /\ Close(run[r].take)
  /\ Go(r, "failing")
  /\ UNCHANGED <<mounted, ui, source, shown, preferences, captureRef, coachRef, history, disturbed>>

StartFailed(r) ==
  /\ run[r].pc = "failing"
  /\ IF mounted
     THEN skipped' = FALSE /\ Show("error") /\ captureRef' = None
     ELSE UNCHANGED <<skipped, screen, captureRef>>
  /\ End(r)
  /\ UNCHANGED <<mounted, source, shown, dialog, checkRef, mic, clockwork, coachRef, history, disturbed>>

Discarded(r) ==
  /\ run[r].pc = "discarding"
  /\ End(r)
  /\ UNCHANGED <<mounted, screen, source, shown, preferences, hardware, clockwork,
                 coachRef, history, disturbed>>
-----------------------------------------------------------------------------
(* stopSession, from the button or from playback reaching the selection's  *)
(* end, and the analysis it ends in.                                       *)

\* Faulty variant of StopSession: recordingRef is not the guard.
StopSessionTwice(r) ==
  /\ mounted
  /\ captureRef # None
  /\ Show("analyzing")
  /\ ClearTimer
  /\ Close(captureRef)
  /\ Begin(r, "closing", captureRef, song)
  /\ UNCHANGED <<mounted, source, shown, preferences, captureRef, coachRef, history, disturbed>>

StopSession(r) ==
  /\ recordingRef
  /\ captureRef # None
  /\ Show("analyzing")
  /\ ClearTimer
  /\ Close(captureRef)
  /\ Begin(r, "closing", captureRef, song)
  /\ UNCHANGED <<mounted, source, shown, preferences, captureRef, coachRef, history, disturbed>>

\* the samples are in and loud enough; the reference is decoded next
TakeCaptured(r) ==
  /\ run[r].pc = "closing"
  /\ Go(r, "decoding")
  /\ UNCHANGED <<mounted, screen, source, shown, preferences, hardware, clockwork,
                 coachRef, history, disturbed>>

\* a take that is too quiet loses the analysis on display; a failing close or
\* decode does not.  The finally clause drops whatever capture is current.
StopFails(r) ==
  /\ run[r].pc \in {"closing", "decoding"}
  /\ Show("error")
  /\ captureRef' = None
  /\ shown' \in IF run[r].pc = "closing" THEN {shown, 0} ELSE {shown}
  /\ End(r)
  /\ UNCHANGED <<mounted, source, preferences, mic, clockwork, coachRef, history, disturbed>>

\* Faulty variant of TakeAnalyzed: the controller is not registered.
TakeAnalyzedUnregistered(r) ==
  /\ run[r].pc = "decoding"
  /\ shown' = run[r].song
  /\ Go(r, "coaching")
  /\ UNCHANGED <<mounted, screen, source, preferences, hardware, clockwork, coachRef,
                 history, disturbed>>

\* completeAnalysis up to its await: the run's request is the current one now
TakeAnalyzed(r) ==
  /\ run[r].pc = "decoding"
  /\ coachRef' = r
  /\ shown' = run[r].song
  /\ Go(r, "coaching")
  /\ UNCHANGED <<mounted, screen, source, preferences, hardware, clockwork, history, disturbed>>

\* the demo brings its own take and song
RunDemo(r) ==
  /\ mounted /\ ~SourceLocked
  /\ Len(history) < MaxDemos
  /\ IF demo THEN UNCHANGED <<source, disturbed>>
     ELSE song = 0 /\ song' = 1 /\ demo' = TRUE /\ rights' = TRUE /\ wave' = 0 /\ UNCHANGED disturbed
  /\ Begin(r, "demo", None, song')
  /\ coachRef' = r
  /\ shown' = song'
  /\ Show("analyzing")
  /\ UNCHANGED <<mounted, preferences, hardware, clockwork, history>>

\* Faulty variant of CoachAnswers: a superseded request is not recognised.
CoachAnswersLate(r) ==
  /\ run[r].pc \in {"coaching", "demo"}
  /\ IF mounted
     THEN /\ coachRef' = None
          /\ shown' = run[r].song
          /\ Show("ready")
          /\ history' = <<[take |-> run[r].take, song |-> run[r].song]>> \o history
     ELSE UNCHANGED <<coachRef, shown, screen, history>>
  /\ captureRef' = IF run[r].pc = "coaching" THEN None ELSE captureRef
  /\ End(r)
  /\ UNCHANGED <<mounted, source, preferences, mic, clockwork, disturbed>>

\* the coach's answer, or the local rules after an error or a timeout; an aborted
\* or superseded request is dropped.  Then the finally clause of stopSession.
CoachAnswers(r) ==
  /\ run[r].pc \in {"coaching", "demo"}
  /\ IF mounted /\ coachRef = r
     THEN /\ coachRef' = None
          /\ shown' = run[r].song
          /\ Show("ready")
          /\ history' = <<[take |-> run[r].take, song |-> run[r].song]>> \o history
     ELSE UNCHANGED <<coachRef, shown, screen, history>>
  /\ captureRef' = IF run[r].pc = "coaching" THEN None ELSE captureRef
  /\ End(r)
  /\ UNCHANGED <<mounted, source, preferences, mic, clockwork, disturbed>>
-----------------------------------------------------------------------------
\* the cleanup of the effects
Unmount ==
  /\ mounted
  /\ mounted' = FALSE
  /\ timers' = timers \ {timerRef}
  /\ mic' = [t \in Takes |-> IF t = captureRef THEN "closed" ELSE mic[t]]
  /\ captureRef' = None
  /\ recordingRef' = FALSE
  /\ checkRef' = None
  /\ coachRef' = None
  /\ wave' = 0
  /\ UNCHANGED <<ui, song, demo, rights, shown, dialog, skipped, timerRef, run, history, disturbed>>
-----------------------------------------------------------------------------
User ==
  \/ \E d \in BOOLEAN : LoadSong(d)
  \/ WaveReady \/ ToggleRights \/ OpenDialog \/ CloseDialog \/ RestoreReminder
  \/ \E r \in Runs : PickMgg(r) \/ RunCheck(r) \/ RunDemo(r) \/ StopSession(r) \/ GrantStream(r)
  \/ \E r \in Runs, t \in Takes : StartUnchecked(r, t) \/ Confirm(r, t)
  \/ Unmount

\* what follows an await of run r, which the browser or the network settles; only
\* the permission prompt may stay open for ever
Continue(r) ==
  \/ AcceptMgg(r) \/ RefuseMgg(r) \/ CheckEnds(r)
  \/ CaptureStarted(r) \/ Anchored(r) \/ StartFailed(r) \/ Discarded(r)
  \/ TakeCaptured(r) \/ TakeAnalyzed(r) \/ StopFails(r) \/ CoachAnswers(r)

Next == User \/ \E r \in Runs : StartFails(r) \/ Continue(r)

Fairness == \A r \in Runs : WF_vars(Continue(r))

Spec == Init /\ [][Next]_vars /\ Fairness
-----------------------------------------------------------------------------
TypeOK ==
  /\ mounted \in BOOLEAN /\ recordingRef \in BOOLEAN /\ demo \in BOOLEAN
  /\ rights \in BOOLEAN /\ skipped \in BOOLEAN /\ disturbed \in BOOLEAN
  /\ ui \in SessionStates /\ dialog \in DialogStates
  /\ song \in Loads /\ wave \in Loads /\ shown \in Loads
  /\ mic \in [Takes -> {"unused", "asked", "open", "closed"}]
  /\ captureRef \in Takes \cup {None} /\ timerRef \in Takes \cup {None}
  /\ timers \subseteq Takes
  /\ coachRef \in Runs \cup {None} /\ checkRef \in Runs \cup {None}
  /\ run \in [Runs -> RunRecord]
  /\ history \in Seq([take : Takes \cup {None}, song : Loads])

Starting(t) == \E r \in Runs : run[r].pc \in {"opening", "anchoring"} /\ run[r].take = t

\* Every open microphone is the current capture's or that of a session still being
\* started, so that a stop, a failure or the unmount will close it: unless a song
\* arrived in the middle of a session, none is lost between the awaits of
\* startSession and stopSession.
MicIsOwned ==
  ~disturbed => \A t \in Takes : mic[t] = "open" => captureRef = t \/ Starting(t)

\* While the page says it records, the current capture is open, its transport is
\* sampled, and stopSession will accept to stop it: the finally clause of an
\* earlier stop never takes the new session's capture away.
RecordingIsLive ==
  (mounted /\ ~disturbed /\ ui = "recording") =>
    /\ captureRef # None /\ mic[captureRef] = "open"
    /\ timers = {captureRef} /\ timerRef = captureRef
    /\ recordingRef

\* A take enters the history once, although the button and the end of the
\* selection both stop the session.
OneEntryPerTake ==
  ~disturbed => \A i, j \in DOMAIN history :
    (history[i].take = history[j].take /\ history[i].take # None) => i = j

\* The current check is under way and is what the dialog shows: closing, confirming
\* and leaving abandon it, so that runMicrophoneCheck's guard on the controller never
\* blocks a later dialog.
DialogAwaitsCheck ==
  (mounted /\ checkRef # None) => (dialog = "checking" /\ run[checkRef].pc = "checking")

\* A verdict in the dialog is that of the check it waits for: the result of a check
\* abandoned with an earlier dialog never decides for a later one
\* (runMicrophoneCheck after its await).
VerdictsAreCurrent ==
  [][(dialog' # dialog /\ dialog' \in {"error", "passed"}) =>
       /\ mounted /\ checkRef # None
       /\ run[checkRef].pc = "checking" /\ run'[checkRef].pc # "checking"]_vars

\* "aborts an in-flight request when the analysis is superseded"
\* (coachClient.test.ts line 41): no answer is recorded for another song's
\* analysis than the one on display.
AnswersMatchDisplay ==
  [][history' # history => shown \in {0, Head(history').song}]_vars

\* An analysis always ends, in a coach's answer, the local rules or an error.
AnalysisEnds == (mounted /\ ui = "analyzing") ~> (~mounted \/ ui # "analyzing")

\* Leaving the page closes the microphone and stops the transport's interval, also
\* for a session whose start is still under way.
UnmountReleases ==
  \A t \in Takes :
    (~mounted /\ ~disturbed /\ mic[t] = "open") ~> (mic[t] = "closed" /\ timers = {})
-----------------------------------------------------------------------------
\* PracticeWorkbench.tsx line 1461 labels the idle session "standby": no capture is
\* open then, but for one whose start has still to notice that it came too late.
StandbyIsSilent ==
  (mounted /\ ui = "idle") => \A t \in Takes : mic[t] = "open" => Starting(t)

\* MicrophoneCheckDialog.tsx line 193 says of the state "checking" that the microphone
\* is being checked ("正在检查"): a check is then under way.
CheckingMeansCheck ==
  (mounted /\ dialog = "checking") => \E r \in Runs : checkRef = r /\ run[r].pc = "checking"
=============================================================================
