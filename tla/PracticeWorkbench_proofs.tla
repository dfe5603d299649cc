---------------------- MODULE PracticeWorkbench_proofs ----------------------
(***************************************************************************)
(* Invariance proofs about PracticeWorkbench, for every number of takes,   *)
(* asynchronous calls, songs and demos.                                    *)
(***************************************************************************)
EXTENDS PracticeWorkbench, SequenceTheorems, TLAPS

\* Every step is one of the actions: the case split all invariance proofs use.
LEMMA StepCases ==
  ASSUME [Next]_vars
  PROVE  \/ \E d \in BOOLEAN : LoadSong(d)
         \/ WaveReady \/ ToggleRights \/ OpenDialog \/ CloseDialog \/ RestoreReminder \/ Unmount
         \/ \E r \in Runs : \/ PickMgg(r) \/ RunCheck(r) \/ RunDemo(r) \/ StopSession(r)
                            \/ GrantStream(r) \/ AcceptMgg(r) \/ RefuseMgg(r) \/ CheckEnds(r)
                            \/ CaptureStarted(r) \/ Anchored(r) \/ StartFails(r) \/ StartFailed(r)
                            \/ Discarded(r) \/ TakeCaptured(r) \/ TakeAnalyzed(r) \/ StopFails(r)
                            \/ CoachAnswers(r)
         \/ \E r \in Runs, t \in Takes : StartUnchecked(r, t) \/ Confirm(r, t)
         \/ UNCHANGED vars
  BY DEF Next, User, Continue
-----------------------------------------------------------------------------
(* Types.                                                                  *)

\* A session's run keeps the take it was started for.
TakesKnown ==
  \A r \in Runs : run[r].pc \in {"opening", "anchoring"} => run[r].take \in Takes

Entries == [take : Takes \cup {None}, song : Loads]

LEMMA Prepend ==
  ASSUME NEW S, NEW e \in S, NEW s \in Seq(S)
  PROVE  /\ <<e>> \o s \in Seq(S)
         /\ Head(<<e>> \o s) = e
         /\ DOMAIN (<<e>> \o s) = 1 .. Len(s) + 1
         /\ \A i \in 1 .. Len(s) + 1 : (<<e>> \o s)[i] = IF i = 1 THEN e ELSE s[i - 1]
<1>1. /\ <<e>> \in Seq(S) /\ Len(<<e>>) = 1 /\ <<e>>[1] = e
      /\ s \in Seq(S) /\ Len(s) \in Nat
  OBVIOUS
<1> DEFINE t == <<e>> \o s
<1>2. t \in Seq(S) /\ Len(t) = Len(s) + 1
  BY <1>1, ConcatProperties
<1>3. \A i \in 1 .. Len(s) + 1 : t[i] = IF i = 1 THEN e ELSE s[i - 1]
  BY <1>1, ConcatProperties
<1>4. t # << >> /\ Head(t) = t[1]
  BY <1>2, <1>1
<1> QED
  BY <1>1, <1>2, <1>3, <1>4

LEMMA TypeInit == Init => TypeOK /\ TakesKnown
<1> SUFFICES ASSUME Init PROVE TypeOK /\ TakesKnown
  OBVIOUS
<1>1. Done \in RunRecord /\ Done.pc = "idle" /\ 0 \in Loads
  BY WorkbenchAssumption DEF Done, RunRecord, RunStates, Loads
<1>2. run \in [Runs -> RunRecord] /\ TakesKnown
  BY <1>1 DEF Init, TakesKnown
<1>3. /\ mic \in [Takes -> {"unused", "asked", "open", "closed"}]
      /\ history \in Seq([take : Takes \cup {None}, song : Loads])
  BY DEF Init
<1>4. /\ mounted \in BOOLEAN /\ recordingRef \in BOOLEAN /\ demo \in BOOLEAN
      /\ rights \in BOOLEAN /\ skipped \in BOOLEAN /\ disturbed \in BOOLEAN
  BY DEF Init
<1> QED
  BY <1>1, <1>2, <1>3, <1>4 DEF Init, TypeOK, SessionStates, DialogStates

\* How the helpers change the runs.
LEMMA RunSteps ==
  ASSUME TypeOK, TakesKnown, NEW r \in Runs
  PROVE  /\ \A pc \in RunStates, t \in Takes \cup {None}, s \in Loads :
              Begin(r, pc, t, s) /\ (pc \in {"opening", "anchoring"} => t \in Takes)
                => run' \in [Runs -> RunRecord] /\ TakesKnown'
         /\ \A pc \in RunStates :
              Go(r, pc) /\ (pc \in {"opening", "anchoring"} => run[r].take \in Takes)
                => run' \in [Runs -> RunRecord] /\ TakesKnown'
         /\ End(r) => run' \in [Runs -> RunRecord] /\ TakesKnown'
<1>1. run \in [Runs -> RunRecord] /\ Done \in RunRecord /\ Done.pc = "idle"
  BY WorkbenchAssumption DEF TypeOK, Done, RunRecord, RunStates, Loads
<1>2. ASSUME NEW pc \in RunStates, NEW t \in Takes \cup {None}, NEW s \in Loads,
             Begin(r, pc, t, s), pc \in {"opening", "anchoring"} => t \in Takes
      PROVE  run' \in [Runs -> RunRecord] /\ TakesKnown'
  BY <1>1, <1>2 DEF Begin, RunRecord, TakesKnown
<1>3. ASSUME NEW pc \in RunStates, Go(r, pc),
             pc \in {"opening", "anchoring"} => run[r].take \in Takes
      PROVE  run' \in [Runs -> RunRecord] /\ TakesKnown'
  BY <1>1, <1>3 DEF Go, RunRecord, TakesKnown
<1>4. ASSUME End(r)
      PROVE  run' \in [Runs -> RunRecord] /\ TakesKnown'
  BY <1>1, <1>4 DEF End, TakesKnown
<1> QED
  BY <1>2, <1>3, <1>4

LEMMA HistoryGrows ==
  ASSUME TypeOK, NEW r \in Runs,
         history' = <<[take |-> run[r].take, song |-> run[r].song]>> \o history
  PROVE  history' \in Seq(Entries)
<1>1. history \in Seq(Entries) /\ [take |-> run[r].take, song |-> run[r].song] \in Entries
  BY DEF TypeOK, RunRecord, Entries
<1> QED
  BY <1>1, Prepend

LEMMA LoadFacts ==
  0 \in Loads /\ 1 \in Loads /\ \A s \in Loads : s < MaxLoads => s + 1 \in Loads
  BY WorkbenchAssumption DEF Loads

LEMMA TypeStep == TypeOK /\ TakesKnown /\ [Next]_vars => TypeOK' /\ TakesKnown'
<1> SUFFICES ASSUME TypeOK, TakesKnown, [Next]_vars PROVE TypeOK' /\ TakesKnown'
  OBVIOUS
<1> USE LoadFacts DEF screen, source, hardware, clockwork, preferences
<1>1. ASSUME NEW d \in BOOLEAN, LoadSong(d) PROVE TypeOK' /\ TakesKnown'
  BY <1>1 DEF LoadSong, SetSong, Show, SessionStates, Busy, TypeOK, TakesKnown
<1>2. ASSUME WaveReady PROVE TypeOK' /\ TakesKnown'
  BY <1>2 DEF WaveReady, TypeOK, TakesKnown
<1>3. ASSUME ToggleRights PROVE TypeOK' /\ TakesKnown'
  BY <1>3 DEF ToggleRights, TypeOK, TakesKnown
<1>4. ASSUME OpenDialog PROVE TypeOK' /\ TakesKnown'
  BY <1>4 DEF OpenDialog, DialogStates, TypeOK, TakesKnown
<1>5. ASSUME CloseDialog PROVE TypeOK' /\ TakesKnown'
  BY <1>5 DEF CloseDialog, DialogStates, TypeOK, TakesKnown
<1>6. ASSUME RestoreReminder PROVE TypeOK' /\ TakesKnown'
  BY <1>6 DEF RestoreReminder, DialogStates, TypeOK, TakesKnown
<1>7. ASSUME Unmount PROVE TypeOK' /\ TakesKnown'
  BY <1>7 DEF Unmount, TypeOK, TakesKnown
<1>8. ASSUME NEW r \in Runs, PickMgg(r) PROVE TypeOK' /\ TakesKnown'
  <2>1. run' \in [Runs -> RunRecord] /\ TakesKnown'
    BY <1>8, RunSteps DEF PickMgg, RunStates
  <2> QED
    BY <1>8, <2>1 DEF PickMgg, TypeOK
<1>9. ASSUME NEW r \in Runs, RunCheck(r) PROVE TypeOK' /\ TakesKnown'
  <2>1. run' \in [Runs -> RunRecord] /\ TakesKnown'
    BY <1>9, RunSteps DEF RunCheck, RunStates
  <2> QED
    BY <1>9, <2>1 DEF RunCheck, DialogStates, TypeOK
<1>10. ASSUME NEW r \in Runs, RunDemo(r) PROVE TypeOK' /\ TakesKnown'
  <2>1. song' \in Loads /\ wave' \in Loads /\ demo' \in BOOLEAN /\ rights' \in BOOLEAN
        /\ disturbed' \in BOOLEAN
    BY <1>10 DEF RunDemo, TypeOK
  <2>2. run' \in [Runs -> RunRecord] /\ TakesKnown'
    BY <1>10, <2>1, RunSteps DEF RunDemo, RunStates
  <2> QED
    BY <1>10, <2>1, <2>2 DEF RunDemo, Show, SessionStates, TypeOK
<1>11. ASSUME NEW r \in Runs, StopSession(r) PROVE TypeOK' /\ TakesKnown'
  <2>1. run' \in [Runs -> RunRecord] /\ TakesKnown'
    BY <1>11, RunSteps DEF StopSession, RunStates, TypeOK
  <2> QED
    BY <1>11, <2>1 DEF StopSession, Show, SessionStates, ClearTimer, Close, TypeOK
<1>12. ASSUME NEW r \in Runs, GrantStream(r) PROVE TypeOK' /\ TakesKnown'
  BY <1>12 DEF GrantStream, TypeOK, TakesKnown
<1>13. ASSUME NEW r \in Runs, AcceptMgg(r) PROVE TypeOK' /\ TakesKnown'
  <2>1. run' \in [Runs -> RunRecord] /\ TakesKnown'
    BY <1>13, RunSteps DEF AcceptMgg
  <2> QED
    BY <1>13, <2>1 DEF AcceptMgg, SetSong, Show, SessionStates, Busy, TypeOK
<1>14. ASSUME NEW r \in Runs, RefuseMgg(r) PROVE TypeOK' /\ TakesKnown'
  <2>1. run' \in [Runs -> RunRecord] /\ TakesKnown'
    BY <1>14, RunSteps DEF RefuseMgg
  <2> QED
    BY <1>14, <2>1 DEF RefuseMgg, TypeOK
<1>15. ASSUME NEW r \in Runs, CheckEnds(r) PROVE TypeOK' /\ TakesKnown'
  <2>1. run' \in [Runs -> RunRecord] /\ TakesKnown'
    BY <1>15, RunSteps DEF CheckEnds
  <2> QED
    BY <1>15, <2>1 DEF CheckEnds, DialogStates, TypeOK
<1>16. ASSUME NEW r \in Runs, CaptureStarted(r) PROVE TypeOK' /\ TakesKnown'
  <2>1. run' \in [Runs -> RunRecord] /\ TakesKnown'
    BY <1>16, RunSteps DEF CaptureStarted, RunStates, TakesKnown
  <2> QED
    BY <1>16, <2>1 DEF CaptureStarted, Close, TakesKnown, TypeOK
<1>17. ASSUME NEW r \in Runs, Anchored(r) PROVE TypeOK' /\ TakesKnown'
  <2>1. run' \in [Runs -> RunRecord] /\ TakesKnown'
    BY <1>17, RunSteps DEF Anchored, RunStates
  <2> QED
    BY <1>17, <2>1 DEF Anchored, Show, SessionStates, Close, TakesKnown, TypeOK
<1>18. ASSUME NEW r \in Runs, StartFails(r) PROVE TypeOK' /\ TakesKnown'
  <2>1. run' \in [Runs -> RunRecord] /\ TakesKnown'
    BY <1>18, RunSteps DEF StartFails, RunStates
  <2> QED
    BY <1>18, <2>1 DEF StartFails, ClearTimer, Close, TypeOK
<1>19. ASSUME NEW r \in Runs, StartFailed(r) PROVE TypeOK' /\ TakesKnown'
  <2>1. run' \in [Runs -> RunRecord] /\ TakesKnown'
    BY <1>19, RunSteps DEF StartFailed
  <2> QED
    BY <1>19, <2>1 DEF StartFailed, Show, SessionStates, TypeOK
<1>20. ASSUME NEW r \in Runs, Discarded(r) PROVE TypeOK' /\ TakesKnown'
  <2>1. run' \in [Runs -> RunRecord] /\ TakesKnown'
    BY <1>20, RunSteps DEF Discarded
  <2> QED
    BY <1>20, <2>1 DEF Discarded, TypeOK
<1>21. ASSUME NEW r \in Runs, TakeCaptured(r) PROVE TypeOK' /\ TakesKnown'
  <2>1. run' \in [Runs -> RunRecord] /\ TakesKnown'
    BY <1>21, RunSteps DEF TakeCaptured, RunStates
  <2> QED
    BY <1>21, <2>1 DEF TakeCaptured, TypeOK
<1>22. ASSUME NEW r \in Runs, TakeAnalyzed(r) PROVE TypeOK' /\ TakesKnown'
  <2>1. run' \in [Runs -> RunRecord] /\ TakesKnown'
    BY <1>22, RunSteps DEF TakeAnalyzed, RunStates
  <2> QED
    BY <1>22, <2>1 DEF TakeAnalyzed, RunRecord, TypeOK
<1>23. ASSUME NEW r \in Runs, StopFails(r) PROVE TypeOK' /\ TakesKnown'
  <2>1. run' \in [Runs -> RunRecord] /\ TakesKnown'
    BY <1>23, RunSteps DEF StopFails
  <2> QED
    BY <1>23, <2>1 DEF StopFails, Show, SessionStates, TypeOK
<1>24. ASSUME NEW r \in Runs, CoachAnswers(r) PROVE TypeOK' /\ TakesKnown'
  <2>1. run' \in [Runs -> RunRecord] /\ TakesKnown'
    BY <1>24, RunSteps DEF CoachAnswers
  <2>2. history' \in Seq(Entries)
    BY <1>24, HistoryGrows DEF CoachAnswers, TypeOK, Entries
  <2>3. run[r].song \in Loads
    BY DEF TypeOK, RunRecord
  <2> QED
    BY <1>24, <2>1, <2>2, <2>3 DEF CoachAnswers, Show, SessionStates, TypeOK, Entries
<1>25. ASSUME NEW r \in Runs, NEW t \in Takes, StartUnchecked(r, t) PROVE TypeOK' /\ TakesKnown'
  <2>1. run' \in [Runs -> RunRecord] /\ TakesKnown'
    <3>1. CASE wave = 0 \/ ~rights
      BY <1>25, <3>1 DEF StartUnchecked, StartSession, TypeOK, TakesKnown
    <3>2. CASE ~(wave = 0 \/ ~rights)
      BY <1>25, <3>2, RunSteps DEF StartUnchecked, StartSession, RunStates, TypeOK
    <3> QED
      BY <3>1, <3>2
  <2>2. /\ mic' \in [Takes -> {"unused", "asked", "open", "closed"}] /\ shown' \in Loads
        /\ ui' \in SessionStates /\ recordingRef' \in BOOLEAN /\ coachRef' \in Runs \cup {None}
    BY <1>25 DEF StartUnchecked, StartSession, Show, SessionStates, TypeOK
  <2> QED
    BY <1>25, <2>1, <2>2 DEF StartUnchecked, TypeOK
<1>26. ASSUME NEW r \in Runs, NEW t \in Takes, Confirm(r, t) PROVE TypeOK' /\ TakesKnown'
  <2>1. run' \in [Runs -> RunRecord] /\ TakesKnown'
    <3>1. CASE wave = 0 \/ ~rights
      BY <1>26, <3>1 DEF Confirm, StartSession, TypeOK, TakesKnown
    <3>2. CASE ~(wave = 0 \/ ~rights)
      BY <1>26, <3>2, RunSteps DEF Confirm, StartSession, RunStates, TypeOK
    <3> QED
      BY <3>1, <3>2
  <2>2. /\ mic' \in [Takes -> {"unused", "asked", "open", "closed"}] /\ shown' \in Loads
        /\ ui' \in SessionStates /\ recordingRef' \in BOOLEAN /\ coachRef' \in Runs \cup {None}
    BY <1>26 DEF Confirm, StartSession, Show, SessionStates, TypeOK
  <2> QED
    BY <1>26, <2>1, <2>2 DEF Confirm, DialogStates, TypeOK
<1>27. CASE UNCHANGED vars
  BY <1>27 DEF vars, TypeOK, TakesKnown
<1> QED
  BY StepCases, <1>1, <1>2, <1>3, <1>4, <1>5, <1>6, <1>7, <1>8, <1>9, <1>10, <1>11, <1>12,
     <1>13, <1>14, <1>15, <1>16, <1>17, <1>18, <1>19, <1>20, <1>21, <1>22, <1>23, <1>24,
     <1>25, <1>26, <1>27

LEMMA TypesAlways == Spec => [](TypeOK /\ TakesKnown)
  BY TypeInit, TypeStep, PTL DEF Spec

\* Every variable keeps its type.
THEOREM WorkbenchTypes == Spec => []TypeOK
  BY TypesAlways, PTL
-----------------------------------------------------------------------------
(* The invariant.                                                          *)

StartStates == {"opening", "anchoring", "failing"}
AnalysisStates == {"closing", "decoding", "coaching", "demo"}
InSession(r) == run[r].pc \in StartStates \cup AnalysisStates

Calm == mounted /\ ~disturbed

\* At most one call in progress belongs to a session.
OneSession == \A r, q \in Runs : InSession(r) /\ InSession(q) => r = q

\* In each phase, what the page shows, which capture is current and whether it is open.
Phase(r) ==
  LET pc == run[r].pc
      t == run[r].take
  IN  /\ pc \in StartStates => ui = "arming"
      /\ pc \in AnalysisStates => ui = "analyzing"
      /\ pc = "opening" => /\ wave = run[r].song /\ wave # 0
                           /\ captureRef = None /\ mic[t] \in {"asked", "open"}
      /\ pc = "anchoring" => captureRef = t /\ mic[t] = "open"
      /\ pc = "failing" => captureRef \in {None, t} /\ mic[t] = "closed"
      /\ pc \in {"closing", "decoding", "coaching"} =>
           t \in Takes /\ captureRef = t /\ mic[t] = "closed"
      /\ pc = "demo" => captureRef = None /\ t = None

Phases == \A r \in Runs : Phase(r)

\* The dialog and the source leave a session alone, and no capture outlives it.
Quiet ==
  /\ dialog # "closed" => ~Busy
  /\ wave \in {0, song}
  /\ ~Busy => captureRef = None

\* The transport interval runs exactly while the session records.
Sampling ==
  /\ recordingRef = (ui = "recording")
  /\ IF ui = "recording"
     THEN /\ captureRef \in Takes /\ mic[captureRef] = "open"
          /\ timers = {captureRef} /\ timerRef = captureRef
     ELSE timers = {} /\ timerRef = None

\* A take in the history is over.
HistoryIsPast ==
  \A i \in DOMAIN history :
    history[i].take # None => mic[history[i].take] = "closed" /\ captureRef # history[i].take

\* After the unmount nothing is current any more.
GoneInv == ~mounted => captureRef = None /\ recordingRef = FALSE

SessionParts == OneSession /\ Phases /\ Quiet /\ Sampling /\ HistoryIsPast

SessionInv == (Calm => SessionParts) /\ GoneInv

\* The current coach request is in progress, and about the analysis on display.
DisplayInv ==
  \A r \in Runs : (mounted /\ coachRef = r) =>
    run[r].pc \in {"coaching", "demo"} /\ shown \in {0, run[r].song}
-----------------------------------------------------------------------------
(* The steps.                                                              *)

\* What Begin, Go and End do to one run, and leave alone in the others.
LEMMA RunChanges ==
  ASSUME TypeOK, NEW r \in Runs
  PROVE  /\ \A pc \in RunStates, t \in Takes \cup {None}, s \in Loads : Begin(r, pc, t, s) =>
              /\ run[r].pc = "idle"
              /\ run'[r].pc = pc /\ run'[r].take = t /\ run'[r].song = s
              /\ \A q \in Runs \ {r} : run'[q] = run[q]
         /\ \A pc \in RunStates : Go(r, pc) =>
              /\ run'[r].pc = pc /\ run'[r].take = run[r].take /\ run'[r].song = run[r].song
              /\ \A q \in Runs \ {r} : run'[q] = run[q]
         /\ End(r) =>
              /\ run'[r].pc = "idle"
              /\ \A q \in Runs \ {r} : run'[q] = run[q]
<1>1. run \in [Runs -> RunRecord] /\ run[r] \in RunRecord
  BY DEF TypeOK
<1> QED
  BY <1>1 DEF Begin, Go, End, Done, RunRecord

\* A take in the history is one of the takes, or the demo's.
LEMMA HistoryFacts ==
  ASSUME TypeOK
  PROVE  /\ DOMAIN history = 1 .. Len(history) /\ Len(history) \in Nat
         /\ \A i \in DOMAIN history : history[i] \in Entries /\ history[i].take \in Takes \cup {None}
<1>1. history \in Seq(Entries)
  BY DEF TypeOK, Entries
<1>2. DOMAIN history = 1 .. Len(history) /\ Len(history) \in Nat
      /\ \A i \in DOMAIN history : history[i] \in Entries
  BY <1>1
<1> QED
  BY <1>2 DEF Entries

\* A page that is left, and a disturbance, are for good; a song that arrives in a
\* busy session disturbs it.
LEMMA CalmBefore ==
  ASSUME TypeOK, [Next]_vars, Calm'
  PROVE  Calm
  BY StepCases
     DEF Calm, TypeOK, vars, source, LoadSong, SetSong, WaveReady, ToggleRights, OpenDialog,
         CloseDialog, RestoreReminder, Unmount, PickMgg, RunCheck, RunDemo, StopSession,
         GrantStream, AcceptMgg, RefuseMgg, CheckEnds, CaptureStarted, Anchored, StartFails,
         StartFailed, Discarded, TakeCaptured, TakeAnalyzed, StopFails, CoachAnswers,
         StartUnchecked, Confirm

LEMMA GoneStep == TypeOK /\ GoneInv /\ [Next]_vars => GoneInv'
  BY StepCases
     DEF GoneInv, TypeOK, vars, screen, hardware, LoadSong, WaveReady, ToggleRights, OpenDialog,
         CloseDialog, RestoreReminder, Unmount, PickMgg, RunCheck, RunDemo, StopSession,
         GrantStream, AcceptMgg, RefuseMgg, CheckEnds, CaptureStarted, Anchored, StartFails,
         StartFailed, Discarded, TakeCaptured, TakeAnalyzed, StopFails, CoachAnswers,
         StartUnchecked, Confirm, CanStart, Show

\* Without a session in progress, the phases say nothing.
LEMMA IdleRuns ==
  /\ \A r \in Runs : ~InSession(r) => Phase(r)
  /\ Phases /\ ui \notin {"arming", "analyzing"} => \A r \in Runs : ~InSession(r)
  BY DEF InSession, Phase, Phases, StartStates, AnalysisStates

LEMMA IdleRunsAfter == \A r \in Runs : ~InSession(r)' => Phase(r)'
  BY DEF InSession, Phase, StartStates, AnalysisStates

\* While one call is in a session, or none, only that call's phase matters.
LEMMA OneCall ==
  ASSUME NEW r \in Runs, \A q \in Runs \ {r} : ~InSession(q)', Phase(r)'
  PROVE  OneSession' /\ Phases'
  BY IdleRunsAfter DEF OneSession, Phases

LEMMA OthersIdle ==
  ASSUME OneSession, NEW r \in Runs, InSession(r), \A q \in Runs \ {r} : run'[q] = run[q]
  PROVE  \A q \in Runs \ {r} : ~InSession(q)'
  BY DEF OneSession, InSession

\* What leaves the sessions alone keeps all.
LEMMA Untouched ==
  ASSUME SessionParts, dialog' # "closed" => ~Busy,
         UNCHANGED <<ui, recordingRef, song, wave, captureRef, mic, timers, timerRef, history>>,
         \A q \in Runs : run'[q] = run[q] \/ (~InSession(q) /\ ~InSession(q)')
  PROVE  SessionParts'
<1>1. OneSession' /\ Phases'
  BY IdleRunsAfter DEF SessionParts, OneSession, InSession, Phases, Phase
<1>2. Quiet' /\ Sampling' /\ HistoryIsPast'
  BY DEF SessionParts, Quiet, Busy, Sampling, HistoryIsPast
<1> QED
  BY <1>1, <1>2 DEF SessionParts

LEMMA SessionStep ==
  ASSUME TypeOK, TakesKnown, DialogAwaitsCheck, Calm, SessionParts, [Next]_vars, Calm'
  PROVE  SessionParts'
<1> USE DEF Calm, screen, source, hardware, clockwork, preferences
<1>0. ~Busy => captureRef = None /\ timers = {} /\ timerRef = None
                /\ \A r \in Runs : ~InSession(r)
  BY IdleRuns DEF SessionParts, Quiet, Sampling, Busy
<1>a. 0 \in Loads /\ wave \in Loads /\ song \in Loads /\ None \notin Takes /\ None \notin Runs
  BY LoadFacts, WorkbenchAssumption DEF TypeOK
<1>b. captureRef \in Takes \cup {None} /\ None \in Takes \cup {None}
  BY DEF TypeOK
<1> USE <1>a, <1>b
<1>1. ASSUME ToggleRights PROVE SessionParts'
  BY <1>1, Untouched DEF ToggleRights, SessionParts, Quiet, Busy
<1>2. ASSUME OpenDialog PROVE SessionParts'
  BY <1>2, Untouched DEF OpenDialog, CanStart, SessionParts, Quiet, Busy
<1>3. ASSUME CloseDialog PROVE SessionParts'
  BY <1>3, Untouched DEF CloseDialog, SessionParts, Quiet, Busy
<1>4. ASSUME RestoreReminder PROVE SessionParts'
  BY <1>4, Untouched DEF RestoreReminder, SessionParts, Quiet, Busy
<1>5. ASSUME NEW r \in Runs, PickMgg(r) PROVE SessionParts'
  <2>1. \A q \in Runs : run'[q] = run[q] \/ (~InSession(q) /\ ~InSession(q)')
    BY <1>5, RunChanges DEF PickMgg, InSession, RunStates, StartStates, AnalysisStates
  <2> QED
    BY <1>5, <2>1, Untouched DEF PickMgg, SessionParts, Quiet, Busy, DialogAwaitsCheck
<1>6. ASSUME NEW r \in Runs, RunCheck(r) PROVE SessionParts'
  <2>1. \A q \in Runs : run'[q] = run[q] \/ (~InSession(q) /\ ~InSession(q)')
    BY <1>6, RunChanges DEF RunCheck, InSession, RunStates, StartStates, AnalysisStates
  <2> QED
    BY <1>6, <2>1, Untouched DEF RunCheck, SessionParts, Quiet, Busy, DialogAwaitsCheck
<1>7. ASSUME NEW r \in Runs, RefuseMgg(r) PROVE SessionParts'
  <2>1. \A q \in Runs : run'[q] = run[q] \/ (~InSession(q) /\ ~InSession(q)')
    BY <1>7, RunChanges DEF RefuseMgg, InSession, RunStates, StartStates, AnalysisStates
  <2> QED
    BY <1>7, <2>1, Untouched DEF RefuseMgg, SessionParts, Quiet, Busy, DialogAwaitsCheck
<1>8. ASSUME NEW r \in Runs, CheckEnds(r) PROVE SessionParts'
  <2>1. \A q \in Runs : run'[q] = run[q] \/ (~InSession(q) /\ ~InSession(q)')
    BY <1>8, RunChanges DEF CheckEnds, InSession, RunStates, StartStates, AnalysisStates
  <2> QED
    BY <1>8, <2>1, Untouched DEF CheckEnds, SessionParts, Quiet, Busy, DialogAwaitsCheck
<1>9. ASSUME NEW r \in Runs, Discarded(r) PROVE SessionParts'
  <2>1. \A q \in Runs : run'[q] = run[q] \/ (~InSession(q) /\ ~InSession(q)')
    BY <1>9, RunChanges DEF Discarded, InSession, RunStates, StartStates, AnalysisStates
  <2> QED
    BY <1>9, <2>1, Untouched DEF Discarded, SessionParts, Quiet, Busy, DialogAwaitsCheck
<1>10. ASSUME WaveReady PROVE SessionParts'
  <2>1. Phases' /\ OneSession'
    BY <1>10 DEF WaveReady, SessionParts, OneSession, InSession, Phases, Phase, Quiet, Busy
  <2> QED
    BY <1>10, <2>1 DEF WaveReady, SessionParts, Quiet, Busy, Sampling, HistoryIsPast
<1>11. ASSUME NEW d \in BOOLEAN, LoadSong(d) PROVE SessionParts'
  <2>1. ~Busy
    BY <1>11 DEF LoadSong, SetSong, SourceLocked
  <2>2. \A q \in Runs : ~InSession(q)'
    BY <1>0, <1>11, <2>1 DEF LoadSong, InSession, StartStates, AnalysisStates
  <2>3. Quiet' /\ Sampling' /\ HistoryIsPast'
    BY <1>0, <1>11, <2>1
       DEF LoadSong, SetSong, Show, SessionParts, Quiet, Busy, Sampling, HistoryIsPast
  <2> QED
    BY <2>2, <2>3, IdleRunsAfter DEF SessionParts, OneSession, Phases
<1>12. ASSUME NEW r \in Runs, AcceptMgg(r) PROVE SessionParts'
  <2>1. ~Busy
    BY <1>12 DEF AcceptMgg, SetSong, SourceLocked
  <2>2. \A q \in Runs : ~InSession(q)'
    BY <1>0, <1>12, <2>1, RunChanges DEF AcceptMgg, InSession, StartStates, AnalysisStates
  <2>3. Quiet' /\ Sampling' /\ HistoryIsPast'
    BY <1>0, <1>12, <2>1
       DEF AcceptMgg, SetSong, Show, SessionParts, Quiet, Busy, Sampling, HistoryIsPast
  <2> QED
    BY <2>2, <2>3, IdleRunsAfter DEF SessionParts, OneSession, Phases
<1>13. ASSUME NEW r \in Runs, RunDemo(r) PROVE SessionParts'
  <2>0. song' \in Loads
    BY <1>13, LoadFacts DEF RunDemo, TypeOK
  <2>1. \A q \in Runs \ {r} : ~InSession(q)'
    BY <1>13, <2>0, <1>0, RunChanges
       DEF RunDemo, SourceLocked, SessionParts, InSession, RunStates, StartStates, AnalysisStates
  <2>2. Phase(r)'
    BY <1>0, <1>13, <2>0, RunChanges
       DEF RunDemo, SourceLocked, Show, SessionParts, Phases, Phase, Quiet, Sampling, RunStates,
           StartStates, AnalysisStates, Busy, TypeOK, TakesKnown
  <2>3. Quiet' /\ Sampling'
    BY <1>0, <1>13, <2>0, RunChanges
       DEF RunDemo, SourceLocked, Show, SessionParts, Phases, Phase, Quiet, Sampling, StartStates,
           AnalysisStates, Busy, TypeOK, TakesKnown
  <2>4. HistoryIsPast'
    BY <1>0, <1>13, HistoryFacts
       DEF RunDemo, SourceLocked, Show, SessionParts, Phases, Phase, HistoryIsPast, TypeOK
  <2> QED
    BY <2>1, <2>2, <2>3, <2>4, OneCall DEF SessionParts
<1>14. ASSUME NEW r \in Runs, StopSession(r) PROVE SessionParts'
  <2>1. \A q \in Runs \ {r} : ~InSession(q)'
    BY <1>14, IdleRuns, RunChanges
       DEF StopSession, Sampling, TypeOK, SessionParts, InSession, RunStates, StartStates,
           AnalysisStates
  <2>2. Phase(r)'
    BY <1>0, <1>14, RunChanges
       DEF StopSession, Show, ClearTimer, Close, SessionParts, Phases, Phase, Quiet, Sampling,
           RunStates, StartStates, AnalysisStates, Busy, TypeOK, TakesKnown
  <2>3. Quiet' /\ Sampling'
    BY <1>0, <1>14, RunChanges
       DEF StopSession, Show, ClearTimer, Close, SessionParts, Phases, Phase, Quiet, Sampling,
           StartStates, AnalysisStates, Busy, TypeOK, TakesKnown
  <2>4. HistoryIsPast'
    BY <1>0, <1>14, HistoryFacts
       DEF StopSession, Show, ClearTimer, Close, SessionParts, Phases, Phase, HistoryIsPast, TypeOK
  <2> QED
    BY <2>1, <2>2, <2>3, <2>4, OneCall DEF SessionParts
<1>15. ASSUME NEW r \in Runs, GrantStream(r) PROVE SessionParts'
  <2>1. \A q \in Runs \ {r} : ~InSession(q)'
    BY <1>15, RunChanges, OthersIdle
       DEF GrantStream, SessionParts, InSession, RunStates, StartStates, AnalysisStates
  <2>2. Phase(r)'
    BY <1>0, <1>15, RunChanges
       DEF GrantStream, SessionParts, Phases, Phase, Quiet, Sampling, RunStates, StartStates,
           AnalysisStates, Busy, TypeOK, TakesKnown
  <2>3. Quiet' /\ Sampling'
    BY <1>0, <1>15, RunChanges
       DEF GrantStream, SessionParts, Phases, Phase, Quiet, Sampling, StartStates, AnalysisStates,
           Busy, TypeOK, TakesKnown
  <2>4. HistoryIsPast'
    BY <1>0, <1>15, HistoryFacts DEF GrantStream, SessionParts, Phases, Phase, HistoryIsPast, TypeOK
  <2> QED
    BY <2>1, <2>2, <2>3, <2>4, OneCall DEF SessionParts
<1>16. ASSUME NEW r \in Runs, CaptureStarted(r) PROVE SessionParts'
  <2>1. \A q \in Runs \ {r} : ~InSession(q)'
    BY <1>16, RunChanges, OthersIdle
       DEF CaptureStarted, SessionParts, InSession, RunStates, StartStates, AnalysisStates
  <2>2. Phase(r)'
    BY <1>0, <1>16, RunChanges
       DEF CaptureStarted, Close, SessionParts, Phases, Phase, Quiet, Sampling, RunStates,
           StartStates, AnalysisStates, Busy, TypeOK, TakesKnown
  <2>3. Quiet' /\ Sampling'
    BY <1>0, <1>16, RunChanges
       DEF CaptureStarted, Close, SessionParts, Phases, Phase, Quiet, Sampling, StartStates,
           AnalysisStates, Busy, TypeOK, TakesKnown
  <2>4. HistoryIsPast'
    BY <1>0, <1>16, HistoryFacts
       DEF CaptureStarted, Close, SessionParts, Phases, Phase, HistoryIsPast, TypeOK
  <2> QED
    BY <2>1, <2>2, <2>3, <2>4, OneCall DEF SessionParts
<1>17. ASSUME NEW r \in Runs, Anchored(r) PROVE SessionParts'
  <2>1. \A q \in Runs \ {r} : ~InSession(q)'
    BY <1>17, RunChanges, OthersIdle
       DEF Anchored, SessionParts, InSession, RunStates, StartStates, AnalysisStates
  <2>2. Phase(r)'
    BY <1>0, <1>17, RunChanges
       DEF Anchored, Show, Close, SessionParts, Phases, Phase, Quiet, Sampling, RunStates,
           StartStates, AnalysisStates, Busy, TypeOK, TakesKnown
  <2>3. Quiet' /\ Sampling'
    BY <1>0, <1>17, RunChanges
       DEF Anchored, Show, Close, SessionParts, Phases, Phase, Quiet, Sampling, StartStates,
           AnalysisStates, Busy, TypeOK, TakesKnown
  <2>4. HistoryIsPast'
    BY <1>0, <1>17, HistoryFacts
       DEF Anchored, Show, Close, SessionParts, Phases, Phase, HistoryIsPast, TypeOK
  <2> QED
    BY <2>1, <2>2, <2>3, <2>4, OneCall DEF SessionParts
<1>18. ASSUME NEW r \in Runs, StartFails(r) PROVE SessionParts'
  <2>1. \A q \in Runs \ {r} : ~InSession(q)'
    BY <1>18, RunChanges, OthersIdle
       DEF StartFails, SessionParts, InSession, RunStates, StartStates, AnalysisStates
  <2>2. Phase(r)'
    <3>1. run[r].pc \in {"opening", "anchoring"} /\ run[r].take \in Takes
      BY <1>18 DEF StartFails, TakesKnown
    <3>2. run'[r].pc = "failing" /\ run'[r].take = run[r].take
      BY <1>18, RunChanges DEF StartFails, RunStates
    <3>3. ui = "arming" /\ captureRef \in {None, run[r].take}
      BY <3>1 DEF SessionParts, Phases, Phase, StartStates
    <3>4. mic'[run[r].take] = "closed"
      BY <1>18, <3>1 DEF StartFails, Close, TypeOK
    <3>5. ui' = ui /\ captureRef' = captureRef
      BY <1>18 DEF StartFails
    <3> QED
      BY <3>2, <3>3, <3>4, <3>5 DEF Phase, StartStates, AnalysisStates
  <2>3. Quiet' /\ Sampling'
    <3>1. ui = "arming"
      BY <1>18 DEF StartFails, SessionParts, Phases, Phase, StartStates
    <3>2. timers = {} /\ Quiet
      BY <3>1 DEF SessionParts, Sampling
    <3>3. UNCHANGED <<ui, dialog, wave, song, captureRef>>
      BY <1>18 DEF StartFails
    <3>4. timers' = {} /\ timerRef' = None /\ recordingRef' = FALSE
      BY <1>18, <3>2 DEF StartFails, ClearTimer
    <3>5. Quiet'
      BY <3>2, <3>3 DEF Quiet, Busy
    <3>6. Sampling'
      BY <3>1, <3>3, <3>4 DEF Sampling
    <3> QED
      BY <3>5, <3>6
  <2>4. HistoryIsPast'
    BY <1>0, <1>18, HistoryFacts
       DEF StartFails, ClearTimer, Close, SessionParts, Phases, Phase, HistoryIsPast, TypeOK
  <2> QED
    BY <2>1, <2>2, <2>3, <2>4, OneCall DEF SessionParts
<1>19. ASSUME NEW r \in Runs, StartFailed(r) PROVE SessionParts'
  <2>1. \A q \in Runs \ {r} : ~InSession(q)'
    BY <1>19, RunChanges, OthersIdle
       DEF StartFailed, SessionParts, InSession, RunStates, StartStates, AnalysisStates
  <2>2. Phase(r)'
    BY <1>0, <1>19, RunChanges
       DEF StartFailed, Show, SessionParts, Phases, Phase, Quiet, Sampling, RunStates, StartStates,
           AnalysisStates, Busy, TypeOK, TakesKnown
  <2>3. Quiet' /\ Sampling'
    BY <1>0, <1>19, RunChanges
       DEF StartFailed, Show, SessionParts, Phases, Phase, Quiet, Sampling, StartStates,
           AnalysisStates, Busy, TypeOK, TakesKnown
  <2>4. HistoryIsPast'
    BY <1>0, <1>19, HistoryFacts
       DEF StartFailed, Show, SessionParts, Phases, Phase, HistoryIsPast, TypeOK
  <2> QED
    BY <2>1, <2>2, <2>3, <2>4, OneCall DEF SessionParts
<1>20. ASSUME NEW r \in Runs, TakeCaptured(r) PROVE SessionParts'
  <2>1. \A q \in Runs \ {r} : ~InSession(q)'
    BY <1>20, RunChanges, OthersIdle
       DEF TakeCaptured, SessionParts, InSession, RunStates, StartStates, AnalysisStates
  <2>2. Phase(r)'
    BY <1>0, <1>20, RunChanges
       DEF TakeCaptured, SessionParts, Phases, Phase, Quiet, Sampling, RunStates, StartStates,
           AnalysisStates, Busy, TypeOK, TakesKnown
  <2>3. Quiet' /\ Sampling'
    BY <1>0, <1>20, RunChanges
       DEF TakeCaptured, SessionParts, Phases, Phase, Quiet, Sampling, StartStates, AnalysisStates,
           Busy, TypeOK, TakesKnown
  <2>4. HistoryIsPast'
    BY <1>0, <1>20, HistoryFacts
       DEF TakeCaptured, SessionParts, Phases, Phase, HistoryIsPast, TypeOK
  <2> QED
    BY <2>1, <2>2, <2>3, <2>4, OneCall DEF SessionParts
<1>21. ASSUME NEW r \in Runs, TakeAnalyzed(r) PROVE SessionParts'
  <2>1. \A q \in Runs \ {r} : ~InSession(q)'
    BY <1>21, RunChanges, OthersIdle
       DEF TakeAnalyzed, SessionParts, InSession, RunStates, StartStates, AnalysisStates
  <2>2. Phase(r)'
    BY <1>0, <1>21, RunChanges
       DEF TakeAnalyzed, SessionParts, Phases, Phase, Quiet, Sampling, RunStates, StartStates,
           AnalysisStates, Busy, TypeOK, TakesKnown
  <2>3. Quiet' /\ Sampling'
    BY <1>0, <1>21, RunChanges
       DEF TakeAnalyzed, SessionParts, Phases, Phase, Quiet, Sampling, StartStates, AnalysisStates,
           Busy, TypeOK, TakesKnown
  <2>4. HistoryIsPast'
    BY <1>0, <1>21, HistoryFacts
       DEF TakeAnalyzed, SessionParts, Phases, Phase, HistoryIsPast, TypeOK
  <2> QED
    BY <2>1, <2>2, <2>3, <2>4, OneCall DEF SessionParts
<1>22. ASSUME NEW r \in Runs, StopFails(r) PROVE SessionParts'
  <2>1. \A q \in Runs \ {r} : ~InSession(q)'
    BY <1>22, RunChanges, OthersIdle
       DEF StopFails, SessionParts, InSession, RunStates, StartStates, AnalysisStates
  <2>2. Phase(r)'
    BY <1>0, <1>22, RunChanges
       DEF StopFails, Show, SessionParts, Phases, Phase, Quiet, Sampling, RunStates, StartStates,
           AnalysisStates, Busy, TypeOK, TakesKnown
  <2>3. Quiet' /\ Sampling'
    BY <1>0, <1>22, RunChanges
       DEF StopFails, Show, SessionParts, Phases, Phase, Quiet, Sampling, StartStates,
           AnalysisStates, Busy, TypeOK, TakesKnown
  <2>4. HistoryIsPast'
    BY <1>0, <1>22, HistoryFacts
       DEF StopFails, Show, SessionParts, Phases, Phase, HistoryIsPast, TypeOK
  <2> QED
    BY <2>1, <2>2, <2>3, <2>4, OneCall DEF SessionParts
<1>23. ASSUME NEW r \in Runs, CoachAnswers(r) PROVE SessionParts'
  <2>1. \A q \in Runs \ {r} : ~InSession(q)'
    BY <1>23, RunChanges, OthersIdle
       DEF CoachAnswers, SessionParts, InSession, RunStates, StartStates, AnalysisStates
  <2>2. Phase(r)'
    BY <1>0, <1>23, RunChanges
       DEF CoachAnswers, Show, SessionParts, Phases, Phase, Quiet, Sampling, RunStates, StartStates,
           AnalysisStates, Busy, TypeOK, TakesKnown
  <2>3. Quiet' /\ Sampling'
    BY <1>0, <1>23, RunChanges
       DEF CoachAnswers, Show, SessionParts, Phases, Phase, Quiet, Sampling, StartStates,
           AnalysisStates, Busy, TypeOK, TakesKnown
  <2>4. HistoryIsPast'
    <3>1. captureRef' = None /\ mic' = mic
      BY <1>23 DEF CoachAnswers, SessionParts, Phases, Phase
    <3>2. CASE history' = history
      BY <3>1, <3>2, HistoryFacts DEF SessionParts, HistoryIsPast
    <3>3. CASE history' = <<[take |-> run[r].take, song |-> run[r].song]>> \o history
      <4> DEFINE e == [take |-> run[r].take, song |-> run[r].song]
      <4>1. e \in Entries /\ history \in Seq(Entries)
        BY DEF TypeOK, RunRecord, Entries
      <4>2. e.take # None => mic[e.take] = "closed"
        BY <1>23 DEF CoachAnswers, SessionParts, Phases, Phase
      <4>3. ASSUME NEW i \in 1 .. Len(history) + 1
            PROVE  history'[i] = e \/ \E j \in DOMAIN history : history'[i] = history[j]
        <5>1. history'[i] = IF i = 1 THEN e ELSE history[i - 1]
          BY <3>3, <4>1, Prepend
        <5>2. i # 1 => i - 1 \in DOMAIN history
          BY HistoryFacts
        <5> QED
          BY <5>1, <5>2
      <4>4. DOMAIN history' = 1 .. Len(history) + 1
        BY <3>3, <4>1, Prepend
      <4> QED
        BY <3>1, <4>2, <4>3, <4>4 DEF SessionParts, HistoryIsPast
    <3> QED
      BY <1>23, <3>2, <3>3 DEF CoachAnswers
  <2> QED
    BY <2>1, <2>2, <2>3, <2>4, OneCall DEF SessionParts
<1>24. ASSUME NEW r \in Runs, NEW t \in Takes, StartUnchecked(r, t) PROVE SessionParts'
  <2>1. \A q \in Runs \ {r} : ~InSession(q)'
    BY <1>24, <1>0, RunChanges
       DEF StartUnchecked, StartSession, CanStart, TypeOK, SessionParts, InSession, RunStates,
           StartStates, AnalysisStates
  <2>2. Phase(r)'
    BY <1>0, <1>24, RunChanges
       DEF StartUnchecked, StartSession, CanStart, Show, SessionParts, Phases, Phase, Quiet,
           Sampling, RunStates, StartStates, AnalysisStates, Busy, TypeOK, TakesKnown
  <2>3. Quiet' /\ Sampling'
    BY <1>0, <1>24, RunChanges
       DEF StartUnchecked, StartSession, CanStart, Show, SessionParts, Phases, Phase, Quiet,
           Sampling, StartStates, AnalysisStates, Busy, TypeOK, TakesKnown
  <2>4. HistoryIsPast'
    BY <1>0, <1>24, HistoryFacts
       DEF StartUnchecked, StartSession, CanStart, Show, SessionParts, Phases, Phase, HistoryIsPast,
           TypeOK
  <2> QED
    BY <2>1, <2>2, <2>3, <2>4, OneCall DEF SessionParts
<1>25. ASSUME NEW r \in Runs, NEW t \in Takes, Confirm(r, t) PROVE SessionParts'
  <2>1. \A q \in Runs \ {r} : ~InSession(q)'
    BY <1>25, <1>0, RunChanges
       DEF Confirm, StartSession, Quiet, TypeOK, SessionParts, InSession, RunStates, StartStates,
           AnalysisStates
  <2>2. Phase(r)'
    BY <1>0, <1>25, RunChanges
       DEF Confirm, StartSession, Show, SessionParts, Phases, Phase, Quiet, Sampling, RunStates,
           StartStates, AnalysisStates, Busy, TypeOK, TakesKnown
  <2>3. Quiet' /\ Sampling'
    BY <1>0, <1>25, RunChanges
       DEF Confirm, StartSession, Show, SessionParts, Phases, Phase, Quiet, Sampling, StartStates,
           AnalysisStates, Busy, TypeOK, TakesKnown
  <2>4. HistoryIsPast'
    BY <1>0, <1>25, HistoryFacts
       DEF Confirm, StartSession, Show, SessionParts, Phases, Phase, HistoryIsPast, TypeOK
  <2> QED
    BY <2>1, <2>2, <2>3, <2>4, OneCall DEF SessionParts
<1>26. CASE UNCHANGED vars
  BY <1>26, Untouched DEF vars, SessionParts, Quiet
<1> QED
  BY StepCases, <1>1, <1>2, <1>3, <1>4, <1>5, <1>6, <1>7, <1>8, <1>9, <1>10, <1>11, <1>12, <1>13,
     <1>14, <1>15, <1>16, <1>17, <1>18, <1>19, <1>20, <1>21, <1>22, <1>23, <1>24, <1>25, <1>26
     DEF Unmount

\* A check under way goes on until it ends.
LEMMA CheckGoesOn ==
  ASSUME TypeOK, [Next]_vars, NEW r \in Runs, run[r].pc = "checking", ~CheckEnds(r)
  PROVE  run'[r] = run[r]
<1>1. run \in [Runs -> RunRecord] /\ Done.pc = "idle"
  BY DEF TypeOK, Done
<1>2. ASSUME NEW q \in Runs, PickMgg(q) \/ RunCheck(q) \/ StopSession(q) \/ RunDemo(q)
      PROVE  run'[r] = run[r]
  BY <1>1, <1>2 DEF PickMgg, RunCheck, StopSession, RunDemo, Begin
<1>3. ASSUME NEW q \in Runs,
             \/ AcceptMgg(q) \/ RefuseMgg(q) \/ CheckEnds(q) \/ CaptureStarted(q) \/ Anchored(q)
             \/ StartFails(q) \/ StartFailed(q) \/ Discarded(q) \/ TakeCaptured(q)
             \/ TakeAnalyzed(q) \/ StopFails(q) \/ CoachAnswers(q)
      PROVE  run'[r] = run[r]
  BY <1>1, <1>3
     DEF AcceptMgg, RefuseMgg, CheckEnds, CaptureStarted, Anchored, StartFails, StartFailed,
         Discarded, TakeCaptured, TakeAnalyzed, StopFails, CoachAnswers, Go, End
<1>4. ASSUME NEW q \in Runs, NEW t \in Takes, StartUnchecked(q, t) \/ Confirm(q, t)
      PROVE  run'[r] = run[r]
  BY <1>1, <1>4 DEF StartUnchecked, Confirm, StartSession, Begin
<1> QED
  BY <1>2, <1>3, <1>4, StepCases
     DEF vars, GrantStream, LoadSong, WaveReady, ToggleRights, OpenDialog, CloseDialog,
         RestoreReminder, Unmount

LEMMA DialogStep == TypeOK /\ DialogAwaitsCheck /\ [Next]_vars => DialogAwaitsCheck'
<1> SUFFICES ASSUME TypeOK, DialogAwaitsCheck, [Next]_vars, mounted', checkRef' # None
             PROVE  dialog' = "checking" /\ run'[checkRef'].pc = "checking"
  BY DEF DialogAwaitsCheck
<1>1. mounted
  BY StepCases
     DEF TypeOK, vars, LoadSong, SetSong, WaveReady, ToggleRights, OpenDialog,
         CloseDialog, RestoreReminder, Unmount, PickMgg, RunCheck, RunDemo, StopSession,
         GrantStream, AcceptMgg, RefuseMgg, CheckEnds, CaptureStarted, Anchored, StartFails,
         StartFailed, Discarded, TakeCaptured, TakeAnalyzed, StopFails, CoachAnswers,
         StartUnchecked, Confirm
<1>2. \/ UNCHANGED <<dialog, checkRef>> /\ \A r \in Runs : ~CheckEnds(r)
      \/ CloseDialog \/ OpenDialog
      \/ \E r \in Runs : RunCheck(r) \/ CheckEnds(r)
      \/ \E r \in Runs, t \in Takes : Confirm(r, t)
  BY StepCases DEF vars, preferences, LoadSong, SetSong, WaveReady, ToggleRights, OpenDialog,
         CloseDialog, RestoreReminder, Unmount, PickMgg, RunCheck, RunDemo, StopSession,
         GrantStream, AcceptMgg, RefuseMgg, CheckEnds, CaptureStarted, Anchored, StartFails,
         StartFailed, Discarded, TakeCaptured, TakeAnalyzed, StopFails, CoachAnswers,
         StartUnchecked, Confirm
<1>3. checkRef \in Runs \cup {None}
  BY DEF TypeOK
<1>4. CASE UNCHANGED <<dialog, checkRef>> /\ \A r \in Runs : ~CheckEnds(r)
  <2>1. checkRef \in Runs /\ dialog = "checking" /\ run[checkRef].pc = "checking"
    BY <1>1, <1>3, <1>4 DEF DialogAwaitsCheck
  <2> QED
    BY <1>4, <2>1, CheckGoesOn
<1>5. CASE CloseDialog \/ \E r \in Runs, t \in Takes : Confirm(r, t)
  BY <1>5 DEF CloseDialog, Confirm
<1>6. CASE OpenDialog
  BY <1>1, <1>6 DEF OpenDialog, CanStart, DialogAwaitsCheck
<1>7. ASSUME NEW r \in Runs, RunCheck(r) PROVE dialog' = "checking" /\ run'[checkRef'].pc = "checking"
  <2>1. run'[r].pc = "checking"
    BY <1>7, RunChanges, LoadFacts DEF RunCheck, RunStates
  <2> QED
    BY <1>7, <2>1 DEF RunCheck
<1>8. ASSUME NEW r \in Runs, CheckEnds(r) PROVE dialog' = "checking" /\ run'[checkRef'].pc = "checking"
  <2>1. checkRef # r /\ checkRef' = checkRef /\ dialog' = dialog
    BY <1>8 DEF CheckEnds
  <2>2. checkRef \in Runs \ {r} /\ dialog = "checking" /\ run[checkRef].pc = "checking"
    BY <1>1, <1>3, <2>1 DEF DialogAwaitsCheck
  <2>3. run'[checkRef] = run[checkRef]
    BY <1>8, <2>2, RunChanges DEF CheckEnds
  <2> QED
    BY <2>1, <2>2, <2>3
<1> QED
  BY <1>2, <1>4, <1>5, <1>6, <1>7, <1>8

LEMMA SessionInvStep ==
  TypeOK /\ TakesKnown /\ DialogAwaitsCheck /\ SessionInv /\ [Next]_vars => SessionInv'
  BY CalmBefore, SessionStep, GoneStep DEF SessionInv
-----------------------------------------------------------------------------
(* What follows for the microphone, the history and the coach's answers.   *)

\* While no other microphone opens and the starting sessions go on, owners stay.
LEMMA OwnersKept ==
  ASSUME MicIsOwned, ~disturbed, captureRef' = captureRef,
         \A t \in Takes : mic'[t] = "open" => mic[t] = "open",
         \A q \in Runs : run[q].pc \in {"opening", "anchoring"} => run'[q] = run[q]
  PROVE  MicIsOwned'
  BY DEF MicIsOwned, Starting

LEMMA SessionStarts ==
  ASSUME TypeOK, NEW r \in Runs, NEW t \in Takes, StartSession(r, t)
  PROVE  /\ \A u \in Takes : mic'[u] = "open" => mic[u] = "open"
         /\ \A q \in Runs : run[q].pc \in {"opening", "anchoring"} => run'[q] = run[q]
<1>1. \A u \in Takes : mic'[u] = "open" => mic[u] = "open"
  BY DEF StartSession, TypeOK
<1>2. CASE run' = run
  BY <1>1, <1>2
<1>3. CASE Begin(r, "opening", t, wave)
  <2>1. run[r].pc = "idle" /\ \A q \in Runs \ {r} : run'[q] = run[q]
    BY <1>3, RunChanges DEF RunStates, TypeOK
  <2> QED
    BY <1>1, <2>1
<1> QED
  BY <1>2, <1>3 DEF StartSession

LEMMA OwnerStep ==
  ASSUME TypeOK, TakesKnown, SessionInv, MicIsOwned, [Next]_vars
  PROVE  MicIsOwned'
<1> SUFFICES ASSUME ~disturbed' PROVE MicIsOwned'
  BY DEF MicIsOwned
<1> USE DEF screen, source, hardware, clockwork, preferences
<1>0. /\ ~disturbed /\ (mounted => SessionParts)
      /\ (~mounted => captureRef = None /\ recordingRef = FALSE)
  BY CalmBefore, StepCases
     DEF SessionInv, GoneInv, Calm, TypeOK, vars, LoadSong, SetSong, WaveReady, ToggleRights,
         OpenDialog, CloseDialog, RestoreReminder, Unmount, PickMgg, RunCheck, RunDemo, StopSession,
         GrantStream, AcceptMgg, RefuseMgg, CheckEnds, CaptureStarted, Anchored, StartFails,
         StartFailed, Discarded, TakeCaptured, TakeAnalyzed, StopFails, CoachAnswers,
         StartUnchecked, Confirm
<1>1. ASSUME NEW r \in Runs, PickMgg(r) \/ RunCheck(r) \/ RunDemo(r) PROVE MicIsOwned'
  <2>1. song' \in Loads
    BY <1>1, LoadFacts DEF PickMgg, RunCheck, RunDemo, TypeOK
  <2>2. \A q \in Runs : run[q].pc \in {"opening", "anchoring"} => run'[q] = run[q]
    BY <1>1, <2>1, RunChanges, LoadFacts DEF PickMgg, RunCheck, RunDemo, RunStates
  <2>3. UNCHANGED <<mic, captureRef>>
    BY <1>1 DEF PickMgg, RunCheck, RunDemo
  <2> QED
    BY <1>0, <2>2, <2>3 DEF MicIsOwned, Starting
<1> USE DEF SessionParts, Phases, Phase, Quiet, MicIsOwned, Starting, RunStates, TypeOK, TakesKnown
<1> USE LoadFacts
<1>2. ASSUME NEW d \in BOOLEAN, LoadSong(d) PROVE MicIsOwned'
  BY <1>0, <1>2 DEF LoadSong, SetSong
<1>3. ASSUME WaveReady PROVE MicIsOwned'
  BY <1>0, <1>3 DEF WaveReady
<1>4. ASSUME ToggleRights PROVE MicIsOwned'
  BY <1>0, <1>4 DEF ToggleRights
<1>5. ASSUME OpenDialog PROVE MicIsOwned'
  BY <1>0, <1>5 DEF OpenDialog
<1>6. ASSUME CloseDialog PROVE MicIsOwned'
  BY <1>0, <1>6 DEF CloseDialog
<1>7. ASSUME RestoreReminder PROVE MicIsOwned'
  BY <1>0, <1>7 DEF RestoreReminder
<1>8. ASSUME Unmount PROVE MicIsOwned'
  BY <1>0, <1>8 DEF Unmount
<1>9. ASSUME NEW r \in Runs, StopSession(r) PROVE MicIsOwned'
  BY <1>0, <1>9, RunChanges DEF StopSession, Close
<1>10. ASSUME NEW r \in Runs, GrantStream(r) PROVE MicIsOwned'
  BY <1>0, <1>10, RunChanges DEF GrantStream
<1>11. ASSUME NEW r \in Runs, AcceptMgg(r) PROVE MicIsOwned'
  BY <1>0, <1>11, RunChanges DEF AcceptMgg, SetSong
<1>12. ASSUME NEW r \in Runs, RefuseMgg(r) PROVE MicIsOwned'
  BY <1>0, <1>12, RunChanges DEF RefuseMgg
<1>13. ASSUME NEW r \in Runs, CheckEnds(r) PROVE MicIsOwned'
  BY <1>0, <1>13, RunChanges DEF CheckEnds
<1>14. ASSUME NEW r \in Runs, CaptureStarted(r) PROVE MicIsOwned'
  <2> SUFFICES ASSUME NEW t \in Takes, mic'[t] = "open"
               PROVE  captureRef' = t \/ Starting(t)'
    BY DEF MicIsOwned
  <2>1. run[r].take \in Takes /\ mic \in [Takes -> {"unused", "asked", "open", "closed"}]
    BY <1>14 DEF CaptureStarted, TakesKnown, TypeOK
  <2>2. \A q \in Runs \ {r} : run'[q] = run[q]
    BY <1>14, RunChanges DEF CaptureStarted, RunStates
  <2>3. mounted => captureRef = None
    BY <1>0, <1>14 DEF CaptureStarted, SessionParts, Phases, Phase
  <2>4. mic[t] = "open" /\ (captureRef = t \/ Starting(t))
    BY <1>0, <1>14, <2>1 DEF CaptureStarted, Close, MicIsOwned
  <2>5. Starting(t)
    BY <1>0, <2>3, <2>4, WorkbenchAssumption
  <2>6. CASE run[r].take = t
    BY <1>14, <2>1, <2>6 DEF CaptureStarted, Close
  <2>7. CASE run[r].take # t
    BY <2>2, <2>5, <2>7 DEF Starting
  <2> QED
    BY <2>6, <2>7
<1>15. ASSUME NEW r \in Runs, Anchored(r) PROVE MicIsOwned'
  BY <1>0, <1>15, RunChanges DEF Anchored, Close
<1>16. ASSUME NEW r \in Runs, StartFails(r) PROVE MicIsOwned'
  BY <1>0, <1>16, RunChanges DEF StartFails, Close
<1>17. ASSUME NEW r \in Runs, StartFailed(r) PROVE MicIsOwned'
  BY <1>0, <1>17, RunChanges DEF StartFailed
<1>18. ASSUME NEW r \in Runs, Discarded(r) PROVE MicIsOwned'
  BY <1>0, <1>18, RunChanges DEF Discarded
<1>19. ASSUME NEW r \in Runs, TakeCaptured(r) PROVE MicIsOwned'
  BY <1>0, <1>19, RunChanges DEF TakeCaptured
<1>20. ASSUME NEW r \in Runs, TakeAnalyzed(r) PROVE MicIsOwned'
  BY <1>0, <1>20, RunChanges DEF TakeAnalyzed
<1>21. ASSUME NEW r \in Runs, StopFails(r) PROVE MicIsOwned'
  BY <1>0, <1>21, RunChanges DEF StopFails
<1>22. ASSUME NEW r \in Runs, CoachAnswers(r) PROVE MicIsOwned'
  BY <1>0, <1>22, RunChanges DEF CoachAnswers
<1>23. ASSUME NEW r \in Runs, NEW t \in Takes, StartUnchecked(r, t) PROVE MicIsOwned'
  <2>1. StartSession(r, t) /\ captureRef' = captureRef
    BY <1>23 DEF StartUnchecked
  <2> QED
    BY <1>0, <2>1, SessionStarts, OwnersKept
<1>24. ASSUME NEW r \in Runs, NEW t \in Takes, Confirm(r, t) PROVE MicIsOwned'
  <2>1. StartSession(r, t) /\ captureRef' = captureRef
    BY <1>24 DEF Confirm
  <2> QED
    BY <1>0, <2>1, SessionStarts, OwnersKept
<1>25. CASE UNCHANGED vars
  BY <1>25 DEF vars, MicIsOwned, Starting
<1> QED
  BY StepCases, <1>1, <1>2, <1>3, <1>4, <1>5, <1>6, <1>7, <1>8, <1>9, <1>10, <1>11, <1>12, <1>13,
     <1>14, <1>15, <1>16, <1>17, <1>18, <1>19, <1>20, <1>21, <1>22, <1>23, <1>24, <1>25

LEMMA OneEntryStep ==
  ASSUME TypeOK, SessionInv, OneEntryPerTake, [Next]_vars
  PROVE  OneEntryPerTake'
<1> SUFFICES ASSUME ~disturbed' PROVE OneEntryPerTake'
  BY DEF OneEntryPerTake
<1>1. ~disturbed /\ (mounted => SessionParts)
  BY CalmBefore, StepCases
     DEF SessionInv, Calm, TypeOK, vars, LoadSong, SetSong, WaveReady, ToggleRights, OpenDialog,
         CloseDialog, RestoreReminder, Unmount, PickMgg, RunCheck, RunDemo, StopSession,
         GrantStream, AcceptMgg, RefuseMgg, CheckEnds, CaptureStarted, Anchored, StartFails,
         StartFailed, Discarded, TakeCaptured, TakeAnalyzed, StopFails, CoachAnswers,
         StartUnchecked, Confirm
<1>2. history' = history \/ \E r \in Runs : CoachAnswers(r) /\ history' # history
  BY StepCases DEF vars, LoadSong, SetSong, WaveReady, ToggleRights, OpenDialog,
         CloseDialog, RestoreReminder, Unmount, PickMgg, RunCheck, RunDemo, StopSession,
         GrantStream, AcceptMgg, RefuseMgg, CheckEnds, CaptureStarted, Anchored, StartFails,
         StartFailed, Discarded, TakeCaptured, TakeAnalyzed, StopFails, CoachAnswers,
         StartUnchecked, Confirm
<1>3. CASE history' = history
  BY <1>1, <1>3 DEF OneEntryPerTake
<1>4. ASSUME NEW r \in Runs, CoachAnswers(r), history' # history
      PROVE  OneEntryPerTake'
  <2> DEFINE e == [take |-> run[r].take, song |-> run[r].song]
  <2>1. mounted /\ history' = <<e>> \o history
    BY <1>4 DEF CoachAnswers
  <2>2. e \in Entries /\ history \in Seq(Entries)
    BY DEF TypeOK, RunRecord, Entries
  <2>3. e.take # None => \A j \in DOMAIN history : history[j].take # e.take
    BY <1>1, <1>4, <2>1 DEF CoachAnswers, SessionParts, Phases, Phase, HistoryIsPast
  <2>4. /\ DOMAIN history' = 1 .. Len(history) + 1
        /\ \A i \in DOMAIN history' : history'[i] = IF i = 1 THEN e ELSE history[i - 1]
    BY <2>1, <2>2, Prepend
  <2>5. \A i \in DOMAIN history' : i # 1 => i - 1 \in DOMAIN history
    BY <2>4, HistoryFacts
  <2>6. ASSUME NEW i \in DOMAIN history', NEW j \in DOMAIN history',
               history'[i].take = history'[j].take, history'[i].take # None
        PROVE  i = j
    <3>1. CASE i = 1 \/ j = 1
      BY <2>3, <2>4, <2>5, <2>6, <3>1
    <3>2. CASE i # 1 /\ j # 1
      <4>1. i - 1 = j - 1
        BY <1>1, <2>4, <2>5, <2>6, <3>2 DEF OneEntryPerTake
      <4> QED
        BY <2>4, <4>1, HistoryFacts
    <3> QED
      BY <3>1, <3>2
  <2> QED
    BY <2>6 DEF OneEntryPerTake
<1> QED
  BY <1>2, <1>3, <1>4

\* A current request stays current, about what is shown, until it is answered.
LEMMA DisplayStep == TypeOK /\ DisplayInv /\ [Next]_vars => DisplayInv'
<1> SUFFICES ASSUME TypeOK, DisplayInv, [Next]_vars, NEW r \in Runs, mounted', coachRef' = r
             PROVE  run'[r].pc \in {"coaching", "demo"} /\ shown' \in {0, run'[r].song}
  BY DEF DisplayInv
<1>0. mounted /\ r # None
  BY StepCases, WorkbenchAssumption
     DEF TypeOK, vars, LoadSong, SetSong, WaveReady, ToggleRights, OpenDialog,
         CloseDialog, RestoreReminder, Unmount, PickMgg, RunCheck, RunDemo, StopSession,
         GrantStream, AcceptMgg, RefuseMgg, CheckEnds, CaptureStarted, Anchored, StartFails,
         StartFailed, Discarded, TakeCaptured, TakeAnalyzed, StopFails, CoachAnswers,
         StartUnchecked, Confirm
<1>1. CASE TakeAnalyzed(r) \/ RunDemo(r)
  <2>1. run[r] \in RunRecord /\ song' \in Loads
    BY <1>1, LoadFacts DEF TypeOK, TakeAnalyzed, RunDemo, source
  <2> QED
    BY <1>1, <2>1, RunChanges, LoadFacts DEF TakeAnalyzed, RunDemo, RunStates
<1>2. CASE ~(TakeAnalyzed(r) \/ RunDemo(r))
  <2>1. \/ coachRef' \in {coachRef, None}
        \/ \E q \in Runs : (TakeAnalyzed(q) \/ RunDemo(q)) /\ coachRef' = q
    BY StepCases DEF vars, StartSession, LoadSong, SetSong, WaveReady, ToggleRights, OpenDialog,
         CloseDialog, RestoreReminder, Unmount, PickMgg, RunCheck, RunDemo, StopSession,
         GrantStream, AcceptMgg, RefuseMgg, CheckEnds, CaptureStarted, Anchored, StartFails,
         StartFailed, Discarded, TakeCaptured, TakeAnalyzed, StopFails, CoachAnswers,
         StartUnchecked, Confirm
  <2>2. coachRef = r
    BY <1>0, <1>2, <2>1
  <2>3. run[r].pc \in {"coaching", "demo"} /\ shown \in {0, run[r].song}
    BY <1>0, <2>2 DEF DisplayInv
  <2>4. ~\E q \in Runs : TakeAnalyzed(q) \/ RunDemo(q)
    BY <1>0, <1>2, <2>2 DEF TakeAnalyzed, RunDemo
  <2>5. shown' \in {shown, 0}
    <3>1. ASSUME NEW q \in Runs, CoachAnswers(q) PROVE shown' = shown
      BY <1>0, <2>2, <3>1 DEF CoachAnswers
    <3> QED
      BY <2>4, <3>1, StepCases
         DEF vars, StartSession, LoadSong, SetSong, WaveReady, ToggleRights, OpenDialog,
         CloseDialog, RestoreReminder, Unmount, PickMgg, RunCheck, RunDemo, StopSession,
         GrantStream, AcceptMgg, RefuseMgg, CheckEnds, CaptureStarted, Anchored, StartFails,
         StartFailed, Discarded, TakeCaptured, TakeAnalyzed, StopFails, CoachAnswers,
         StartUnchecked, Confirm
  <2>6. ~CoachAnswers(r)
    BY <1>0, <2>2 DEF CoachAnswers
  <2>7. run'[r] = run[r]
    <3>1. run \in [Runs -> RunRecord] /\ Done.pc = "idle"
      BY DEF TypeOK, Done
    <3>2. ASSUME NEW q \in Runs,
                 \/ PickMgg(q) \/ RunCheck(q) \/ StopSession(q) \/ AcceptMgg(q) \/ RefuseMgg(q)
                 \/ CheckEnds(q) \/ CaptureStarted(q) \/ Anchored(q) \/ StartFails(q)
                 \/ StartFailed(q) \/ Discarded(q) \/ TakeCaptured(q) \/ StopFails(q)
          PROVE  run'[r] = run[r]
      BY <2>3, <3>1, <3>2
         DEF PickMgg, RunCheck, StopSession, AcceptMgg, RefuseMgg, CheckEnds, CaptureStarted,
             Anchored, StartFails, StartFailed, Discarded, TakeCaptured, StopFails, Begin, Go, End
    <3>3. ASSUME NEW q \in Runs, CoachAnswers(q)
          PROVE  run'[r] = run[r]
      BY <2>6, <3>1, <3>3 DEF CoachAnswers, End
    <3>4. ASSUME NEW q \in Runs, NEW t \in Takes, StartUnchecked(q, t) \/ Confirm(q, t)
          PROVE  run'[r] = run[r]
      BY <2>3, <3>1, <3>4 DEF StartUnchecked, Confirm, StartSession, Begin
    <3> QED
      BY <2>4, <3>2, <3>3, <3>4, StepCases
         DEF vars, GrantStream, LoadSong, WaveReady, ToggleRights, OpenDialog, CloseDialog,
             RestoreReminder, Unmount
  <2> QED
    BY <2>3, <2>5, <2>7
<1> QED
  BY <1>1, <1>2
-----------------------------------------------------------------------------
(* The theorems.                                                           *)

IInv ==
  /\ TypeOK /\ TakesKnown
  /\ SessionInv /\ DisplayInv
  /\ DialogAwaitsCheck /\ MicIsOwned /\ OneEntryPerTake

LEMMA IInvInit == Init => IInv
<1> SUFFICES ASSUME Init PROVE IInv
  OBVIOUS
<1>1. TypeOK /\ TakesKnown
  BY TypeInit
<1>2. SessionInv
  <2>1. OneSession /\ Phases /\ HistoryIsPast
    BY
       DEF Init, Done, OneSession, Phases, Phase, InSession, StartStates, AnalysisStates,
           HistoryIsPast
  <2>2. Quiet /\ Sampling /\ GoneInv
    BY DEF Init, Quiet, Sampling, GoneInv
  <2> QED
    BY <2>1, <2>2 DEF SessionInv, SessionParts
<1>3. DisplayInv /\ DialogAwaitsCheck /\ MicIsOwned /\ OneEntryPerTake
  BY WorkbenchAssumption DEF Init, DisplayInv, DialogAwaitsCheck, MicIsOwned, OneEntryPerTake
<1> QED
  BY <1>1, <1>2, <1>3 DEF IInv

LEMMA IInvStep == IInv /\ [Next]_vars => IInv'
  BY TypeStep, SessionInvStep, DisplayStep, DialogStep, OwnerStep, OneEntryStep DEF IInv

THEOREM WorkbenchInvariant == Spec => []IInv
  BY IInvInit, IInvStep, PTL DEF Spec

\* No open microphone loses its owner between the awaits of startSession and
\* stopSession.
THEOREM MicrophonesOwned == Spec => []MicIsOwned
  BY WorkbenchInvariant, PTL DEF IInv

\* A page that shows a recording records, and can be stopped.
THEOREM RecordingsLive == Spec => []RecordingIsLive
<1>1. IInv => RecordingIsLive
  BY WorkbenchAssumption DEF IInv, SessionInv, Calm, SessionParts, Sampling, RecordingIsLive
<1> QED
  BY <1>1, WorkbenchInvariant, PTL

\* A take is analysed and recorded once.
THEOREM TakesRecordedOnce == Spec => []OneEntryPerTake
  BY WorkbenchInvariant, PTL DEF IInv

\* The current check is under way and shown, so an abandoned one never keeps a later
\* dialog from checking.
THEOREM DialogsAwaitTheirCheck == Spec => []DialogAwaitsCheck
  BY WorkbenchInvariant, PTL DEF IInv

\* The dialog never shows the verdict of an abandoned check.
THEOREM VerdictsStayCurrent == Spec => VerdictsAreCurrent
<1>1. IInv /\ [Next]_vars => [(dialog' # dialog /\ dialog' \in {"error", "passed"}) =>
                                 /\ mounted /\ checkRef # None
                                 /\ run[checkRef].pc = "checking" /\ run'[checkRef].pc # "checking"]_vars
  <2> SUFFICES ASSUME IInv, [Next]_vars, dialog' # dialog, dialog' \in {"error", "passed"}
               PROVE  /\ mounted /\ checkRef # None
                      /\ run[checkRef].pc = "checking" /\ run'[checkRef].pc # "checking"
    OBVIOUS
  <2>1. PICK r \in Runs : CheckEnds(r)
    BY StepCases DEF vars, preferences, LoadSong, SetSong, WaveReady, ToggleRights, OpenDialog,
         CloseDialog, RestoreReminder, Unmount, PickMgg, RunCheck, RunDemo, StopSession,
         GrantStream, AcceptMgg, RefuseMgg, CheckEnds, CaptureStarted, Anchored, StartFails,
         StartFailed, Discarded, TakeCaptured, TakeAnalyzed, StopFails, CoachAnswers,
         StartUnchecked, Confirm
  <2>2. mounted /\ checkRef = r /\ run[r].pc = "checking" /\ r # None
    BY <2>1, WorkbenchAssumption DEF CheckEnds
  <2>3. run'[r].pc = "idle"
    BY <2>1, RunChanges DEF CheckEnds, IInv
  <2> QED
    BY <2>2, <2>3
<1> QED
  BY <1>1, WorkbenchInvariant, PTL DEF Spec, VerdictsAreCurrent

\* What is recorded in the history is about the song on display.
THEOREM AnswersAreCurrent == Spec => AnswersMatchDisplay
<1>1. IInv /\ [Next]_vars => [history' # history => shown \in {0, Head(history').song}]_vars
  <2> SUFFICES ASSUME IInv, [Next]_vars, history' # history
               PROVE  shown \in {0, Head(history').song}
    OBVIOUS
  <2>1. PICK r \in Runs : CoachAnswers(r)
    BY StepCases DEF vars, LoadSong, SetSong, WaveReady, ToggleRights, OpenDialog,
         CloseDialog, RestoreReminder, Unmount, PickMgg, RunCheck, RunDemo, StopSession,
         GrantStream, AcceptMgg, RefuseMgg, CheckEnds, CaptureStarted, Anchored, StartFails,
         StartFailed, Discarded, TakeCaptured, TakeAnalyzed, StopFails, CoachAnswers,
         StartUnchecked, Confirm
  <2>2. mounted /\ coachRef = r
        /\ history' = <<[take |-> run[r].take, song |-> run[r].song]>> \o history
    BY <2>1 DEF CoachAnswers
  <2>3. Head(history') = [take |-> run[r].take, song |-> run[r].song]
    BY <2>2, Prepend DEF IInv, TypeOK, RunRecord
  <2> QED
    BY <2>2, <2>3 DEF IInv, DisplayInv
<1> QED
  BY <1>1, WorkbenchInvariant, PTL DEF Spec, AnswersMatchDisplay
=============================================================================
