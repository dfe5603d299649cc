------------------------ MODULE PracticeLedger_proofs ------------------------
(***************************************************************************)
(* Invariance proofs about PracticeLedger, for every set of documents,     *)
(* sessions, phrases and concurrent requests.                              *)
(***************************************************************************)
EXTENDS PracticeLedger, SequenceTheorems, TLAPS

\* Every step is one of the actions: the case split all invariance proofs use.
LEMMA StepCases ==
  ASSUME [Next]_vars
  PROVE  \/ Tick
         \/ \E a \in Assets : ReserveAsset(a)
         \/ \E a \in Assets : UploadAsset(a)
         \/ \E m \in Manifests : PublishManifest(m)
         \/ \E t \in Sessions, m \in Manifests : CreatePracticeSession(t, m)
         \/ \E p \in Phrases : ReservePhrase(p)
         \/ \E p \in Phrases : ExpireRawAudio(p)
         \/ \E r \in Requests : PreReadSong(r)
         \/ \E r \in Requests, p \in Phrases : PreReadPhrase(r, p)
         \/ \E r \in Requests : EnterService(r)
         \/ \E r \in Requests : UploadSong(r)
         \/ \E r \in Requests, p \in Phrases : UploadPhrase(r, p)
         \/ \E r \in Requests, sc \in Scores, m \in Manifests : LookUpKey(r, sc, m)
         \/ \E r \in Requests : AnswerRetry(r)
         \/ \E r \in Requests : LockSong(r)
         \/ \E r \in Requests : LockSession(r)
         \/ \E r \in Requests : WriteScore(r)
         \/ \E r \in Requests : RequestSongDeletion(r)
         \/ \E r \in Requests : DeletionLocksSong(r)
         \/ \E r \in Requests : DeletionLocksSessions(r)
         \/ \E r \in Requests : DeletionLocksPhrases(r)
         \/ \E r \in Requests : CommitDeletion(r)
         \/ \E r \in Requests : Disconnect(r)
         \/ UNCHANGED vars
  BY DEF Next, Arrive, Upload, Write, Delete
-----------------------------------------------------------------------------
(* Types.                                                                  *)

UploadRecord == [pc : {"reading", "entered"}, target : {Source} \cup Phrases,
                 seen : SongStates \cup AudioStates, at : Nat]
WriteRecord == [pc : {"keyed", "songLocked", "sessionLocked", "retry"}, doc : Scores,
                manifest : Manifests, id : Nat]
DeleteRecord == [pc : {"delete", "delSong", "delSessions", "delPhrases"}, rows : SUBSET Phrases]

\* The progress of a request tells what kind of request it is.
LEMMA RequestKinds ==
  ASSUME TypeOK, NEW r \in Requests
  PROVE  /\ req[r].pc \in {"reading", "entered"} => req[r] \in UploadRecord
         /\ req[r].pc \in {"keyed", "songLocked", "sessionLocked", "retry"} => req[r] \in WriteRecord
         /\ req[r].pc \in {"delete", "delSong", "delSessions", "delPhrases"} => req[r] \in DeleteRecord
<1>1. req[r] \in RequestRecord
  BY DEF TypeOK
<1>2. Idle.pc = "idle"
  BY DEF Idle
<1>3. req[r] = Idle \/ req[r] \in UploadRecord \/ req[r] \in WriteRecord \/ req[r] \in DeleteRecord
  BY <1>1 DEF RequestRecord, UploadRecord, WriteRecord, DeleteRecord
<1>4. /\ req[r] \in UploadRecord => req[r].pc \in {"reading", "entered"}
      /\ req[r] \in WriteRecord => req[r].pc \in {"keyed", "songLocked", "sessionLocked", "retry"}
      /\ req[r] \in DeleteRecord => req[r].pc \in {"delete", "delSong", "delSessions", "delPhrases"}
  BY DEF UploadRecord, WriteRecord, DeleteRecord
<1> QED
  BY <1>2, <1>3, <1>4

LEMMA RequestSets ==
  Idle \in RequestRecord /\ UploadRecord \subseteq RequestRecord
  /\ WriteRecord \subseteq RequestRecord /\ DeleteRecord \subseteq RequestRecord
  BY DEF RequestRecord, UploadRecord, WriteRecord, DeleteRecord

\* A request that ends, and one that gets a lock, keep their type.
LEMMA RequestSteps ==
  ASSUME TypeOK, NEW r \in Requests
  PROVE  /\ End(r) => req' \in [Requests -> RequestRecord]
         /\ \A pc \in {"songLocked", "sessionLocked"} :
              req[r].pc \in {"keyed", "songLocked"} /\ GoTo(r, pc) => req' \in [Requests -> RequestRecord]
         /\ \A pc \in {"delSong", "delSessions"} :
              req[r].pc \in {"delete", "delSong"} /\ GoTo(r, pc) => req' \in [Requests -> RequestRecord]
<1>1. End(r) => req' \in [Requests -> RequestRecord]
  BY RequestSets DEF TypeOK, End
<1>2. ASSUME NEW pc \in {"songLocked", "sessionLocked"}, req[r].pc \in {"keyed", "songLocked"}, GoTo(r, pc)
      PROVE  req' \in [Requests -> RequestRecord]
  <2>1. req[r] \in WriteRecord
    BY <1>2, RequestKinds
  <2>2. [req[r] EXCEPT !.pc = pc] \in WriteRecord
    BY <2>1 DEF WriteRecord
  <2> QED
    BY <1>2, <2>2, RequestSets DEF TypeOK, GoTo
<1>3. ASSUME NEW pc \in {"delSong", "delSessions"}, req[r].pc \in {"delete", "delSong"}, GoTo(r, pc)
      PROVE  req' \in [Requests -> RequestRecord]
  <2>1. req[r] \in DeleteRecord
    BY <1>3, RequestKinds
  <2>2. [req[r] EXCEPT !.pc = pc] \in DeleteRecord
    BY <2>1 DEF DeleteRecord
  <2> QED
    BY <1>3, <2>2, RequestSets DEF TypeOK, GoTo
<1> QED
  BY <1>1, <1>2, <1>3

LEMMA FunctionsAreSequences ==
  ASSUME NEW S, NEW n \in Nat, NEW f \in [1 .. n -> S]
  PROVE  f \in Seq(S) /\ Len(f) = n
  OBVIOUS

LEMMA LedgerFacts ==
  ASSUME TypeOK
  PROVE  /\ ledger \in Seq(LedgerEntry)
         /\ DOMAIN ledger = 1 .. Len(ledger) /\ Len(ledger) \in Nat
         /\ \A i \in DOMAIN ledger : ledger[i] \in LedgerEntry
<1>1. ledger \in Seq(LedgerEntry)
  BY DEF TypeOK
<1> QED
  BY <1>1

LEMMA TypeInit == Init => TypeOK
<1> SUFFICES ASSUME Init PROVE TypeOK
  OBVIOUS
<1> USE DocumentAssumption DEF Init
<1>1. clock \in 0 .. MaxClock /\ song \in [state : SongStates, uploadedAt : Nat]
  BY DEF SongStates
<1>2. manifest \in [Manifests -> Rows] /\ session \in [Sessions -> [row : Rows, manifest : SUBSET Manifests]]
  BY DEF Rows
<1>3. phrase \in [Phrases -> PhraseRecord] /\ asset \in [Assets -> {"absent"} \cup AudioStates]
  BY DEF PhraseRecord, Rows, AudioStates
<1>4. ledger \in Seq(LedgerEntry)
  OBVIOUS
<1>5. req \in [Requests -> RequestRecord]
  BY RequestSets
<1> QED
  BY <1>1, <1>2, <1>3, <1>4, <1>5 DEF TypeOK

LEMMA TypeStep == TypeOK /\ [Next]_vars => TypeOK'
<1> SUFFICES ASSUME TypeOK, [Next]_vars PROVE TypeOK'
  OBVIOUS
<1> USE DocumentAssumption
<1>1. CASE Tick
  BY <1>1 DEF Tick, TypeOK
<1>2. ASSUME NEW a \in Assets, ReserveAsset(a) \/ UploadAsset(a) PROVE TypeOK'
  BY <1>2 DEF ReserveAsset, UploadAsset, TypeOK, AudioStates
<1>3. ASSUME NEW m \in Manifests, PublishManifest(m) PROVE TypeOK'
  BY <1>3 DEF PublishManifest, TypeOK, Rows, SongStates
<1>4. ASSUME NEW t \in Sessions, NEW m \in Manifests, CreatePracticeSession(t, m) PROVE TypeOK'
  BY <1>4 DEF CreatePracticeSession, TypeOK, Rows
<1>5. ASSUME NEW p \in Phrases, ReservePhrase(p) PROVE TypeOK'
  <2>1. clock + TTL \in Nat
    BY DEF TypeOK
  <2> QED
    BY <1>5, <2>1 DEF ReservePhrase, TypeOK, PhraseRecord, Rows, AudioStates
<1>6. ASSUME NEW p \in Phrases, ExpireRawAudio(p) PROVE TypeOK'
  <2>1. phrase \in [Phrases -> PhraseRecord]
    BY DEF TypeOK
  <2>2. [phrase[p] EXCEPT !.audio = "DELETED", !.expired = TRUE] \in PhraseRecord
    BY <2>1 DEF PhraseRecord, AudioStates
  <2>3. phrase' = [phrase EXCEPT ![p] = [phrase[p] EXCEPT !.audio = "DELETED", !.expired = TRUE]]
    BY <1>6, <2>1 DEF ExpireRawAudio
  <2> QED
    BY <1>6, <2>1, <2>2, <2>3 DEF ExpireRawAudio, TypeOK
<1>7. ASSUME NEW r \in Requests, PreReadSong(r) PROVE TypeOK'
  <2>1. [pc |-> "reading", target |-> Source, seen |-> song.state, at |-> 0] \in UploadRecord
    BY DEF TypeOK, UploadRecord
  <2> QED
    BY <1>7, <2>1, RequestSets DEF PreReadSong, Start, TypeOK
<1>8. ASSUME NEW r \in Requests, NEW p \in Phrases, PreReadPhrase(r, p) PROVE TypeOK'
  <2>1. [pc |-> "reading", target |-> p, seen |-> phrase[p].audio, at |-> 0] \in UploadRecord
    BY DEF TypeOK, UploadRecord, PhraseRecord
  <2> QED
    BY <1>8, <2>1, RequestSets DEF PreReadPhrase, Start, TypeOK
<1>9. ASSUME NEW r \in Requests, EnterService(r) PROVE TypeOK'
  <2>1. req[r] \in UploadRecord /\ clock \in Nat
    BY <1>9, RequestKinds DEF EnterService, TypeOK
  <2>2. [req[r] EXCEPT !.pc = "entered", !.at = clock] \in UploadRecord
    BY <2>1 DEF UploadRecord
  <2>3. req' = [req EXCEPT ![r] = [req[r] EXCEPT !.pc = "entered", !.at = clock]]
    BY <1>9 DEF EnterService, TypeOK
  <2> QED
    BY <1>9, <2>2, <2>3, RequestSets DEF EnterService, TypeOK
<1>10. ASSUME NEW r \in Requests, UploadSong(r) PROVE TypeOK'
  <2>1. req[r].at \in Nat
    BY <1>10, RequestKinds DEF UploadSong, UploadRecord
  <2>2. song' \in [state : SongStates, uploadedAt : Nat]
    BY <1>10, <2>1 DEF UploadSong, TypeOK, SongStates
  <2> QED
    BY <1>10, <2>2, RequestSteps DEF UploadSong, TypeOK
<1>11. ASSUME NEW r \in Requests, NEW p \in Phrases, UploadPhrase(r, p) PROVE TypeOK'
  <2>1. req[r].at \in Nat
    BY <1>11, RequestKinds DEF UploadPhrase, UploadRecord
  <2>2. phrase[p] \in PhraseRecord /\ phrase \in [Phrases -> PhraseRecord]
    BY DEF TypeOK
  <2>3. \A audio \in AudioStates :
          [phrase[p] EXCEPT !.uploadedAt = req[r].at, !.audio = audio] \in PhraseRecord
    BY <2>1, <2>2 DEF PhraseRecord
  <2>4. phrase' = phrase \/ \E audio \in AudioStates :
          phrase' = [phrase EXCEPT ![p] = [phrase[p] EXCEPT !.uploadedAt = req[r].at, !.audio = audio]]
    <3>1. phrase[p].audio \in AudioStates /\ "STORED" \in AudioStates
      BY <2>2 DEF PhraseRecord, AudioStates
    <3>2. CASE phrase' = phrase
      BY <3>2
    <3>3. CASE phrase' # phrase
      <4> DEFINE copy == req[r].seen
                 audio == IF copy = "PENDING" THEN "STORED" ELSE phrase[p].audio
      <4>1. phrase' = [phrase EXCEPT ![p].uploadedAt = req[r].at,
                                     ![p].audio = IF copy = "PENDING" THEN "STORED" ELSE @]
        BY <1>11, <3>3 DEF UploadPhrase
      <4>2. phrase' = [phrase EXCEPT ![p] = [phrase[p] EXCEPT !.uploadedAt = req[r].at, !.audio = audio]]
        BY <4>1, <2>2 DEF PhraseRecord
      <4>3. audio \in AudioStates
        BY <3>1
      <4> HIDE DEF audio
      <4> QED
        BY <4>2, <4>3
    <3> QED
      BY <3>2, <3>3
  <2>5. phrase' \in [Phrases -> PhraseRecord]
    BY <2>2, <2>3, <2>4
  <2> QED
    BY <1>11, <2>5, RequestSteps DEF UploadPhrase, TypeOK
<1>12. ASSUME NEW r \in Requests, NEW sc \in Scores, NEW m \in Manifests, LookUpKey(r, sc, m) PROVE TypeOK'
  <2>1. [pc |-> "keyed", doc |-> sc, manifest |-> m, id |-> 0] \in WriteRecord
    BY DEF WriteRecord
  <2>2. \A i \in Keyed(sc) : [pc |-> "retry", doc |-> sc, manifest |-> m, id |-> i] \in WriteRecord
    BY DEF WriteRecord, Keyed, TypeOK, LedgerEntry
  <2> QED
    BY <1>12, <2>1, <2>2, RequestSets DEF LookUpKey, Start, TypeOK
<1>13. ASSUME NEW r \in Requests, AnswerRetry(r) PROVE TypeOK'
  <2>1. req[r] \in WriteRecord
    BY <1>13, RequestKinds DEF AnswerRetry
  <2>2. answers' \subseteq [doc : Scores, manifest : Manifests, id : Nat]
    BY <1>13, <2>1 DEF AnswerRetry, Answer, TypeOK, WriteRecord
  <2> QED
    BY <1>13, <2>2, RequestSteps DEF AnswerRetry, TypeOK
<1>14. ASSUME NEW r \in Requests, LockSong(r) \/ LockSession(r) PROVE TypeOK'
  <2>1. req' \in [Requests -> RequestRecord]
    BY <1>14, RequestSteps DEF LockSong, LockSession
  <2> QED
    BY <1>14, <2>1 DEF LockSong, LockSession, TypeOK
<1>15. ASSUME NEW r \in Requests, WriteScore(r) PROVE TypeOK'
  <2>1. req[r].doc \in Scores /\ req[r].manifest \in Manifests
    BY <1>15, RequestKinds DEF WriteScore, WriteRecord
  <2>2. [doc |-> req[r].doc, manifest |-> req[r].manifest, row |-> "live"] \in LedgerEntry
    BY <2>1 DEF Rows, LedgerEntry
  <2>3. ledger' \in Seq(LedgerEntry)
    <3>1. Append(ledger, [doc |-> req[r].doc, manifest |-> req[r].manifest, row |-> "live"])
            \in Seq(LedgerEntry)
      BY <2>2, LedgerFacts, AppendProperties
    <3> QED
      BY <1>15, <3>1, LedgerFacts DEF WriteScore
  <2>4. Len(ledger) + 1 \in Nat
    BY DEF TypeOK
  <2>5. answers' \subseteq [doc : Scores, manifest : Manifests, id : Nat]
    BY <1>15, <2>1, <2>4 DEF WriteScore, Answer, TypeOK
  <2> QED
    BY <1>15, <2>3, <2>5, RequestSteps DEF WriteScore, TypeOK
<1>16. ASSUME NEW r \in Requests, RequestSongDeletion(r) PROVE TypeOK'
  <2>1. [pc |-> "delete", rows |-> {}] \in DeleteRecord
    BY DEF DeleteRecord
  <2> QED
    BY <1>16, <2>1, RequestSets DEF RequestSongDeletion, Start, TypeOK
<1>17. ASSUME NEW r \in Requests, DeletionLocksSong(r) \/ DeletionLocksSessions(r) PROVE TypeOK'
  <2>1. req' \in [Requests -> RequestRecord]
    BY <1>17, RequestSteps DEF DeletionLocksSong, DeletionLocksSessions
  <2> QED
    BY <1>17, <2>1 DEF DeletionLocksSong, DeletionLocksSessions, TypeOK
<1>18. ASSUME NEW r \in Requests, DeletionLocksPhrases(r) PROVE TypeOK'
  <2> DEFINE rows == {p \in Phrases : phrase[p].row = "live"}
  <2>1. req[r] \in DeleteRecord
    BY <1>18, RequestKinds DEF DeletionLocksPhrases
  <2>2. [req[r] EXCEPT !.pc = "delPhrases", !.rows = rows] \in DeleteRecord
    BY <2>1 DEF DeleteRecord
  <2>3. req' = [req EXCEPT ![r] = [req[r] EXCEPT !.pc = "delPhrases", !.rows = rows]]
    BY <1>18 DEF DeletionLocksPhrases, TypeOK
  <2> QED
    BY <1>18, <2>2, <2>3, RequestSets DEF DeletionLocksPhrases, TypeOK
<1>19. ASSUME NEW r \in Requests, CommitDeletion(r) PROVE TypeOK'
  <2>1. song' \in [state : SongStates, uploadedAt : Nat] /\ manifest' \in [Manifests -> Rows]
    BY <1>19 DEF CommitDeletion, Buried, TypeOK, SongStates, Rows
  <2>2. session' \in [Sessions -> [row : Rows, manifest : SUBSET Manifests]]
    BY <1>19 DEF CommitDeletion, Buried, TypeOK, Rows
  <2>3. phrase' \in [Phrases -> PhraseRecord]
    BY <1>19 DEF CommitDeletion, TypeOK, PhraseRecord, Rows, AudioStates
  <2>4. asset' \in [Assets -> {"absent"} \cup AudioStates]
    BY <1>19 DEF CommitDeletion, TypeOK, AudioStates
  <2>5. ledger' \in Seq(LedgerEntry)
    <3>1. \A i \in DOMAIN ledger : [ledger[i] EXCEPT !.row = "tombstoned"] \in LedgerEntry
      BY LedgerFacts DEF Rows, LedgerEntry
    <3>2. DOMAIN ledger = 1 .. Len(ledger) /\ Len(ledger) \in Nat
      BY LedgerFacts
    <3>3. ledger' \in [1 .. Len(ledger) -> LedgerEntry]
      BY <1>19, <3>1, <3>2 DEF CommitDeletion
    <3> QED
      BY <3>2, <3>3, FunctionsAreSequences
  <2> QED
    BY <1>19, <2>1, <2>2, <2>3, <2>4, <2>5, RequestSteps DEF CommitDeletion, TypeOK
<1>20. ASSUME NEW r \in Requests, Disconnect(r) PROVE TypeOK'
  BY <1>20, RequestSteps DEF Disconnect, TypeOK
<1>21. CASE UNCHANGED vars
  BY <1>21 DEF vars, TypeOK
<1> QED
  BY StepCases, <1>1, <1>2, <1>3, <1>4, <1>5, <1>6, <1>7, <1>8, <1>9, <1>10, <1>11, <1>12, <1>13,
     <1>14, <1>15, <1>16, <1>17, <1>18, <1>19, <1>20, <1>21

\* Every variable keeps its type, whatever the documents and however many requests run.
THEOREM LedgerTypes == Spec => []TypeOK
  BY TypeInit, TypeStep, PTL DEF Spec
-----------------------------------------------------------------------------
(* The song lock, and the absence of waiting cycles.                       *)

Mutex == \A r, q \in Requests : HoldsSong(r) /\ HoldsSong(q) => r = q

\* The rows of the song stand and fall together: a phrase needs its session, and
\* session, manifest, asset and score need the song.
Rowwise ==
  /\ \A p \in Phrases : phrase[p].keyed <=> phrase[p].row = "live"
  /\ \A p \in Phrases : phrase[p].row = "live" => session[SessionOf[p]].row = "live"
  /\ \A t \in Sessions : session[t].row = "live" => SongLive
  /\ \A m \in Manifests : manifest[m] = "live" => SongLive /\ Available(m)
  /\ \A a \in Assets : asset[a] \in {"PENDING", "STORED"} => SongLive
  /\ \A i \in DOMAIN ledger : ledger[i].row = "live" <=> SongLive

\* A deletion that has its locks knows every live phrase.
DeletionComplete ==
  \A r \in Requests : req[r].pc = "delPhrases" =>
    \A p \in Phrases : phrase[p].row = "live" => p \in req[r].rows

KeysDistinct ==
  \A p, q \in Phrases : phrase[p].keyed /\ phrase[q].keyed /\ PhraseKey[p] = PhraseKey[q] => p = q

\* One record per key, live or not, and every answer, given or under way, is about one.
Recorded(a) ==
  a.id \in DOMAIN ledger /\ ledger[a.id].doc = a.doc /\ ledger[a.id].manifest = a.manifest
ScoresDistinct ==
  \A i, j \in DOMAIN ledger : ScoreKey[ledger[i].doc] = ScoreKey[ledger[j].doc] => i = j
AnswersRecorded ==
  /\ \A a \in answers : Recorded(a)
  /\ \A r \in Requests : req[r].pc = "retry" => Recorded(req[r])

LedgerInv ==
  /\ TypeOK /\ Mutex /\ Rowwise /\ DeletionComplete /\ KeysDistinct
  /\ ScoreBound /\ ScoresDistinct /\ AnswersRecorded

\* What a step that ends, starts or moves a request leaves in req.
LEMMA ReqAfter ==
  ASSUME TypeOK, NEW r \in Requests
  PROVE  /\ End(r) => req'[r].pc = "idle" /\ \A q \in Requests \ {r} : req'[q] = req[q]
         /\ \A x : Start(r, x) => req'[r] = x /\ \A q \in Requests \ {r} : req'[q] = req[q]
         /\ \A pc : GoTo(r, pc) => req'[r].pc = pc /\ \A q \in Requests \ {r} : req'[q] = req[q]
<1>1. "pc" \in DOMAIN req[r]
  BY DEF TypeOK, RequestRecord, Idle
<1>2. Idle.pc = "idle"
  BY DEF Idle
<1> QED
  BY <1>1, <1>2 DEF End, Start, GoTo, TypeOK

\* The steps that change what the invariants speak of; every other step only moves a
\* request or the clock, or changes the audio state or the source of a live row.
LEMMA Changes ==
  ASSUME TypeOK, [Next]_vars
  PROVE  \/ /\ UNCHANGED <<manifest, session, asset, ledger, answers>>
            /\ SongLive' = SongLive
            /\ \A p \in Phrases : phrase'[p].row = phrase[p].row /\ phrase'[p].keyed = phrase[p].keyed
         \/ \E a \in Assets : ReserveAsset(a) \/ UploadAsset(a)
         \/ \E m \in Manifests : PublishManifest(m)
         \/ \E t \in Sessions, m \in Manifests : CreatePracticeSession(t, m)
         \/ \E p \in Phrases : ReservePhrase(p)
         \/ \E r \in Requests : AnswerRetry(r) \/ WriteScore(r) \/ CommitDeletion(r)
<1> DEFINE Quiet ==
  /\ UNCHANGED <<manifest, session, asset, ledger, answers>>
  /\ SongLive' = SongLive
  /\ \A p \in Phrases : phrase'[p].row = phrase[p].row /\ phrase'[p].keyed = phrase[p].keyed
<1>1. ASSUME NEW p \in Phrases, ExpireRawAudio(p) PROVE Quiet
  BY <1>1 DEF ExpireRawAudio, SongLive, TypeOK, PhraseRecord
<1>2. ASSUME NEW r \in Requests, NEW p \in Phrases, UploadPhrase(r, p) PROVE Quiet
  <2>1. CASE phrase' = phrase
    BY <1>2, <2>1 DEF UploadPhrase, SongLive
  <2>2. CASE phrase' # phrase
    <3>1. \E x : phrase' = [phrase EXCEPT ![p].uploadedAt = req[r].at, ![p].audio = x]
      BY <1>2, <2>2 DEF UploadPhrase
    <3>2. \A q \in Phrases : phrase'[q].row = phrase[q].row /\ phrase'[q].keyed = phrase[q].keyed
      BY <3>1 DEF TypeOK, PhraseRecord
    <3> QED
      BY <1>2, <3>2 DEF UploadPhrase, SongLive
  <2> QED
    BY <2>1, <2>2
<1>3. ASSUME NEW r \in Requests, UploadSong(r) PROVE Quiet
  BY <1>3 DEF UploadSong, SongLive
<1>4. ASSUME UNCHANGED <<song, manifest, session, phrase, asset, ledger, answers>> PROVE Quiet
  BY <1>4 DEF SongLive
<1>5. ASSUME Tick \/ UNCHANGED vars PROVE Quiet
  BY <1>4, <1>5 DEF Tick, vars
<1>6. ASSUME NEW r \in Requests,
             \/ PreReadSong(r) \/ EnterService(r) \/ LockSong(r) \/ LockSession(r) \/ Disconnect(r)
             \/ RequestSongDeletion(r) \/ DeletionLocksSong(r)
             \/ DeletionLocksSessions(r) \/ DeletionLocksPhrases(r)
      PROVE  Quiet
  BY <1>4, <1>6 DEF PreReadSong, EnterService, LockSong, LockSession, Disconnect,
     RequestSongDeletion, DeletionLocksSong, DeletionLocksSessions, DeletionLocksPhrases
<1>7. ASSUME NEW r \in Requests, NEW p \in Phrases, PreReadPhrase(r, p) PROVE Quiet
  BY <1>4, <1>7 DEF PreReadPhrase
<1>8. ASSUME NEW r \in Requests, NEW sc \in Scores, NEW m \in Manifests, LookUpKey(r, sc, m) PROVE Quiet
  BY <1>4, <1>8 DEF LookUpKey
<1> HIDE DEF Quiet
<1>9. \/ Quiet
      \/ \E a \in Assets : ReserveAsset(a) \/ UploadAsset(a)
      \/ \E m \in Manifests : PublishManifest(m)
      \/ \E t \in Sessions, m \in Manifests : CreatePracticeSession(t, m)
      \/ \E p \in Phrases : ReservePhrase(p)
      \/ \E r \in Requests : AnswerRetry(r) \/ WriteScore(r) \/ CommitDeletion(r)
  <2>1. CASE \E r \in Requests : AnswerRetry(r) \/ WriteScore(r) \/ CommitDeletion(r)
    BY <2>1
  <2>2. CASE \E a \in Assets : ReserveAsset(a) \/ UploadAsset(a)
    BY <2>2
  <2> QED
    BY StepCases, <1>1, <1>2, <1>3, <1>5, <1>6, <1>7, <1>8, <2>1, <2>2
<1> QED
  BY <1>9 DEF Quiet

\* How a step moves requests: at most one, and towards the locks in their order.
LEMMA Moves ==
  ASSUME TypeOK, [Next]_vars
  PROVE  \/ UNCHANGED req
         \/ \E r \in Requests :
              /\ \A q \in Requests \ {r} : req'[q] = req[q]
              /\ \/ req'[r].pc \in {"idle", "reading", "entered", "keyed", "delete"}
                 \/ (req'[r].pc = "retry" /\ Recorded(req'[r]))
                 \/ SongFree /\ req'[r].pc \in {"songLocked", "delSong"}
                 \/ req[r].pc = "songLocked" /\ req'[r].pc = "sessionLocked"
                 \/ req[r].pc = "delSong" /\ req'[r].pc = "delSessions"
                 \/ /\ req[r].pc = "delSessions" /\ req'[r].pc = "delPhrases"
                    /\ req'[r].rows = {p \in Phrases : phrase[p].row = "live"}
                    /\ UNCHANGED phrase
<1> DEFINE Others(r) == \A q \in Requests \ {r} : req'[q] = req[q]
           Unlocked(r) == req'[r].pc \in {"idle", "reading", "entered", "keyed", "delete"}
<1>1. ASSUME NEW r \in Requests,
             \/ UploadSong(r) \/ AnswerRetry(r) \/ WriteScore(r) \/ CommitDeletion(r) \/ Disconnect(r)
             \/ \E p \in Phrases : UploadPhrase(r, p)
      PROVE  Others(r) /\ Unlocked(r)
  <2>1. End(r)
    BY <1>1 DEF UploadSong, AnswerRetry, WriteScore, CommitDeletion, Disconnect, UploadPhrase
  <2> QED
    BY <2>1, ReqAfter
<1>2. ASSUME NEW r \in Requests,
             PreReadSong(r) \/ RequestSongDeletion(r) \/ \E p \in Phrases : PreReadPhrase(r, p)
      PROVE  Others(r) /\ Unlocked(r)
  <2>1. CASE PreReadSong(r)
    BY <2>1, ReqAfter DEF PreReadSong
  <2>2. CASE RequestSongDeletion(r)
    BY <2>2, ReqAfter DEF RequestSongDeletion
  <2>3. ASSUME NEW p \in Phrases, PreReadPhrase(r, p) PROVE Others(r) /\ Unlocked(r)
    BY <2>3, ReqAfter DEF PreReadPhrase
  <2> QED
    BY <1>2, <2>1, <2>2, <2>3
<1>3. ASSUME NEW r \in Requests, NEW sc \in Scores, NEW m \in Manifests, LookUpKey(r, sc, m)
      PROVE  Others(r) /\ (Unlocked(r) \/ (req'[r].pc = "retry" /\ Recorded(req'[r])))
  <2>1. PICK x : /\ Start(r, x)
                 /\ x.pc = "keyed" \/ (x.pc = "retry" /\ Recorded(x))
    <3>1. CASE Start(r, [pc |-> "keyed", doc |-> sc, manifest |-> m, id |-> 0])
      <4> DEFINE x == [pc |-> "keyed", doc |-> sc, manifest |-> m, id |-> 0]
      <4>1. x.pc = "keyed" /\ Start(r, x)
        BY <3>1
      <4> QED
        BY <4>1
    <3>2. ASSUME NEW i \in Keyed(sc), ledger[i].doc = sc, ledger[i].manifest = m,
                 Start(r, [pc |-> "retry", doc |-> sc, manifest |-> m, id |-> i])
          PROVE  \E x : Start(r, x) /\ x.pc = "retry" /\ Recorded(x)
      <4> DEFINE x == [pc |-> "retry", doc |-> sc, manifest |-> m, id |-> i]
      <4>1. x.pc = "retry" /\ Recorded(x)
        BY <3>2 DEF Keyed, Recorded
      <4> QED
        BY <3>2, <4>1
    <3> QED
      BY <1>3, <3>1, <3>2 DEF LookUpKey
  <2> QED
    BY <2>1, ReqAfter
<1>4. ASSUME NEW r \in Requests, EnterService(r) PROVE Others(r) /\ Unlocked(r)
  <2>1. "pc" \in DOMAIN req[r] /\ req \in [Requests -> RequestRecord]
    BY <1>4, RequestKinds DEF EnterService, UploadRecord, TypeOK
  <2> QED
    BY <1>4, <2>1 DEF EnterService
<1>5. ASSUME NEW r \in Requests, LockSong(r) \/ DeletionLocksSong(r)
      PROVE  Others(r) /\ (Unlocked(r) \/ (SongFree /\ req'[r].pc \in {"songLocked", "delSong"}))
  BY <1>5, ReqAfter DEF LockSong, DeletionLocksSong
<1>6. ASSUME NEW r \in Requests, LockSession(r)
      PROVE  Others(r) /\ (Unlocked(r) \/ (req[r].pc = "songLocked" /\ req'[r].pc = "sessionLocked"))
  BY <1>6, ReqAfter DEF LockSession
<1>7. ASSUME NEW r \in Requests, DeletionLocksSessions(r)
      PROVE  Others(r) /\ req[r].pc = "delSong" /\ req'[r].pc = "delSessions"
  BY <1>7, ReqAfter DEF DeletionLocksSessions
<1>8. ASSUME NEW r \in Requests, DeletionLocksPhrases(r)
      PROVE  /\ Others(r) /\ req[r].pc = "delSessions" /\ req'[r].pc = "delPhrases"
             /\ req'[r].rows = {p \in Phrases : phrase[p].row = "live"}
             /\ UNCHANGED phrase
  <2>1. req[r] \in DeleteRecord /\ req \in [Requests -> RequestRecord]
    BY <1>8, RequestKinds DEF DeletionLocksPhrases, TypeOK
  <2>2. "pc" \in DOMAIN req[r] /\ "rows" \in DOMAIN req[r]
    BY <2>1 DEF DeleteRecord
  <2> QED
    BY <1>8, <2>1, <2>2 DEF DeletionLocksPhrases
<1>9. ASSUME \/ Tick \/ UNCHANGED vars
             \/ \E a \in Assets : ReserveAsset(a) \/ UploadAsset(a)
             \/ \E m \in Manifests : PublishManifest(m)
             \/ \E t \in Sessions, m \in Manifests : CreatePracticeSession(t, m)
             \/ \E p \in Phrases : ReservePhrase(p) \/ ExpireRawAudio(p)
      PROVE  UNCHANGED req
  BY <1>9 DEF Tick, vars, ReserveAsset, UploadAsset, PublishManifest, CreatePracticeSession,
     ReservePhrase, ExpireRawAudio
<1> HIDE DEF Unlocked
<1>10. \/ UNCHANGED req
       \/ \E r \in Requests : Others(r) /\
            \/ Unlocked(r)
            \/ (req'[r].pc = "retry" /\ Recorded(req'[r]))
            \/ SongFree /\ req'[r].pc \in {"songLocked", "delSong"}
            \/ req[r].pc = "songLocked" /\ req'[r].pc = "sessionLocked"
            \/ req[r].pc = "delSong" /\ req'[r].pc = "delSessions"
            \/ /\ req[r].pc = "delSessions" /\ req'[r].pc = "delPhrases"
               /\ req'[r].rows = {p \in Phrases : phrase[p].row = "live"}
               /\ UNCHANGED phrase
  <2> HIDE DEF Others
  <2> QED
    BY StepCases, <1>1, <1>2, <1>3, <1>4, <1>5, <1>6, <1>7, <1>8, <1>9
<1> QED
  BY <1>10 DEF Unlocked

LEMMA MutexStep ==
  ASSUME TypeOK, Mutex, [Next]_vars
  PROVE  Mutex'
<1>1. CASE UNCHANGED req
  BY <1>1 DEF Mutex, HoldsSong
<1>2. ASSUME NEW r \in Requests,
             \A q \in Requests \ {r} : req'[q] = req[q],
             HoldsSong(r)' => HoldsSong(r)
      PROVE  Mutex'
  BY <1>2 DEF Mutex, HoldsSong
<1>3. ASSUME NEW r \in Requests,
             \A q \in Requests \ {r} : req'[q] = req[q], SongFree
      PROVE  Mutex'
  BY <1>3 DEF Mutex, HoldsSong, SongFree
<1> QED
  BY Moves, <1>1, <1>2, <1>3 DEF HoldsSong

\* A request that holds the song waits for no other, and only such a request is waited for.
LEMMA MutexBreaksCycles ==
  ASSUME TypeOK, Mutex
  PROVE  NoWaitCycle
<1>1. ASSUME NEW r \in Requests, NEW q \in Requests, Waits(r, q) PROVE HoldsSong(q)
  BY <1>1 DEF Waits, HoldsSong, HoldsSession, HoldsPhrase
<1>2. ASSUME NEW r \in Requests, NEW q \in Requests, Waits(r, q), HoldsSong(r) PROVE FALSE
  <2>1. r = q
    BY <1>1, <1>2 DEF Mutex
  <2> QED
    BY <1>2, <2>1 DEF Waits, HoldsSong, HoldsSession, HoldsPhrase
<1>3. ASSUME NEW group \in (SUBSET Requests) \ {{}}
      PROVE  \E r \in group : \A q \in group : ~Waits(r, q)
  <2>1. CASE \E r \in group : HoldsSong(r)
    BY <1>2, <2>1
  <2>2. CASE \A r \in group : ~HoldsSong(r)
    BY <1>1, <2>2
  <2> QED
    BY <2>1, <2>2
<1> QED
  BY <1>3 DEF NoWaitCycle

\* For any number of requests, the lock order admits no deadlock among uploads, score
\* writes and song deletions.
THEOREM NoDeadlock == Spec => []NoWaitCycle
<1>1. Init => Mutex
  BY DEF Init, Idle, Mutex, HoldsSong
<1>2. TypeOK /\ Mutex /\ [Next]_vars => Mutex'
  BY MutexStep
<1>3. TypeOK /\ Mutex => NoWaitCycle
  BY MutexBreaksCycles
<1> QED
  BY LedgerTypes, <1>1, <1>2, <1>3, PTL DEF Spec
-----------------------------------------------------------------------------
(* A committed deletion is complete.                                       *)

\* While a deletion holds its last locks, no phrase is reserved.
LEMMA DeletionCompleteStep ==
  ASSUME TypeOK, Rowwise, DeletionComplete, [Next]_vars
  PROVE  DeletionComplete'
<1>1. ASSUME \A p \in Phrases : phrase'[p].row = "live" => phrase[p].row = "live"
      PROVE  DeletionComplete'
  <2> SUFFICES ASSUME NEW r \in Requests, req'[r].pc = "delPhrases",
                      NEW p \in Phrases, phrase'[p].row = "live"
               PROVE  p \in req'[r].rows
    BY DEF DeletionComplete
  <2>1. CASE req'[r] = req[r]
    BY <1>1, <2>1 DEF DeletionComplete
  <2>2. CASE req'[r].rows = {q \in Phrases : phrase[q].row = "live"}
    BY <1>1, <2>2
  <2> QED
    BY Moves, <2>1, <2>2
<1>2. ASSUME NEW p \in Phrases, ReservePhrase(p) PROVE DeletionComplete'
  <2>1. UNCHANGED req /\ SessionFree(SessionOf[p])
    BY <1>2 DEF ReservePhrase
  <2>2. \A r \in Requests : req'[r].pc # "delPhrases"
    BY <2>1 DEF SessionFree, HoldsSession
  <2> QED
    BY <2>2 DEF DeletionComplete
<1>3. ASSUME NEW r \in Requests, CommitDeletion(r)
      PROVE  \A p \in Phrases : phrase'[p].row = "live" => phrase[p].row = "live"
  BY <1>3 DEF CommitDeletion, TypeOK, PhraseRecord
<1>4. CASE UNCHANGED phrase
  BY <1>1, <1>4
<1> QED
  BY Changes, <1>1, <1>2, <1>3, <1>4
     DEF ReserveAsset, UploadAsset, PublishManifest, CreatePracticeSession, AnswerRetry, WriteScore

\* What the commit of a deletion leaves.
LEMMA CommitBuries ==
  ASSUME TypeOK, DeletionComplete, NEW r \in Requests, CommitDeletion(r)
  PROVE  /\ ~SongLive'
         /\ \A m \in Manifests : manifest'[m] # "live"
         /\ \A t \in Sessions : session'[t].row # "live"
         /\ \A p \in Phrases : phrase'[p].row # "live"
         /\ \A p \in Phrases : phrase'[p].keyed => phrase[p].keyed /\ p \notin req[r].rows
         /\ \A a \in Assets : asset'[a] \notin {"PENDING", "STORED"}
         /\ DOMAIN ledger' = DOMAIN ledger
         /\ \A i \in DOMAIN ledger : /\ ledger'[i].row = "tombstoned"
                                    /\ ledger'[i].doc = ledger[i].doc
                                    /\ ledger'[i].manifest = ledger[i].manifest
<1>1. ~SongLive' /\ \A m \in Manifests : manifest'[m] # "live"
  BY DEF CommitDeletion, SongLive, Buried
<1>2. \A t \in Sessions : session'[t].row # "live"
  BY DEF CommitDeletion, Buried, TypeOK
<1>3. \A p \in Phrases : /\ phrase'[p].row = "live" => FALSE
                         /\ phrase'[p].keyed => phrase[p].keyed /\ p \notin req[r].rows
  BY DEF CommitDeletion, DeletionComplete, TypeOK, PhraseRecord
<1>4. \A a \in Assets : asset'[a] \notin {"PENDING", "STORED"}
  BY DEF CommitDeletion
<1>5. /\ DOMAIN ledger' = DOMAIN ledger
      /\ \A i \in DOMAIN ledger : /\ ledger'[i].row = "tombstoned"
                                 /\ ledger'[i].doc = ledger[i].doc
                                 /\ ledger'[i].manifest = ledger[i].manifest
  BY LedgerFacts DEF CommitDeletion, LedgerEntry
<1> QED
  BY <1>1, <1>2, <1>3, <1>4, <1>5

\* What a write adds to the ledger.
LEMMA WriteAppends ==
  ASSUME TypeOK, NEW r \in Requests, WriteScore(r)
  PROVE  LET sc == req[r].doc
             m == req[r].manifest
             n == Len(ledger) + 1
         IN  /\ sc \in Scores /\ m \in Manifests
             /\ \/ UNCHANGED <<ledger, answers>>
                \/ /\ Acceptable(sc, m) /\ Keyed(sc) = {}
                   /\ n \notin DOMAIN ledger /\ DOMAIN ledger' = DOMAIN ledger \cup {n}
                   /\ ledger'[n] = [doc |-> sc, manifest |-> m, row |-> "live"]
                   /\ \A i \in DOMAIN ledger : ledger'[i] = ledger[i]
                   /\ answers' = answers \cup {[doc |-> sc, manifest |-> m, id |-> n]}
<1> DEFINE sc == req[r].doc
           m == req[r].manifest
           n == Len(ledger) + 1
           entry == [doc |-> sc, manifest |-> m, row |-> "live"]
<1>1. sc \in Scores /\ m \in Manifests
  BY RequestKinds DEF WriteScore, WriteRecord
<1>2. entry \in LedgerEntry
  BY <1>1 DEF LedgerEntry, Rows
<1>3. CASE UNCHANGED <<ledger, answers>>
  BY <1>1, <1>3
<1>4. CASE Acceptable(sc, m) /\ Keyed(sc) = {} /\ ledger' = Append(ledger, entry) /\ Answer(sc, m, n)
  <2> HIDE DEF entry
  <2>1. Len(ledger') = n /\ ledger' \in Seq(LedgerEntry)
    BY <1>2, <1>4, LedgerFacts, AppendProperties
  <2>2. ledger'[n] = entry /\ \A i \in 1 .. Len(ledger) : ledger'[i] = ledger[i]
    BY <1>2, <1>4, LedgerFacts, AppendProperties
  <2>3. DOMAIN ledger' = 1 .. n /\ DOMAIN ledger = 1 .. Len(ledger) /\ Len(ledger) \in Nat
    BY <2>1, LedgerFacts
  <2>4. n \notin DOMAIN ledger /\ DOMAIN ledger' = DOMAIN ledger \cup {n}
    BY <2>3
  <2> QED
    BY <1>1, <1>4, <2>2, <2>3, <2>4 DEF Answer, entry
<1> QED
  BY <1>3, <1>4 DEF WriteScore

LEMMA RowwiseStep ==
  ASSUME TypeOK, Rowwise, DeletionComplete, [Next]_vars
  PROVE  Rowwise'
<1> USE DocumentAssumption
<1>1. CASE /\ UNCHANGED <<manifest, session, asset, ledger, answers>>
           /\ SongLive' = SongLive
           /\ \A p \in Phrases : phrase'[p].row = phrase[p].row /\ phrase'[p].keyed = phrase[p].keyed
  BY <1>1 DEF Rowwise, Available
<1>2. ASSUME NEW a \in Assets, ReserveAsset(a) PROVE Rowwise'
  <2>1. UNCHANGED <<manifest, session, phrase, ledger>> /\ SongLive /\ SongLive'
    BY <1>2 DEF ReserveAsset, SongLive
  <2>2. \A m \in Manifests : Available(m) => Available(m)'
    BY <1>2 DEF ReserveAsset, Available, Documents, TypeOK
  <2> QED
    BY <2>1, <2>2 DEF Rowwise
<1>3. ASSUME NEW a \in Assets, UploadAsset(a) PROVE Rowwise'
  <2>1. UNCHANGED <<manifest, session, phrase, ledger>> /\ SongLive' = SongLive
    BY <1>3 DEF UploadAsset, SongLive
  <2>2. \A m \in Manifests : Available(m) => Available(m)'
    BY <1>3 DEF UploadAsset, Available, Documents, TypeOK
  <2>3. \A b \in Assets : asset'[b] \in {"PENDING", "STORED"} => asset[b] \in {"PENDING", "STORED"}
    BY <1>3 DEF UploadAsset, TypeOK
  <2> QED
    BY <2>1, <2>2, <2>3 DEF Rowwise
<1>4. ASSUME NEW m \in Manifests, PublishManifest(m) PROVE Rowwise'
  <2>1. UNCHANGED <<session, phrase, asset, ledger>> /\ SongLive /\ Available(m)
    BY <1>4 DEF PublishManifest
  <2>2. SongLive'
    BY <1>4 DEF PublishManifest, SongLive, GateStates, TypeOK
  <2>3. \A n \in Manifests : Available(n)' = Available(n)
    BY <2>1 DEF Available
  <2>4. \A n \in Manifests : manifest'[n] = "live" => n = m \/ manifest[n] = "live"
    BY <1>4 DEF PublishManifest, TypeOK
  <2> QED
    BY <2>1, <2>2, <2>3, <2>4 DEF Rowwise
<1>5. ASSUME NEW t \in Sessions, NEW m \in Manifests, CreatePracticeSession(t, m) PROVE Rowwise'
  <2>1. UNCHANGED <<manifest, phrase, asset, ledger>> /\ SongLive /\ SongLive'
    BY <1>5 DEF CreatePracticeSession, SongLive
  <2>2. \A u \in Sessions : session[u].row = "live" => session'[u].row = "live"
    BY <1>5 DEF CreatePracticeSession, TypeOK
  <2>3. \A n \in Manifests : Available(n)' = Available(n)
    BY <2>1 DEF Available
  <2> QED
    BY <2>1, <2>2, <2>3 DEF Rowwise
<1>6. ASSUME NEW p \in Phrases, ReservePhrase(p) PROVE Rowwise'
  <2>1. UNCHANGED <<manifest, session, asset, ledger>> /\ SongLive' = SongLive
    BY <1>6 DEF ReservePhrase, SongLive
  <2>2. session[SessionOf[p]].row = "live" /\ phrase'[p].row = "live" /\ phrase'[p].keyed
    BY <1>6 DEF ReservePhrase, TypeOK
  <2>3. \A q \in Phrases \ {p} : phrase'[q] = phrase[q]
    BY <1>6 DEF ReservePhrase, TypeOK
  <2>4. \A n \in Manifests : Available(n)' = Available(n)
    BY <2>1 DEF Available
  <2> QED
    BY <2>1, <2>2, <2>3, <2>4 DEF Rowwise
<1>7. ASSUME NEW r \in Requests, AnswerRetry(r) PROVE Rowwise'
  BY <1>7 DEF AnswerRetry, Rowwise, SongLive, Available
<1>8. ASSUME NEW r \in Requests, WriteScore(r) PROVE Rowwise'
  <2>1. UNCHANGED <<manifest, session, phrase, asset>> /\ SongLive' = SongLive
    BY <1>8 DEF WriteScore, SongLive
  <2>2. \A n \in Manifests : Available(n)' = Available(n)
    BY <2>1 DEF Available
  <2>3. \A i \in DOMAIN ledger' : ledger'[i].row = "live" <=> SongLive
    <3>1. CASE UNCHANGED ledger
      BY <3>1 DEF Rowwise
    <3>2. CASE ~UNCHANGED ledger
      <4>1. Acceptable(req[r].doc, req[r].manifest) /\ req[r].doc \in Scores
        BY <1>8, <3>2, WriteAppends
      <4>2. SongLive
        BY <4>1 DEF Acceptable, Rowwise
      <4> DEFINE n == Len(ledger) + 1
      <4>3. /\ DOMAIN ledger' = DOMAIN ledger \cup {n}
            /\ ledger'[n] = [doc |-> req[r].doc, manifest |-> req[r].manifest, row |-> "live"]
            /\ \A i \in DOMAIN ledger : ledger'[i] = ledger[i]
        BY <1>8, <3>2, WriteAppends, Zenon
      <4> HIDE DEF n
      <4>4. \A i \in DOMAIN ledger : ledger[i].row = "live"
        BY <4>2 DEF Rowwise
      <4>5. \A i \in DOMAIN ledger' : ledger'[i].row = "live"
        BY <4>3, <4>4
      <4> QED
        BY <4>2, <4>5
    <3> QED
      BY <3>1, <3>2
  <2> QED
    BY <2>1, <2>2, <2>3 DEF Rowwise
<1>9. ASSUME NEW r \in Requests, CommitDeletion(r) PROVE Rowwise'
  <2>1. \A p \in Phrases : ~phrase'[p].keyed
    BY <1>9, CommitBuries DEF Rowwise, DeletionComplete, CommitDeletion
  <2> QED
    BY <1>9, <2>1, CommitBuries DEF Rowwise
<1> QED
  BY Changes, <1>1, <1>2, <1>3, <1>4, <1>5, <1>6, <1>7, <1>8, <1>9

\* No two live reservations share an idempotency key.
LEMMA KeysStep ==
  ASSUME TypeOK, DeletionComplete, KeysDistinct, [Next]_vars
  PROVE  KeysDistinct'
<1>1. ASSUME \A p \in Phrases : phrase'[p].keyed => phrase[p].keyed PROVE KeysDistinct'
  BY <1>1 DEF KeysDistinct
<1>2. ASSUME NEW p \in Phrases, ReservePhrase(p) PROVE KeysDistinct'
  <2>1. \A q \in Phrases \ {p} : phrase'[q] = phrase[q]
    BY <1>2 DEF ReservePhrase, TypeOK
  <2>2. \A q \in Phrases : phrase[q].keyed => PhraseKey[q] # PhraseKey[p]
    BY <1>2 DEF ReservePhrase, KeyTaken
  <2> QED
    BY <2>1, <2>2 DEF KeysDistinct
<1>3. CASE UNCHANGED phrase
  BY <1>1, <1>3
<1>4. ASSUME NEW r \in Requests, CommitDeletion(r) PROVE KeysDistinct'
  BY <1>1, <1>4, CommitBuries
<1> QED
  BY Changes, <1>1, <1>2, <1>3, <1>4
     DEF ReserveAsset, UploadAsset, PublishManifest, CreatePracticeSession, AnswerRetry, WriteScore

\* What binds a score to its session, manifest, phrase and evidence: ScoreBound of one entry.
Bound(sc, m) ==
  LET p == PhraseOf[sc]
  IN  /\ session[SessionOf[p]] = [row |-> "live", manifest |-> {m}]
      /\ manifest[m] = "live" /\ Gate[m] = "ACCEPTED"
      /\ Calibration[sc] = Calibration[m] /\ Calibration[sc] = Calibration[p]
      /\ phrase[p].row = "live" /\ phrase[p].keyed
      /\ Available(sc) /\ Available(m)

\* Nothing but a song deletion undoes the binding.
LEMMA BoundStaysBound ==
  ASSUME TypeOK, [Next]_vars, \A r \in Requests : ~CommitDeletion(r),
         NEW sc \in Scores, NEW m \in Manifests, Bound(sc, m)
  PROVE  Bound(sc, m)'
<1> USE DocumentAssumption
<1> DEFINE p == PhraseOf[sc]
           t == SessionOf[p]
<1>1. p \in Phrases /\ t \in Sessions
  OBVIOUS
<1>2. session'[t] = session[t]
  <2>1. ASSUME NEW u \in Sessions, NEW n \in Manifests, CreatePracticeSession(u, n)
        PROVE  session'[t] = session[t]
    <3>1. session[t].row = "live" /\ session[u].row = "absent"
      BY <2>1 DEF CreatePracticeSession, Bound
    <3>2. u # t
      BY <3>1
    <3> HIDE DEF t
    <3> QED
      BY <1>1, <2>1, <3>2 DEF CreatePracticeSession, TypeOK
  <2>2. CASE UNCHANGED session
    BY <2>2
  <2> QED
    BY Changes, <2>1, <2>2
       DEF ReserveAsset, UploadAsset, PublishManifest, ReservePhrase, AnswerRetry, WriteScore
<1>3. manifest'[m] = manifest[m]
  <2>1. ASSUME NEW n \in Manifests, PublishManifest(n) PROVE manifest'[m] = manifest[m]
    BY <2>1 DEF PublishManifest, Bound, TypeOK
  <2>2. CASE UNCHANGED manifest
    BY <2>2
  <2> QED
    BY Changes, <2>1, <2>2
       DEF ReserveAsset, UploadAsset, CreatePracticeSession, ReservePhrase, AnswerRetry, WriteScore
<1>4. phrase'[p].row = phrase[p].row /\ phrase'[p].keyed = phrase[p].keyed
  <2>1. ASSUME NEW q \in Phrases, ReservePhrase(q) PROVE phrase'[p] = phrase[p]
    <3>1. p # q
      BY <2>1, <1>1 DEF ReservePhrase, SlotTaken, Bound
    <3> QED
      BY <2>1, <3>1, <1>1 DEF ReservePhrase, TypeOK
  <2>2. CASE UNCHANGED phrase
    BY <2>2
  <2> HIDE DEF p
  <2> QED
    BY Changes, <1>1, <2>1, <2>2
       DEF ReserveAsset, UploadAsset, PublishManifest, CreatePracticeSession, AnswerRetry, WriteScore
<1>5. \A a \in Assets : asset[a] = "STORED" => asset'[a] = "STORED"
  <2>1. ASSUME NEW b \in Assets, ReserveAsset(b) \/ UploadAsset(b)
        PROVE  \A a \in Assets : asset[a] = "STORED" => asset'[a] = "STORED"
    BY <2>1 DEF ReserveAsset, UploadAsset, TypeOK
  <2>2. CASE UNCHANGED asset
    BY <2>2
  <2> QED
    BY Changes, <2>1, <2>2
       DEF PublishManifest, CreatePracticeSession, ReservePhrase, AnswerRetry, WriteScore
<1>6. \A d \in Documents : Available(d) => Available(d)'
  BY <1>5 DEF Available
<1> QED
  BY <1>2, <1>3, <1>4, <1>6 DEF Bound, Documents

\* A write binds its score.
LEMMA AcceptableBinds ==
  ASSUME TypeOK, Rowwise, NEW sc \in Scores, NEW m \in Manifests, Acceptable(sc, m)
  PROVE  Bound(sc, m)
<1> USE DocumentAssumption
<1> DEFINE p == PhraseOf[sc]
<1>1. p \in Phrases /\ SessionOf[p] \in Sessions
  OBVIOUS
<1>2. phrase[p].row = "live" /\ phrase[p].keyed /\ session[SessionOf[p]].row = "live"
  BY <1>1 DEF Acceptable, Rowwise
<1>3. session[SessionOf[p]] = [row |-> "live", manifest |-> {m}]
  BY <1>1, <1>2 DEF Acceptable, TypeOK
<1>4. manifest[m] = "live" /\ Available(m)
  BY DEF Acceptable, Rowwise
<1> QED
  BY <1>2, <1>3, <1>4 DEF Acceptable, Bound

LEMMA ScoreBoundStep ==
  ASSUME TypeOK, Rowwise, DeletionComplete, ScoreBound, [Next]_vars
  PROVE  ScoreBound'
<1>1. \A i \in DOMAIN ledger : ledger[i].row = "live" => Bound(ledger[i].doc, ledger[i].manifest)
  BY DEF ScoreBound, Bound
<1>2. ASSUME NEW r \in Requests, CommitDeletion(r) PROVE ScoreBound'
  <2>1. \A i \in DOMAIN ledger' : ledger'[i].row # "live"
    BY <1>2, CommitBuries
  <2> QED
    BY <2>1 DEF ScoreBound
<1>3. CASE \A r \in Requests : ~CommitDeletion(r)
  <2> DEFINE StillBound(i) == \E sc \in Scores, m \in Manifests :
               ledger'[i].doc = sc /\ ledger'[i].manifest = m /\ Bound(sc, m)'
  <2>1. ASSUME NEW i \in DOMAIN ledger, ledger'[i] = ledger[i], ledger[i].row = "live"
        PROVE  StillBound(i)
    <3>1. PICK sc \in Scores, m \in Manifests : ledger[i].doc = sc /\ ledger[i].manifest = m
      BY LedgerFacts DEF LedgerEntry
    <3>2. Bound(sc, m)
      BY <1>1, <2>1, <3>1
    <3>3. Bound(sc, m)'
      BY <1>3, <3>2, BoundStaysBound
    <3> QED
      BY <2>1, <3>1, <3>3
  <2>2. ASSUME NEW r \in Requests, WriteScore(r), ~UNCHANGED ledger
        PROVE  StillBound(Len(ledger) + 1)
    <3>1. PICK sc \in Scores, m \in Manifests : req[r].doc = sc /\ req[r].manifest = m
      BY <2>2, WriteAppends
    <3>2. /\ Acceptable(sc, m)
          /\ ledger'[Len(ledger) + 1] = [doc |-> sc, manifest |-> m, row |-> "live"]
      BY <2>2, <3>1, WriteAppends, Zenon
    <3>3. Bound(sc, m)
      BY <3>2, AcceptableBinds
    <3>4. Bound(sc, m)'
      BY <1>3, <3>3, BoundStaysBound
    <3> QED
      BY <3>2, <3>4
  <2>3. ASSUME NEW i \in DOMAIN ledger', ledger'[i].row = "live" PROVE StillBound(i)
    <3>1. CASE UNCHANGED ledger
      BY <2>1, <2>3, <3>1
    <3>2. ASSUME NEW r \in Requests, WriteScore(r), ~UNCHANGED ledger PROVE StillBound(i)
      <4>1. /\ DOMAIN ledger' = DOMAIN ledger \cup {Len(ledger) + 1}
            /\ \A j \in DOMAIN ledger : ledger'[j] = ledger[j]
        BY <3>2, WriteAppends, Zenon
      <4> HIDE DEF StillBound
      <4> QED
        BY <2>1, <2>2, <2>3, <3>2, <4>1
    <3> HIDE DEF StillBound
    <3> QED
      BY Changes, <1>3, <3>1, <3>2
         DEF ReserveAsset, UploadAsset, PublishManifest, CreatePracticeSession, ReservePhrase, AnswerRetry
  <2> QED
    BY <2>3 DEF ScoreBound, Bound
<1> QED
  BY <1>2, <1>3

\* Keys stay unique over the whole ledger, and answers keep naming their record.
LEMMA AnswersStep ==
  ASSUME TypeOK, Rowwise, DeletionComplete, ScoresDistinct, AnswersRecorded, [Next]_vars
  PROVE  ScoresDistinct' /\ AnswersRecorded'
<1> DEFINE Kept == /\ DOMAIN ledger \subseteq DOMAIN ledger'
                   /\ \A i \in DOMAIN ledger : /\ ledger'[i].doc = ledger[i].doc
                                              /\ ledger'[i].manifest = ledger[i].manifest
<1>1. Kept
  <2>1. CASE UNCHANGED ledger
    BY <2>1
  <2>2. ASSUME NEW r \in Requests, WriteScore(r), ~UNCHANGED ledger PROVE Kept
    <3>1. /\ DOMAIN ledger' = DOMAIN ledger \cup {Len(ledger) + 1}
          /\ \A j \in DOMAIN ledger : ledger'[j] = ledger[j]
      BY <2>2, WriteAppends, Zenon
    <3> QED
      BY <3>1
  <2>3. ASSUME NEW r \in Requests, CommitDeletion(r) PROVE Kept
    BY <2>3, CommitBuries
  <2> HIDE DEF Kept
  <2> QED
    BY Changes, <2>1, <2>2, <2>3
       DEF ReserveAsset, UploadAsset, PublishManifest, CreatePracticeSession, ReservePhrase, AnswerRetry
<1>2. ASSUME NEW r \in Requests, req'[r].pc = "retry" PROVE Recorded(req[r])'
  <2>1. /\ req'[r].id \in DOMAIN ledger
        /\ ledger[req'[r].id].doc = req'[r].doc /\ ledger[req'[r].id].manifest = req'[r].manifest
    <3>1. CASE req'[r] = req[r]
      BY <1>2, <3>1 DEF AnswersRecorded, Recorded
    <3>2. CASE Recorded(req'[r])
      BY <3>2 DEF Recorded
    <3> QED
      BY Moves, <1>2, <3>1, <3>2
  <2> QED
    BY <1>1, <2>1 DEF Recorded
<1>3. ASSUME NEW r \in Requests, WriteScore(r), ~UNCHANGED ledger
      PROVE  ScoresDistinct' /\ \A a \in answers' : Recorded(a)'
  <2> DEFINE sc == req[r].doc
             m == req[r].manifest
             n == Len(ledger) + 1
             entry == [doc |-> sc, manifest |-> m, row |-> "live"]
             answer == [doc |-> sc, manifest |-> m, id |-> n]
  <2>1. /\ sc \in Scores /\ Acceptable(sc, m) /\ Keyed(sc) = {}
        /\ n \notin DOMAIN ledger /\ DOMAIN ledger' = DOMAIN ledger \cup {n}
        /\ ledger'[n] = entry
        /\ \A i \in DOMAIN ledger : ledger'[i] = ledger[i]
        /\ answers' = answers \cup {answer}
    BY <1>3, WriteAppends, Zenon
  <2>2. \A i \in DOMAIN ledger : ledger[i].row = "live"
    <3>1. SongLive
      BY <2>1, DocumentAssumption DEF Acceptable, Rowwise
    <3> QED
      BY <3>1 DEF Rowwise
  <2>3. \A i \in DOMAIN ledger : ScoreKey[ledger[i].doc] # ScoreKey[sc]
    BY <2>1, <2>2 DEF Keyed
  <2>4. entry.doc = sc /\ entry.manifest = m /\ answer.id = n /\ answer.doc = sc /\ answer.manifest = m
    OBVIOUS
  <2> HIDE DEF sc, m, n, entry, answer
  <2>5. ScoresDistinct'
    BY <2>1, <2>3, <2>4 DEF ScoresDistinct
  <2>6. \A a \in answers' : Recorded(a)'
    BY <1>1, <2>1, <2>4 DEF AnswersRecorded, Recorded
  <2> QED
    BY <2>5, <2>6
<1>4. ASSUME UNCHANGED ledger PROVE ScoresDistinct'
  BY <1>4 DEF ScoresDistinct
<1>5. ASSUME UNCHANGED answers PROVE \A a \in answers' : Recorded(a)'
  BY <1>1, <1>5 DEF AnswersRecorded, Recorded
<1>6. ASSUME NEW r \in Requests, AnswerRetry(r) PROVE \A a \in answers' : Recorded(a)'
  <2>1. Recorded(req[r]) /\ UNCHANGED ledger
    BY <1>6 DEF AnswerRetry, AnswersRecorded
  <2>2. \A a \in answers' :
          a \in answers \/ (a.id = req[r].id /\ a.doc = req[r].doc /\ a.manifest = req[r].manifest)
    BY <1>6 DEF AnswerRetry, Answer
  <2> QED
    BY <2>1, <2>2 DEF AnswersRecorded, Recorded
<1>7. ASSUME NEW r \in Requests, CommitDeletion(r) PROVE ScoresDistinct' /\ UNCHANGED answers
  <2>1. UNCHANGED answers
    BY <1>7 DEF CommitDeletion
  <2> QED
    BY <1>7, <2>1, CommitBuries DEF ScoresDistinct
<1>8. ASSUME NEW r \in Requests, WriteScore(r), UNCHANGED ledger PROVE UNCHANGED answers
  <2> DEFINE n == Len(ledger) + 1
             Appended == n \notin DOMAIN ledger /\ DOMAIN ledger' = DOMAIN ledger \cup {n}
  <2>1. UNCHANGED <<ledger, answers>> \/ Appended
    BY <1>8, WriteAppends, Zenon
  <2>2. ~Appended
    BY <1>8
  <2> QED
    BY <2>1, <2>2
<1>9. ScoresDistinct' /\ \A a \in answers' : Recorded(a)'
  BY Changes, <1>3, <1>4, <1>5, <1>6, <1>7, <1>8
     DEF ReserveAsset, UploadAsset, PublishManifest, CreatePracticeSession, ReservePhrase, AnswerRetry
<1> QED
  BY <1>2, <1>9 DEF AnswersRecorded
-----------------------------------------------------------------------------
(* The inductive invariant and what it implies.                            *)

LEMMA LedgerInvInit == Init => LedgerInv
<1> SUFFICES ASSUME Init PROVE LedgerInv
  OBVIOUS
<1>1. TypeOK
  BY TypeInit
<1>2. Mutex /\ DeletionComplete /\ AnswersRecorded
  BY DEF Init, Idle, Mutex, HoldsSong, DeletionComplete, AnswersRecorded
<1>3. Rowwise /\ KeysDistinct /\ ScoreBound /\ ScoresDistinct
  BY DocumentAssumption DEF Init, Rowwise, KeysDistinct, ScoreBound, ScoresDistinct, SongLive
<1> QED
  BY <1>1, <1>2, <1>3 DEF LedgerInv

LEMMA LedgerInvStep == LedgerInv /\ [Next]_vars => LedgerInv'
<1> SUFFICES ASSUME LedgerInv, [Next]_vars PROVE LedgerInv'
  OBVIOUS
<1> USE DEF LedgerInv
<1>1. TypeOK'
  BY TypeStep
<1>2. Mutex' /\ Rowwise' /\ DeletionComplete'
  BY MutexStep, RowwiseStep, DeletionCompleteStep
<1>3. KeysDistinct' /\ ScoreBound' /\ ScoresDistinct' /\ AnswersRecorded'
  BY KeysStep, ScoreBoundStep, AnswersStep
<1> QED
  BY <1>1, <1>2, <1>3

THEOREM LedgerInvariant == Spec => []LedgerInv
  BY LedgerInvInit, LedgerInvStep, PTL DEF Spec

\* A committed deletion leaves no live row, key or asset, whatever was under way.
THEOREM DeletionBuriesAll == Spec => []NothingOutlivesDeletion
<1>1. LedgerInv => NothingOutlivesDeletion
  <2> SUFFICES ASSUME LedgerInv, ~SongLive PROVE NothingOutlivesDeletion
    BY DEF NothingOutlivesDeletion, SongLive
  <2>1. \A p \in Phrases : phrase[p].row # "live" /\ ~phrase[p].keyed
    BY DocumentAssumption DEF LedgerInv, Rowwise
  <2> QED
    BY <2>1 DEF LedgerInv, Rowwise, NothingOutlivesDeletion
<1> QED
  BY <1>1, LedgerInvariant, PTL

\* Every live score stays bound to the manifest, session, phrase and evidence it was
\* checked against.
THEOREM ScoresStayBound == Spec => []ScoreBound
  BY LedgerInvariant, PTL DEF LedgerInv

\* All successful answers to one idempotency key name the one record asked for.
THEOREM RetriesAgree == Spec => []RetryReturnsOriginal
<1>1. LedgerInv => RetryReturnsOriginal
  BY DEF LedgerInv, ScoresDistinct, AnswersRecorded, Recorded, RetryReturnsOriginal
<1> QED
  BY <1>1, LedgerInvariant, PTL

\* The key of an expired phrase is not given to another one.
THEOREM RetiredKeysStay == Spec => []RetiredKeyStays
<1>1. LedgerInv => RetiredKeyStays
  BY DEF LedgerInv, Rowwise, KeysDistinct, RetiredKeyStays
<1> QED
  BY <1>1, LedgerInvariant, PTL
=============================================================================
