---------------------------- MODULE PracticeLedger ----------------------------
(***************************************************************************)
(* The control plane's records about one song: manifest publication,       *)
(* practice sessions, phrase reservations and the append-only score        *)
(* ledger, under concurrent requests and a song deletion (service.py).     *)
(*                                                                         *)
(* A request is a transaction.  It is one action when it takes one row     *)
(* lock and ends; the requests that read before they lock (uploads, score  *)
(* writes) or hold a lock while they wait for another one (score writes,   *)
(* song deletion) are processes with a step per lock.  The object store    *)
(* and the deletion tasks are those of RetentionLifecycle.                 *)
(***************************************************************************)
EXTENDS Naturals, Sequences, FiniteSets

CONSTANTS Manifests,   \* manifest documents, by their content digest
          Sessions, Phrases,
          Scores,      \* score documents, by their content digest
          Assets,
          Requests,    \* concurrent requests
          Gate,        \* gate_status of each manifest
          ProducedAt,  \* produced_at of each manifest and score
          Calibration, \* calibration version of each manifest, phrase and score
          Evidence,    \* the assets each manifest and score refers to
          SessionOf,   \* the session each phrase names
          PhraseKey,   \* the idempotency key of each phrase reservation
          Sequence,    \* its sequence number in the session
          PhraseOf,    \* the phrase each score names
          ScoreKey,    \* the Idempotency-Key of each score
          TTL,         \* raw_audio_ttl_seconds, in ticks
          MaxClock     \* bound on the clock

Documents == Manifests \cup Scores
GateStates == {"ACCEPTED", "PRACTICE_ONLY", "REJECTED"}
SongStates == {"PENDING_UPLOAD", "UPLOADED", "DELETED"} \cup GateStates

ASSUME DocumentAssumption ==
  /\ Manifests \cap Scores = {} /\ "source" \notin Phrases
  /\ Gate \in [Manifests -> GateStates]
  /\ ProducedAt \in [Documents -> Nat]
  /\ Evidence \in [Documents -> SUBSET Assets]
  /\ SessionOf \in [Phrases -> Sessions]
  /\ PhraseOf \in [Scores -> Phrases]
  /\ TTL \in Nat /\ MaxClock \in Nat

Source == "source"   \* the song's own upload, beside those of its phrases

VARIABLES
  clock,
  song,     \* the song row: [state, uploadedAt]
  manifest, \* per manifest: "absent", "live" or "tombstoned"
  session,  \* per session: [row, manifest]
  phrase,   \* per phrase: [row, audio, keyed, expired, expiresAt, uploadedAt]
  asset,    \* per asset: its AudioState, or "absent"
  ledger,   \* the score records in the order of insertion: [doc, manifest, row]
  answers,  \* the successful answers to write_score: [doc, manifest, id]
  req       \* per request: its progress and what its session has loaded

vars == <<clock, song, manifest, session, phrase, asset, ledger, answers, req>>

Rows == {"absent", "live", "tombstoned"}
AudioStates == {"PENDING", "STORED", "DELETED"}
\* expired: an expiry request exists, and no second one is ever made
PhraseRecord == [row : Rows, audio : AudioStates, keyed : BOOLEAN, expired : BOOLEAN,
                 expiresAt : Nat, uploadedAt : Nat]
LedgerEntry == [doc : Scores, manifest : Manifests, row : Rows]
-----------------------------------------------------------------------------
(* Requests and their locks.                                               *)

Idle == [pc |-> "idle"]

RequestRecord ==
  {Idle}
  \cup [pc : {"reading", "entered"}, target : {Source} \cup Phrases,
        seen : SongStates \cup AudioStates, at : Nat]
  \cup [pc : {"keyed", "songLocked", "sessionLocked", "retry"}, doc : Scores,
        manifest : Manifests, id : Nat]
  \cup [pc : {"delete", "delSong", "delSessions", "delPhrases"}, rows : SUBSET Phrases]

HoldsSong(r) ==
  req[r].pc \in {"songLocked", "sessionLocked", "delSong", "delSessions", "delPhrases"}

\* Faulty variant of HoldsSession: a score write locks its session before the song.
HoldsSessionFirst(r, t) ==
  \/ req[r].pc \in {"delSessions", "delPhrases"}
  \/ req[r].pc \in {"keyed", "sessionLocked"} /\ SessionOf[PhraseOf[req[r].doc]] = t

HoldsSession(r, t) ==
  \/ req[r].pc \in {"delSessions", "delPhrases"}
  \/ req[r].pc = "sessionLocked" /\ SessionOf[PhraseOf[req[r].doc]] = t
HoldsPhrase(r, p) == req[r].pc = "delPhrases" /\ p \in req[r].rows

SongFree == \A r \in Requests : ~HoldsSong(r)
SessionFree(t) == \A r \in Requests : ~HoldsSession(r, t)
PhraseFree(p) == \A r \in Requests : ~HoldsPhrase(r, p)

SongLive == song.state # "DELETED"

Start(r, record) == req[r].pc = "idle" /\ req' = [req EXCEPT ![r] = record]
GoTo(r, pc) == req' = [req EXCEPT ![r].pc = pc]
End(r) == req' = [req EXCEPT ![r] = Idle]

Init ==
  /\ clock = 0
  /\ song = [state |-> "PENDING_UPLOAD", uploadedAt |-> 0]
  /\ manifest = [m \in Manifests |-> "absent"]
  /\ session = [t \in Sessions |-> [row |-> "absent", manifest |-> {}]]
  /\ phrase = [p \in Phrases |-> [row |-> "absent", audio |-> "PENDING", keyed |-> FALSE,
                                  expired |-> FALSE, expiresAt |-> 0, uploadedAt |-> 0]]
  /\ asset = [a \in Assets |-> "absent"]
  /\ ledger = << >>
  /\ answers = {}
  /\ req = [r \in Requests |-> Idle]

Tick ==
  /\ clock < MaxClock
  /\ clock' = clock + 1
  /\ UNCHANGED <<song, manifest, session, phrase, asset, ledger, answers, req>>

\* the request's connection or process is lost: its transaction rolls back
Disconnect(r) ==
  /\ req[r].pc # "idle"
  /\ End(r)
  /\ UNCHANGED <<clock, song, manifest, session, phrase, asset, ledger, answers>>
-----------------------------------------------------------------------------
(* Uploads.  The route loads the row, streams the body, then the service   *)
(* takes its timestamp and the row lock, and checks the loaded copy.       *)

PreReadSong(r) ==
  /\ SongLive
  /\ Start(r, [pc |-> "reading", target |-> Source, seen |-> song.state, at |-> 0])
  /\ UNCHANGED <<clock, song, manifest, session, phrase, asset, ledger, answers>>

PreReadPhrase(r, p) ==
  /\ phrase[p].row = "live"
  /\ Start(r, [pc |-> "reading", target |-> p, seen |-> phrase[p].audio, at |-> 0])
  /\ UNCHANGED <<clock, song, manifest, session, phrase, asset, ledger, answers>>

EnterService(r) ==
  /\ req[r].pc = "reading"
  /\ req' = [req EXCEPT ![r].pc = "entered", ![r].at = clock]
  /\ UNCHANGED <<clock, song, manifest, session, phrase, asset, ledger, answers>>

\* Faulty variant of UploadSong: the state of another enumeration.
UploadSongAsAudio(r) ==
  /\ req[r].pc = "entered" /\ req[r].target = Source
  /\ SongFree /\ SongLive
  /\ song' = [state |-> "STORED", uploadedAt |-> req[r].at]
  /\ End(r)
  /\ UNCHANGED <<clock, manifest, session, phrase, asset, ledger, answers>>

\* the row is locked, but its state is the session's copy (see RetentionLifecycle);
\* the source object is in the store once any upload of it committed
UploadSong(r) ==
  /\ req[r].pc = "entered" /\ req[r].target = Source
  /\ SongFree
  /\ song' = IF SongLive /\ req[r].seen = "PENDING_UPLOAD"
             THEN [state |-> "UPLOADED", uploadedAt |-> req[r].at]
             ELSE song
  /\ End(r)
  /\ UNCHANGED <<clock, manifest, session, phrase, asset, ledger, answers>>

\* a copy that says STORED is not written back; its object is stored again only
\* if expiry has removed it
UploadPhrase(r, p) ==
  LET copy == req[r].seen
  IN  /\ req[r].pc = "entered" /\ req[r].target = p
      /\ PhraseFree(p)
      /\ \/ /\ phrase[p].row = "live" /\ copy # "DELETED" /\ req[r].at < phrase[p].expiresAt
            /\ phrase' = [phrase EXCEPT ![p].uploadedAt = req[r].at,
                                        ![p].audio = IF copy = "PENDING" THEN "STORED" ELSE @]
            /\ (copy = "STORED" => phrase[p].audio = "DELETED")
         \/ /\ phrase[p].row # "live" \/ copy # "PENDING" \/ req[r].at >= phrase[p].expiresAt
            /\ UNCHANGED phrase
      /\ End(r)
      /\ UNCHANGED <<clock, song, manifest, session, asset, ledger, answers>>
-----------------------------------------------------------------------------
(* Requests that take one lock.  A refused one changes nothing.            *)

ReserveAsset(a) ==
  /\ SongFree /\ SongLive
  /\ asset[a] = "absent"
  /\ asset' = [asset EXCEPT ![a] = "PENDING"]
  /\ UNCHANGED <<clock, song, manifest, session, phrase, ledger, answers, req>>

UploadAsset(a) ==
  /\ asset[a] = "PENDING"
  /\ asset' = [asset EXCEPT ![a] = "STORED"]
  /\ UNCHANGED <<clock, song, manifest, session, phrase, ledger, answers, req>>

Available(d) == \A a \in Evidence[d] : asset[a] = "STORED"

\* a repeated publication finds the live record and changes nothing
PublishManifest(m) ==
  /\ SongFree /\ SongLive
  /\ song.state # "PENDING_UPLOAD"
  /\ ProducedAt[m] >= song.uploadedAt /\ ProducedAt[m] <= clock
  /\ Available(m)
  /\ manifest[m] = "absent"
  /\ manifest' = [manifest EXCEPT ![m] = "live"]
  /\ song' = [song EXCEPT !.state = Gate[m]]
  /\ UNCHANGED <<clock, session, phrase, asset, ledger, answers, req>>

CreatePracticeSession(t, m) ==
  /\ SongFree /\ SongLive
  /\ session[t].row = "absent"
  /\ manifest[m] = "live"
  /\ Gate[m] \in {"ACCEPTED", "PRACTICE_ONLY"}
  /\ session' = [session EXCEPT ![t] = [row |-> "live", manifest |-> {m}]]
  /\ UNCHANGED <<clock, song, manifest, phrase, asset, ledger, answers, req>>

\* the session names one manifest; both give the calibration the phrase must have
CalibrationOf(t) == {Calibration[m] : m \in session[t].manifest}

\* the idempotency key belongs to the tenant for as long as its row keeps it, the
\* sequence number to the session for ever
KeyTaken(p) == \E q \in Phrases : phrase[q].keyed /\ PhraseKey[q] = PhraseKey[p]
SlotTaken(p) ==
  \E q \in Phrases : /\ phrase[q].row # "absent"
                     /\ SessionOf[q] = SessionOf[p] /\ Sequence[q] = Sequence[p]

\* Faulty variant of ReservePhrase: the session is read without its lock.
ReservePhraseUnlocked(p) ==
  LET t == SessionOf[p]
  IN  /\ session[t].row = "live"
      /\ CalibrationOf(t) = {Calibration[p]}
      /\ ~KeyTaken(p) /\ ~SlotTaken(p)
      /\ phrase' = [phrase EXCEPT ![p] = [row |-> "live", audio |-> "PENDING", keyed |-> TRUE,
                                         expired |-> FALSE, expiresAt |-> clock + TTL, uploadedAt |-> 0]]
      /\ UNCHANGED <<clock, song, manifest, session, asset, ledger, answers, req>>

ReservePhrase(p) ==
  LET t == SessionOf[p]
  IN  /\ SessionFree(t)
      /\ session[t].row = "live"
      /\ CalibrationOf(t) = {Calibration[p]}
      /\ ~KeyTaken(p) /\ ~SlotTaken(p)
      /\ phrase' = [phrase EXCEPT ![p] = [row |-> "live", audio |-> "PENDING", keyed |-> TRUE,
                                         expired |-> FALSE, expiresAt |-> clock + TTL, uploadedAt |-> 0]]
      /\ UNCHANGED <<clock, song, manifest, session, asset, ledger, answers, req>>

\* Faulty variant of ExpireRawAudio: the key goes with the audio.
ExpireRawAudioAndKey(p) ==
  /\ PhraseFree(p)
  /\ phrase[p].row = "live" /\ phrase[p].audio # "DELETED" /\ phrase[p].expiresAt <= clock
  /\ ~phrase[p].expired
  /\ phrase' = [phrase EXCEPT ![p].audio = "DELETED", ![p].expired = TRUE, ![p].keyed = FALSE]
  /\ UNCHANGED <<clock, song, manifest, session, asset, ledger, answers, req>>

\* raw-audio expiry keeps the key and the content hash of the phrase
ExpireRawAudio(p) ==
  /\ PhraseFree(p)
  /\ phrase[p].row = "live" /\ phrase[p].audio # "DELETED" /\ phrase[p].expiresAt <= clock
  /\ ~phrase[p].expired
  /\ phrase' = [phrase EXCEPT ![p].audio = "DELETED", ![p].expired = TRUE]
  /\ UNCHANGED <<clock, song, manifest, session, asset, ledger, answers, req>>
-----------------------------------------------------------------------------
(* write_score: an unlocked look-up of the idempotency key, then song,     *)
(* session and phrase locks.                                               *)

Keyed(sc) == {i \in DOMAIN ledger : ledger[i].row = "live" /\ ScoreKey[ledger[i].doc] = ScoreKey[sc]}

Answer(sc, m, i) == answers' = answers \cup {[doc |-> sc, manifest |-> m, id |-> i]}

\* a key in use answers only a repeat of the same document and manifest
LookUpKey(r, sc, m) ==
  /\ \/ /\ Keyed(sc) = {}
        /\ Start(r, [pc |-> "keyed", doc |-> sc, manifest |-> m, id |-> 0])
     \/ \E i \in Keyed(sc) :
          /\ ledger[i].doc = sc /\ ledger[i].manifest = m
          /\ Start(r, [pc |-> "retry", doc |-> sc, manifest |-> m, id |-> i])
  /\ UNCHANGED <<clock, song, manifest, session, phrase, asset, ledger, answers>>

AnswerRetry(r) ==
  /\ req[r].pc = "retry"
  /\ SongFree
  /\ IF SongLive /\ Available(req[r].doc)
     THEN Answer(req[r].doc, req[r].manifest, req[r].id) ELSE UNCHANGED answers
  /\ End(r)
  /\ UNCHANGED <<clock, song, manifest, session, phrase, asset, ledger>>

LockSong(r) ==
  /\ req[r].pc = "keyed"
  /\ SongFree
  /\ IF SongLive THEN GoTo(r, "songLocked") ELSE End(r)
  /\ UNCHANGED <<clock, song, manifest, session, phrase, asset, ledger, answers>>

LockSession(r) ==
  LET t == SessionOf[PhraseOf[req[r].doc]]
  IN  /\ req[r].pc = "songLocked"
      /\ SessionFree(t)
      /\ IF session[t].row = "live" THEN GoTo(r, "sessionLocked") ELSE End(r)
      /\ UNCHANGED <<clock, song, manifest, session, phrase, asset, ledger, answers>>

\* Faulty variant of Acceptable: the manifest need not be the session's.
AcceptableForAnySession(sc, m) ==
  LET p == PhraseOf[sc]
  IN  /\ phrase[p].row = "live" /\ phrase[p].audio = "STORED"
      /\ Calibration[sc] = Calibration[p]
      /\ ProducedAt[sc] >= phrase[p].uploadedAt /\ ProducedAt[sc] <= clock
      /\ manifest[m] = "live" /\ Gate[m] = "ACCEPTED"
      /\ Calibration[sc] = Calibration[m]
      /\ ProducedAt[sc] >= ProducedAt[m]
      /\ Available(sc)

\* every check write_score makes once it holds the three locks
Acceptable(sc, m) ==
  LET p == PhraseOf[sc]
  IN  /\ phrase[p].row = "live" /\ phrase[p].audio = "STORED"
      /\ Calibration[sc] = Calibration[p]
      /\ ProducedAt[sc] >= phrase[p].uploadedAt /\ ProducedAt[sc] <= clock
      /\ session[SessionOf[p]].manifest = {m}
      /\ manifest[m] = "live" /\ Gate[m] = "ACCEPTED"
      /\ Calibration[sc] = Calibration[m]
      /\ ProducedAt[sc] >= ProducedAt[m]
      /\ Available(sc)

\* Faulty variant of WriteScore: the look-up alone guards the key.
WriteScoreUnguarded(r) ==
  LET sc == req[r].doc
      m == req[r].manifest
  IN  /\ req[r].pc = "sessionLocked"
      /\ PhraseFree(PhraseOf[sc])
      /\ Acceptable(sc, m)
      /\ ledger' = Append(ledger, [doc |-> sc, manifest |-> m, row |-> "live"])
      /\ Answer(sc, m, Len(ledger) + 1)
      /\ End(r)
      /\ UNCHANGED <<clock, song, manifest, session, phrase, asset>>

\* the unique constraint on the key decides between two writers that both found
\* it unused; the loser's transaction rolls back
WriteScore(r) ==
  LET sc == req[r].doc
      m == req[r].manifest
  IN  /\ req[r].pc = "sessionLocked"
      /\ PhraseFree(PhraseOf[sc])
      /\ IF Acceptable(sc, m) /\ Keyed(sc) = {}
         THEN /\ ledger' = Append(ledger, [doc |-> sc, manifest |-> m, row |-> "live"])
              /\ Answer(sc, m, Len(ledger) + 1)
         ELSE UNCHANGED <<ledger, answers>>
      /\ End(r)
      /\ UNCHANGED <<clock, song, manifest, session, phrase, asset>>
-----------------------------------------------------------------------------
(* request_song_deletion: song, sessions, phrases, then assets and scores. *)

RequestSongDeletion(r) ==
  /\ SongLive
  /\ Start(r, [pc |-> "delete", rows |-> {}])
  /\ UNCHANGED <<clock, song, manifest, session, phrase, asset, ledger, answers>>

\* a second request finds the first one's once it gets the lock
DeletionLocksSong(r) ==
  /\ req[r].pc = "delete"
  /\ SongFree
  /\ IF SongLive THEN GoTo(r, "delSong") ELSE End(r)
  /\ UNCHANGED <<clock, song, manifest, session, phrase, asset, ledger, answers>>

DeletionLocksSessions(r) ==
  /\ req[r].pc = "delSong"
  /\ \A t \in Sessions : SessionFree(t)
  /\ GoTo(r, "delSessions")
  /\ UNCHANGED <<clock, song, manifest, session, phrase, asset, ledger, answers>>

DeletionLocksPhrases(r) ==
  /\ req[r].pc = "delSessions"
  /\ req' = [req EXCEPT ![r].pc = "delPhrases",
                        ![r].rows = {p \in Phrases : phrase[p].row = "live"}]
  /\ UNCHANGED <<clock, song, manifest, session, phrase, asset, ledger, answers>>

Buried(row) == IF row = "live" THEN "tombstoned" ELSE row

CommitDeletion(r) ==
  /\ req[r].pc = "delPhrases"
  /\ song' = [state |-> "DELETED", uploadedAt |-> 0]
  /\ manifest' = [m \in Manifests |-> Buried(manifest[m])]
  /\ session' = [t \in Sessions |-> [session[t] EXCEPT !.row = Buried(@)]]
  /\ phrase' = [p \in Phrases |->
                  IF p \in req[r].rows
                  THEN [phrase[p] EXCEPT !.row = "tombstoned", !.audio = "DELETED", !.keyed = FALSE]
                  ELSE phrase[p]]
  /\ asset' = [a \in Assets |-> IF asset[a] = "absent" THEN "absent" ELSE "DELETED"]
  /\ ledger' = [i \in DOMAIN ledger |-> [ledger[i] EXCEPT !.row = "tombstoned"]]
  /\ End(r)
  /\ UNCHANGED <<clock, answers>>
-----------------------------------------------------------------------------
Upload(r) == EnterService(r) \/ UploadSong(r) \/ \E p \in Phrases : UploadPhrase(r, p)

Write(r) == AnswerRetry(r) \/ LockSong(r) \/ LockSession(r) \/ WriteScore(r)

Delete(r) ==
  \/ DeletionLocksSong(r) \/ DeletionLocksSessions(r)
  \/ DeletionLocksPhrases(r) \/ CommitDeletion(r)

Arrive(r) ==
  \/ PreReadSong(r)
  \/ \E p \in Phrases : PreReadPhrase(r, p)
  \/ \E sc \in Scores, m \in Manifests : LookUpKey(r, sc, m)
  \/ RequestSongDeletion(r)

Next ==
  \/ Tick
  \/ \E a \in Assets : ReserveAsset(a) \/ UploadAsset(a)
  \/ \E m \in Manifests : PublishManifest(m)
  \/ \E t \in Sessions, m \in Manifests : CreatePracticeSession(t, m)
  \/ \E p \in Phrases : ReservePhrase(p) \/ ExpireRawAudio(p)
  \/ \E r \in Requests : Arrive(r) \/ Upload(r) \/ Write(r) \/ Delete(r) \/ Disconnect(r)

Spec == Init /\ [][Next]_vars
-----------------------------------------------------------------------------
TypeOK ==
  /\ clock \in 0 .. MaxClock
  /\ song \in [state : SongStates, uploadedAt : Nat]
  /\ manifest \in [Manifests -> Rows]
  /\ session \in [Sessions -> [row : Rows, manifest : SUBSET Manifests]]
  /\ phrase \in [Phrases -> PhraseRecord]
  /\ asset \in [Assets -> {"absent"} \cup AudioStates]
  /\ ledger \in Seq(LedgerEntry)
  /\ answers \subseteq [doc : Scores, manifest : Manifests, id : Nat]
  /\ req \in [Requests -> RequestRecord]

\* A committed song deletion leaves nothing of the song live, although phrases are
\* reserved under the session's lock and scores are written while it runs
\* (service.py request_song_deletion; ADR 0004 line 17).
NothingOutlivesDeletion ==
  song.state = "DELETED" =>
    /\ \A m \in Manifests : manifest[m] # "live"
    /\ \A t \in Sessions : session[t].row # "live"
    /\ \A p \in Phrases : phrase[p].row # "live" /\ ~phrase[p].keyed
    /\ \A a \in Assets : asset[a] \notin {"PENDING", "STORED"}
    /\ \A i \in DOMAIN ledger : ledger[i].row # "live"

\* A live score rests on the exact manifest its session names, which is accepted,
\* calibrated alike and still there, on a live phrase and on stored evidence, whatever
\* has been published, expired or uploaded since (ADR 0004 lines 11 and 15).
ScoreBound ==
  \A i \in DOMAIN ledger : ledger[i].row = "live" =>
    LET sc == ledger[i].doc
        m == ledger[i].manifest
        p == PhraseOf[sc]
    IN  /\ session[SessionOf[p]] = [row |-> "live", manifest |-> {m}]
        /\ manifest[m] = "live" /\ Gate[m] = "ACCEPTED"
        /\ Calibration[sc] = Calibration[m] /\ Calibration[sc] = Calibration[p]
        /\ phrase[p].row = "live" /\ phrase[p].keyed
        /\ Available(sc) /\ Available(m)

\* "Idempotency retries return the original record only when both content and
\* reference version match" (ADR 0004 line 11): all successful answers to one key
\* name one record, and it is the one that was asked for.
RetryReturnsOriginal ==
  \A a, b \in answers : ScoreKey[a.doc] = ScoreKey[b.doc] =>
    /\ a.id = b.id
    /\ ledger[a.id].doc = a.doc /\ ledger[a.id].manifest = a.manifest

\* "A retired upload key cannot be reused" (ADR 0004 line 15): expiry does not free
\* the idempotency key of a phrase reservation.
RetiredKeyStays ==
  \A p, q \in Phrases : (p # q /\ PhraseKey[p] = PhraseKey[q]) =>
    ~(phrase[p].row = "live" /\ phrase[q].row = "live")

\* No set of requests waits in a circle for each other's row locks (ADR 0004 line
\* 17 gives the lock order).
Waits(r, q) ==
  \/ HoldsSong(q) /\ \/ req[r].pc \in {"keyed", "retry", "delete"}
                     \/ req[r].pc = "entered" /\ req[r].target = Source
  \/ req[r].pc = "songLocked" /\ HoldsSession(q, SessionOf[PhraseOf[req[r].doc]])
  \/ req[r].pc = "delSong" /\ \E t \in Sessions : HoldsSession(q, t)
  \/ req[r].pc = "sessionLocked" /\ HoldsPhrase(q, PhraseOf[req[r].doc])
  \/ req[r].pc = "entered" /\ HoldsPhrase(q, req[r].target)

NoWaitCycle ==
  \A group \in (SUBSET Requests) \ {{}} : \E r \in group : \A q \in group : ~Waits(r, q)
-----------------------------------------------------------------------------
\* service.py line 137: once a manifest is published, the "song source can no
\* longer be replaced".
PublishedStaysPublished ==
  (\E m \in Manifests : manifest[m] = "live") => song.state \in GateStates
=============================================================================
