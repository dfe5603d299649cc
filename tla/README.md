# Verification of music_ai

TLA+ models of the music_ai monorepo, the TLC configurations that check them on small instances, and TLAPS proofs of
their main properties for every instance. Paths below are relative to the repository root; `service.py`, `api.py`,
`storage.py`, `maintenance.py` and `models.py` are those of
`services/control-plane/src/music_ai_control_plane/`.

Contents: [inventory](#inventory) · [plan](#plan) · [how the modules correspond to the code](#modules) ·
[runs](#runs-bounds-and-what-they-show) · [fairness](#fairness) · [findings](#where-code-and-documents-disagree) ·
[proofs](#what-is-proved) · [what is only model-checked](#what-is-only-model-checked) ·
[what is not modelled](#what-is-not-modelled)

## Inventory

music_ai lets a singer practise a song they own. The web client records a phrase, the scoring service aligns and scores
it against a reference that the ingest worker derived from the song, the coach turns a score into a short practice
plan, and the control plane keeps the songs, recordings and scores of each tenant and erases them on time. A Rust
companion converts the user's own encrypted files on their machine.

| Component | State it keeps | Operations | Talks to | Hard behaviours | Correct when |
| --- | --- | --- | --- | --- | --- |
| Content lifecycle (`service.py`, `maintenance.py`, `api.py`) | object keys on song, asset and phrase rows; deletion requests; deletion tasks with attempts and `next_attempt_at` | create/reserve, upload content, `request_song_deletion`, `expire_raw_audio`, `process_deletions` | database rows with locks, object store | uploads race deletion and expiry; several maintenance workers share one queue; a pass dies between the store and its commit; delete calls fail and back off; rows cached in the session | no object without an owner or an open task; rows purged only after erasure; verdicts agree with tasks; settled stays settled; every request gets a verdict |
| Object store (`storage.py`) | files below one root | put (temporary file, hard link), delete, exists | the file system | crash between temporary file and link; two writers of one key | an object is complete or absent |
| Song catalogue (`service.py`, `models.py`) | song, asset, manifest and session rows | create song, publish manifest, create session | content lifecycle, score ledger | uniqueness races; publication while the source is uploaded again | a session's manifest never changes; a published song stays published |
| Score ledger (`service.py`) | phrase reservations with idempotency keys; append-only score records | reserve phrase, upload phrase, write score, coach from score | catalogue, lifecycle | two writers with one key; look-up before the locks; a deletion that takes its locks one by one | one record per key; a score stays bound to its manifest and evidence; no deadlock; nothing outlives the deletion |
| Authentication and schemas | none (credential digests) | authenticate, validate | every route | none beyond one request | tenant comes from the credential |
| Scoring core (`packages/scoring-core`) | none | check inputs, find timing runs, judge regions, aggregate | scoring service, web client's local analysis | frames outside the region count for its timing; every boundary is a policy value; abstention | contaminated frames do not count; a region is judged on its own; a late tone is late and not missed; every score satisfies its contract |
| Scoring service (`services/scoring`) | archived artifacts | admit a job, calibrate its transport, extract features, score, publish evidence then score | control plane over HTTP | reports that contradict each other; a seek or drift inside the phrase; lost responses, late requests and repeated runs | the phrase lies where it was played, within the policy's error; identical runs converge on one score |
| Ingest worker (`services/ingest-worker`) | work directory | ingest a song, gate the reference, publish assets and manifest | control plane over HTTP | a gate outcome the manifest contract refuses after the artifacts were published; lost responses; restart half way | the manifest is one the contract accepts, and an accepted song can be scored; identical runs converge on one manifest |
| Coach (`services/coach`) | none | choose corrections, ask the provider, validate its draft, fall back, make the plan | provider gateway, control plane | partial and malformed answers; restart with another provider or policy between two plans of a score | a plan is always given, stays within the score's facts, is wholly the provider's or wholly the rules'; an action's identifier is its content |
| Web practice workbench (`apps/web/src/components/PracticeWorkbench.tsx`, `lib/capture.ts`) | session state, capture, transport timer, coach controller | select file, calibrate, start, stop, demo, unmount | microphone, audio worklet, coach route | every handler awaits while others run | no capture without an owner; a late answer never overwrites a newer session |
| Web microphone check (`lib/microphoneCheck.ts`) | stream, audio context | check, cancel | browser permission | timeout racing a late stream | every stream is stopped |
| Web coach route (`app/api/coach/route.ts`) | rate-limit window per key | post | coach service | key cap and eviction | a client cannot exceed its window; the map stays bounded |
| MGG helper (`companions/mgg-helper`) | temporary output file | extract pages, decrypt, write atomically | file system, HTTP | no-clobber against concurrent writers; truncated pages | output is complete or absent, never replaced |
| Model runtime (`packages/model-runtime`) | none | authorize a model file | registry | the file is written while it is read in chunks | at the moment of authorization the file is the registered one |
| Contracts, rendering, migrations, deployment | none | – | – | none | – |

Interactions: routes of `api.py` build one `ControlPlaneService` per request on one database session, and a transaction
is what the service commits. Maintenance runs the same service in a loop (`maintenance.py`) and on demand
(`POST /internal/v1/maintenance/expire`, `api.py`), so several workers may run at once. Database and object store
share no transaction: an upload puts the object and then commits; a maintenance pass deletes objects and then commits.
Row locks are PostgreSQL's (`FOR UPDATE`, `SKIP LOCKED`, READ COMMITTED).

The workers reach the control plane only over HTTP: a run reserves, uploads and then posts its record in separate calls,
and any of them may be lost or executed after the run was given up. The coach is called by the control plane inside one
route, and itself calls a provider that may answer anything.

`PROJECT.json` lists the hazards of this code at their lines, with the properties that cover them, or a note that says
why none does.

## Plan

The order is by weight: what loses or leaks user content first, then what corrupts scores, then the client, then pure
algorithms.

1. **Done.** `RetentionLifecycle`, its abstract promise `ContentErasure`, instances `MCRetention`, proofs
   `RetentionLifecycle_proofs`.
2. **Done.** `PracticeLedger`, instance `MCLedger`, proofs `PracticeLedger_proofs`.
3. **Done.** `PracticeWorkbench`, instance `MCWorkbench`, proofs `PracticeWorkbench_proofs`.
4. **Done.** From a song to a score: `Statistics`, `ReferenceGate` (ingest), `TransportCalibration` (scoring service),
   `PhraseScoring` (scoring core), composed by `PhrasePipeline`; instance `MCPhrase`, proofs `Statistics_proofs`,
   `PhraseScoring_proofs` and `PhrasePipeline_proofs`.
5. **Done.** `Publication`: both publishers, the model authorizer and the part of the control plane they call; instance
   `MCPublication`, proofs `Publication_proofs`.
6. **Done.** `CoachPlan`, instance `MCCoach`, proofs `CoachPlan_proofs`.

Left, in this order:

- reused phrase identifiers: `reserve_phrase` takes the client's `phrase_id`, and `expire_raw_audio` (`service.py` 785)
  skips a phrase for which a deletion request exists, also one left over from a purged phrase of the same identifier. A
  bounded reuse in `RetentionLifecycle`, with `ExpiryReachesPhrase` as the question;
- the `create_song` race of two songs with one source hash;
- `MicrophoneCheck`, which refines what the workbench calls a check into permission, timeout, abort and a stream that
  arrives late;
- `ObjectFiles` and `AtomicOutput`: temporary file and link, with a crash at each step, showing that the object store of
  `RetentionLifecycle` (put and delete are atomic) is what `storage.py` implements;
- `CoachRoute` (rate window, key cap, eviction) and `OggPages`.

## Modules

### RetentionLifecycle – who owns each stored object

One tenant's content. Every object key is minted from the identifier of the row that names it (`service.py` 120, 207,
408), so a key *is* its row. Identifiers are taken as fresh, hence `absent -> live -> tombstoned -> purged` is all a row
can do. For songs and assets the code makes them so (`uuid4`); a phrase's identifier is chosen by the client, and one
reused after its song was purged is outside the model (see the plan).

| TLA+ | Code |
| --- | --- |
| `row`, `state`, `named` | the row exists and `deleted_at`; `AudioState` / `SongState`; `object_key IS NOT NULL` |
| `task`, `taskOf`, `attempts`, `due` | `DeletionTask` of `models.py`: status, `request_id`, attempts, `next_attempt_at` |
| `request` | `DeletionRequest.status` per song or phrase |
| `up`, `wk` | what a running upload or maintenance pass holds: locks and uncommitted results |
| `PreRead`, `EnterService`, `LockRow`, `PutObject`, `CommitUpload`, `EndUpload` | the `PUT .../content` routes: load the row for its media type, stream the body, take the timestamp, `SELECT ... FOR UPDATE`, `put`, commit; refusal, early return, disconnect or crash |
| `RequestSongDeletion` | `request_song_deletion` |
| `ExpireRawAudio` | `expire_raw_audio`, one transaction |
| `ClaimTasks`, `DeleteObject`, `DeleteFails`, `Reconcile`, `CommitPass`, `CrashPass` | `process_deletions`: claim the due tasks, call the store for each, decide on every pending request, purge, commit; or die before the commit |

Choices a reader should know:

- *The session's copy of a row.* The routes load a row, await the body, and then the service locks the same row in the
  same session. SQLAlchemy does not overwrite the attributes of an object the session already holds unless the query
  says `populate_existing`, which `service.py` never does. The WHERE clause (`deleted_at IS NULL`) is evaluated on the
  locked row, the Python checks on the copy (`up[h].seen`, `up[h].seenNamed`, `req[r].seen` in PracticeLedger).
- *Transactions.* One that touches only the database is one action, guarded by the locks it waits for. The song deletion
  takes its row locks one after the other, but no one else holds one of them while waiting for another here
  (PracticeLedger models the waiting). `Tracked` names the keys for which the code as it stands keeps the promise: all
  but phrases, whose uploads can be stale (finding 1).
- `request_song_deletion` also has a branch for songs without an object key. `create_song` always sets the key in the
  transaction that inserts the row, so the branch is unreachable and the model has none.
- The object store's `delete` of a missing key succeeds (`unlink(missing_ok=True)`), a `put` of content that is already
  there succeeds and changes nothing, and its `exists` is the test an upload makes before it returns early.
- The queue is shared by all workers; `SKIP LOCKED` is `~Claimed` / `~Held` / `~Locked`. A worker's reads of other
  workers' tasks see what is committed.

### ContentErasure – the promise

The abstract specification: content is unborn, live, retired, then erased or stranded; it is stored only while live,
removed only once retired, and settled as erased only when it is gone for good. `RetentionLifecycle` implements it under
the mapping `lifeOf` (`ErasurePromise == Abstract!Spec`); a crash of a pass after the store call is `Remove` without
`Settle`, a failed pass a stutter.

### PracticeLedger – who may write what about a song

One song, its manifests, sessions, phrases, assets and the append-only ledger of scores.

| TLA+ | Code |
| --- | --- |
| `song`, `manifest`, `session`, `phrase`, `asset` | the rows; `phrase[p].keyed` is `idempotency_key IS NOT NULL`, `expired` that a deletion request for the phrase exists |
| `ledger` | score records in insertion order, with their reference manifest |
| `answers` | the successful answers clients have received (history) |
| `req` | each request's progress: the copies it loaded, the locks it holds |
| `PreReadSong/Phrase`, `EnterService`, `UploadSong`, `UploadPhrase` | the content routes, as above |
| `PublishManifest`, `CreatePracticeSession`, `ReserveAsset`, `ReservePhrase`, `ExpireRawAudio` | the functions of the same name |
| `LookUpKey`, `AnswerRetry`, `LockSong`, `LockSession`, `WriteScore` | `write_score`: unlocked look-up of the key, then the song, session and phrase locks, all checks, insert; the unique constraint at commit |
| `RequestSongDeletion`, `DeletionLocksSong/Sessions/Phrases`, `CommitDeletion` | `request_song_deletion`, a step per group of locks |

Choices:

- Documents are identified by their digests; validation that only refuses (schema, media type, hash, byte length,
  `captured_at`) is abstracted to the documents that pass it. Timestamps are ticks of one clock: `produced_at` may
  neither precede the upload nor lie in the future; the five minutes of tolerated skew are below a tick.
- Expiry is one action per phrase: the pass commits them together, and every property here is about one phrase.
- The phrase locks of a deletion are taken together, since a request that holds a phrase lock holds no lock the deletion
  still wants.
- Physical purge (RetentionLifecycle) is not repeated: a tombstoned row is invisible to every request.

### PracticeWorkbench – sessions in the browser

The recording page of the web client: `PracticeWorkbench.tsx` with what it uses of `capture.ts` and `coachClient.ts`
(`apps/web/src`). JavaScript runs a handler up to its next await, so an action is the code between two awaits. Each
asynchronous call in progress is a *run* `r`: its `pc` names the await it is suspended in, and `take` and `song` are the
locals and closure values it will still use.

| TLA+ | Code |
| --- | --- |
| `ui`, `recordingRef`, `mounted` | `sessionState`, and the two references of the same names |
| `song`, `demo`, `rights`, `wave` | `song` (numbered by its load), `song.isDemo`, `rightsAccepted`, `waveform.current` (the song it was made for) |
| `mic`, `captureRef` | the streams of the `MicrophoneCapture` objects, `capture.current` |
| `timers`, `timerRef` | the intervals that run, `transportTimer.current` |
| `coachRef`, `checkRef` | `coachAbort.current`, `microphoneCheckAbort.current`: the run whose controller it is |
| `shown`, `history` | the song that the analysis on display is about; the practice history |
| `LoadSong`, `PickMgg`, `AcceptMgg`, `RefuseMgg` | `loadDemo` and `onFileSelected`; an MGG file is classified behind an await |
| `StartUnchecked`, `OpenDialog`, `RunCheck`, `CheckEnds`, `Confirm` | `requestStartSession`, `runMicrophoneCheck`, `confirmMicrophoneAndStart` |
| `StartSession`, `GrantStream`, `CaptureStarted`, `Anchored`, `StartFails`, `StartFailed`, `Discarded` | `startSession`, await by await, with its catch |
| `StopSession`, `TakeCaptured`, `TakeAnalyzed`, `StopFails` | `stopSession`, likewise; the button and the end of the selection both call it |
| `RunDemo`, `CoachAnswers` | `runDemoAnalysis`, the end of `completeAnalysis` (and `finally` of `stopSession`) |
| `Unmount` | the cleanup of the effects |

Choices:

- React applies the state updates and effects of one handler before the next one runs. (A handler that starts between a
  `setState` and its render is not modelled.)
- `MicrophoneCapture.stop` stops the tracks before its first await, so closing is part of the step that calls it.
- Aborting a coach request means that its answer is dropped when it arrives; when it arrives makes no difference.
- A waveform is identified by its song. It is created some time after the song (`WaveReady`) and destroyed with it.
  `requestStartSession` cannot run without it.
- Playback position, selection, loop, correction playback and settings are left out: they change what is analysed, not
  which session runs. So is the history view, which unmounts the waveform's element.
- `disturbed` is a history variable: a song has arrived while a session was busy. The page locks the source then, but a
  classification that began before still lands (finding 4). Properties that this breaks are stated for executions in
  which it has not happened; `DialogAwaitsCheck`, `VerdictsAreCurrent`, `AnswersMatchDisplay` and `AnalysisEnds` need no such
  condition.
- A microphone check ends in a verdict, or without one: when it was abandoned, and when the browser raises an `AbortError`
  of its own, which the code takes for a cancel (finding 5). So nothing is claimed of a dialog that shows `checking`
  except that a current check is shown so.

### PhrasePipeline – from a song to a score

One song and one phrase of it. `PhrasePipeline` is the control flow of both workers (`services/ingest-worker/.../pipeline.py`,
`services/scoring/.../pipeline.py`); what they compute is in the modules it extends, as operators without state.

| TLA+ | Code |
| --- | --- |
| `Ingest`, `ReferenceGate!Gate`, `ManifestOf`, `ValidManifest` | `IngestPipeline.run`, `_gate`, the manifest it builds, the validators of `SongManifestV1` |
| `Import` | a manifest of notes or clean stems, which this worker does not make |
| `Submit` | a `ScoringJob` with its validators |
| `Admit`, `Calibrate`, `ExtractFeatures`, `Score` | the steps of `ScoringPipeline.run`, each with the error codes it can end in |
| `TransportCalibration!CalibratePhrase` | `calibrate_phrase`: one refusal per check, in the order of the checks |
| `PhraseScoring!ScorePhrase` | `score_phrase`; `TimingFrames` is `_timing_frames`, `Judged` the body of its loop over regions, `Verdict` what follows the loop |
| `Statistics` | `round` (ties to even), `ceil`, `statistics.median`, sums and columns |

Choices:

- *Scales.* Pitch is a position on a logarithmic scale, so that cents are differences; confidences and coverages are
  percentages; a median is kept doubled and a ratio as a pair, so that every comparison is one of integers and exact. Where
  the code compares floats the model compares the numbers they approximate.
- Values that no decision reads are left out: the metrics' values (their coverages are kept, since the contract bounds
  them), severities and confidences of corrections. Identifiers and digests are what they are derived from.
- What the code does in a loop over a sequence is a recursive function or a comprehension: `Only` keeps the elements that
  are in a set, `Ascending` gives the k-th smallest value by counting those below it, and a sum is the last of the partial
  sums. Hence they can be reasoned about; `RECURSIVE` operators could not.
- The answers of the separation, F0 and leakage models, the energy of frames and the decoding of audio are inputs of a job
  (`approved`, `authorized` and `intact` stand for the checks before them).
- A job carries the `history` its transport reports were made from: where playback started, its drift and at most one
  seek. No code sees it; `AlignmentErrorIsBounded` compares the calibration with it.
- `Ingest` can fail with `ingest.invalid_manifest` in the model as in the code; `AcceptedSongIsScorable` says that it never
  does.

### Publication – how runs become records

| TLA+ | Code |
| --- | --- |
| `Begin`, `ReadChunk`, `Authorize`, `Overwrite` | `ModelAuthorizer.authorize`: `stat`, the digest chunk by chunk, `stat` again – and somebody else who writes the file |
| `SendReservation`, `SendContent`, `ArtifactPublished` | `publish_artifact` of the ingest publisher, `_archive` of the scoring publisher |
| `SendRecord`, `Acknowledged`, `RunRefused` | `publish_manifest`, `publish`, and their checks of the response |
| `GiveUp` | a timeout, or the worker's process dies: the request is lost, or becomes a late one |
| `ReserveAsset`, `UploadAsset`, `UploadCrashes`, `PublishManifest`, `LookUpKey`, `WriteScore` | the functions of `service.py`, a transaction each; `write_score` looks up its key before it takes locks |
| `DeleteSong`, `ExpireAudio` | what the control plane may do to the song meanwhile |

Choices: several workers run the *same* job, as after a redelivery, and its artifacts are a function of the job
(`docs/adr/0005`); an artifact is its content, a manifest the identifiers of its assets. A request in a slot of `Late`
has no sender any more and may be executed at any time. One song; the lock order and the races of `service.py` with other
writers are PracticeLedger's subject. The registry entry is constant for a binding, so the checks on it (`approved`,
licence, expected digest) are not repeated here.

### CoachPlan – from a score's facts to exercises

| TLA+ | Code (`services/coach`) |
| --- | --- |
| `Coach`, `ProviderReplies`, `Restart` | the route `POST .../coach` up to the provider's call, the rest of `coach` after it, a restart with another configuration |
| `Prioritized`, `Facts` | `_prioritize`, the aliases c1, c2, ... |
| `RulesDraft`, `Exercise` | the rules provider |
| `Delivered`, `Parsed` | the gateway: status, size, completion, one text, no refusal |
| `WellFormed`, `ValidPlan`, `RunProvider` | the contract of `CoachPlanDraft`, `_validate_plan`, `_run_provider` |
| `ActionId`, `Action`, `ValidAction` | identifiers, the actions made of a draft, the contract of `CoachActionV1` |

A draft that is missing or is not JSON is the empty one, refused like it. A score stands for its digest; a message is the
facts it renders. `docs/adr/0007` calls the coach a pure function of the score; since `docs/adr/0009` a live provider may
choose another plan each time it is asked, so what is checked is that each plan is grounded and that identifiers name
contents, not that plans repeat.

The `MC` modules name the elements, tables, policies and inputs of the instances and `MCWorkbench` is its module under
another name; they define nothing else. `MCPhrase` makes its inputs from performances: rests, tones, noise and
accompaniment, frame by frame, and from histories of playback with the reports a browser would make of them.

## Runs, bounds and what they show

| Run | Instance | Distinct states | Question |
| --- | --- | --- | --- |
| `retention` | 1 song, asset and phrase; 1 upload, 2 workers, 1 crash, `RetryLimit` 1 | 1,211,000 | Do ownership, purge order, verdicts, finality and the erasure promise survive uploads, two workers and a crash anywhere, and in which way alone can an object come to the store that no row names? |
| `retention_live` | 1 song, 1 phrase; 1 upload, 2 workers, `RetryLimit` 2 | 378,000 | Does every request get a verdict, and does expiry reach every phrase? |
| `stale_upload` | 1 song, 1 phrase; 2 uploads, 1 worker | violation | Finding 1 |
| `purge_past_failed_task` | 1 song, 1 phrase; 1 upload, 1 worker | violation | Finding 2 |
| `ledger` | 2 manifests (accepted, practice-only), 1 session, 2 phrases with one key, 2 scores with one key, 1 asset; 2 requests; clock to 2 | 465,000 | Do key uniqueness, score binding, complete deletion and freedom from deadlock hold under every interleaving of two requests? |
| `stale_source` | as `ledger` | violation | Finding 3 |
| `workbench` | 2 takes, 3 asynchronous calls at a time, 2 songs, 1 demo | 717,000 | Is every microphone released, and does each late answer, late check and second stop find its session gone? |
| `standby` | 1 take, 2 asynchronous calls, 2 songs | violation | Finding 4 |
| `stuck_check` | 1 take, 2 asynchronous calls, 1 song | violation | Finding 5 |
| `phrase` | 1000 samples/s, hop 10, 48 pitch steps an octave; 5 imported manifests, 436 analyses, 5,305 jobs with phrases of up to 8 frames, 192 playback histories | 52,275 | Do score, calibration and gate do what they promise on every enumerated performance? |
| `publication` | 2 workers, 1 late request, 2 artifacts a job, 2 faults, a file of 2 chunks changed at most once | 1,051,828 | Do repeated runs converge on one record, with only justified refusals, and come through? |
| `coach` | 5 scores, 3 policies, 3 providers, 17 kinds of reply, 2 locales; 2 requests, 2 plans | 120,671 | Is every plan available, grounded and wholly one provider's, and does an identifier name one action? |

Why these bounds suffice to meet the cases of interest. Two workers are needed to split the tasks of one request and to
decide on each other's results; one crash suffices because a crash leaves nothing but the store's state behind, and the
next pass starts from it. `RetryLimit` 1 makes one failure exhaust a task; 2 gives a retry with backoff. An asset and a
phrase differ in what retires them (only the song; the song or the clock), so one of each meets both. In the ledger two
requests make every pair of conflicting holders (writer and writer, writer and deletion, upload and deletion); the two
phrases and the two scores contend for one key each, and the two manifests make the binding of a score to *its* manifest
visible. `TTL` 1 with a clock to 2 lets a phrase be uploaded, scored and expire. What the bounds might hide is what the
proofs are for: they hold for any number of rows, handlers, workers, requests and crashes.

In the workbench two takes are needed for one session to end while the next one starts, two songs for a song replaced
under a running call, and three calls for a session, its predecessor's answer and a check or classification to overlap;
one demo analysis competes with a recorded one for the coach. A take is used for one session, so a third would only
repeat the second after everything about the first has ended.

The phrase run keeps the proportions of the approved policies at a scale where a region is two to four frames long: the
search window is wider than a frame, the gap tolerance two frames, a long tone four, and every bound is met from both
sides. Phrases of six to eight frames around two touching regions contain the cases the code argues about: a tone that
starts before its region or ends in the next one, two runs with a gap, a run as long as another, clean frames among
contaminated ones. In the publication run two workers and one late request already put three writers on one asset; two
faults let a worker give up and its successor meet a crashed upload. In the coach run two answers suffice because
`ActionIdentityIsContent` compares pairs, and a restart may separate them.

Deadlock is checked in the retention runs: an idle handler or worker can always start again. It is checked in the coach
run too, where the service can always be restarted. The ledger runs say
`CHECK_DEADLOCK FALSE` because the model follows one song: once it is deleted and the clock has reached its bound every
request about it is refused, and nothing more happens. That no request waits for ever is the property `NoWaitCycle`. The
workbench runs say so because nothing happens on a page that has been left; that no analysis hangs is `AnalysisEnds`.
The phrase and publication runs say so because a job ends; that runs end well is `RunsComeThrough`.

Each property has a mutant: a plausible slip in the code (the operators commented "Faulty variant of") under which TLC
finds the property violated, e.g. the verdict that counts an exhausted task as done, the session lock taken before the
song lock, the phrase reserved without the session's lock, the timing window masked by the requested regions only, the
second `stat` forgotten, a draft's valid entries kept when others are refused.

## Fairness

`RetentionLifecycle` states fairness for its two liveness properties: weak fairness of each worker's next step
(the loop of `maintenance.py` runs a pass every interval and survives a failed one; it assumes that no *other* tenant's
pass fails each time before this one's turn, since `run_maintenance_once` stops at the first exception), of each upload's next step (a
request handler completes or is torn down, and its transaction with it), and of `BackoffElapses` (clocks advance). None
is assumed of clients, of reservations, of deletions or of the clock reaching an expiry, and none of `CrashPass`. No
weak fairness distinguishes success from failure of a delete call, so a store that fails for ever is allowed: the
request then settles as failed. `retention_live` has no crash: an unbounded sequence of crashes settles nothing, and a
bounded one only delays it.

`PracticeWorkbench` assumes weak fairness of `Continue(r)`, the code behind each await of a run: the browser settles
promises it can settle, the coach request carries a timeout (`coachClient.ts`), and checks have one of their own. Which
way an await ends is left open. Nothing is assumed of the user, of the unmount, nor of the permission prompt
(`GrantStream`, `StartFails`): it may stay open for ever, and the session then stays "arming".

`Publication` assumes weak fairness of `Serve(s)`, the server's work on each request it has, and of `Work(w)`, the next
step of each worker; a job that failed is delivered again (`docs/adr/0005` asks that redelivered jobs converge), so
`Begin` is among these steps. None is assumed of faults, deletion, expiry or writes to the model's file. Calls fail
finitely often (`MaxFaults`), without which no run needs to come through. `PhrasePipeline` and `CoachPlan` state no
liveness property.

## Where code and documents disagree

1. `stale_upload` – ADR 0004 line 24 says "Raw audio TTL removes the audio object". `upload_phrase` (`service.py` 427)
   checks `audio_state`, the key and the digest on the copy loaded before the body was streamed. Of two uploads of one
   phrase, one commits; the expiry pass tombstones the phrase and erases the object; the other, which took its timestamp
   before the expiry and its lock after, stores the object again. The task is completed, and nothing names the object.
   `LateObjectsAreStale` (checked in run `retention`, proved as `OnlyStaleCopiesComeLate`) says that there is no other way
   for an object to come to the store without a name, so that re-reading the locked row would close the gap.
2. `purge_past_failed_task` – `services/control-plane/README.md` line 44 says exhausted tasks require an operator "before
   the related database records can be purged". A phrase's expiry task can be exhausted while its song is deleted later;
   the song's own request has other tasks, so its records are purged (`service.py` 872) and the failed task's object
   stays in the store with only the task naming it.
3. `stale_source` – `service.py` 137 refuses to replace the source of a published song. The check reads the copy loaded
   before the body was streamed: an upload that started before another one committed and a manifest was published sets
   the song back from `ACCEPTED` to `UPLOADED`.
4. `standby` – line 1461 of `PracticeWorkbench.tsx` labels the idle session "待机", standby, and line 798 locks the source
   while a session is arming, recording or analysing. `onFileSelected` awaits the classification of an MGG file (306)
   with nothing locked. If a session has been started meanwhile, `setSongBlob` (312) sets it to idle without stopping
   its capture: the microphone stays open, `stopSession` refuses (396), and the next session overwrites the only
   reference to the capture (492).
5. `stuck_check` – line 193 of `MicrophoneCheckDialog.tsx` says of the dialog's state `checking` "正在检查", the microphone
   is being checked. The catch of `runMicrophoneCheck` (`PracticeWorkbench.tsx` 572) returns on every error that
   `isMicrophoneCheckAbort` holds of, and `normalizeMicrophoneError` (`microphoneCheck.ts` 157) makes one of any
   `AbortError`, also of one that `getUserMedia` raises by itself when the device cannot be started. The dialog then stays
   in `checking` while the finally clause (583) drops the controller: no check is under way, the button that would repeat
   it is disabled in that state (`MicrophoneCheckDialog.tsx` 173), and the user has to cancel the dialog and start anew.

## What is proved

All theorems hold for every value of the constants that the modules' named assumptions allow; TLC evaluates the
assumptions in the runs. They say

- of the stateful components (`KeyAssumption`, `BoundAssumption`, `DocumentAssumption`, `WorkbenchAssumption`,
  `PublicationAssumption`): disjoint identifiers, tables of the right domain, a positive retry limit;
- of the policies (`ScoringPolicyAssumption`, `FeaturePolicyAssumption`, `IngestPolicyAssumption`,
  `PoliciesAssumption`, and those of `CoachPlan`): the bounds that the constructors of the policies check, and what the
  approved policies agree on: the gate demands no less of a region than the scoring core, and the pitch window and the
  octave tolerance together are less than an octave;
- of inputs (`AnalysesAssumption`, `ManifestsAssumption`, `JobsAssumption`): field by field what the contracts' models
  accept. What their validators check across fields is an action's guard, and not assumed.

Sequences have any length, confidences, times and pitches any value of their range.

`RetentionLifecycle_proofs`. `TypeCorrect` is inductive alone. Everything else rests on one inductive invariant,
`IInv == TypeOK /\ RowInv /\ LockInv /\ EraseInv /\ PassInv /\ VerdictInv`:

- `RowInv` ties the columns of a row together (a tombstoned row has no key, a key without an owner has a task, an
  absent row has nothing);
- `LockInv` says what a handler that holds a row knows: for tracked keys, the row still names its object – this is why a
  put cannot follow an erasure;
- `EraseInv`: a completed task's object is gone – not inductive without `LockInv` (a late put) and `PassInv` (a pass that
  believes it deleted);
- `PassInv`: the batches of workers are disjoint, their tasks still pending and the deleted objects absent; the
  requests held are disjoint and what was decided about them still follows from the committed tasks – a verdict is
  computed before it is committed, and another pass may commit in between;
- `VerdictInv`: verdicts follow tasks, and a song's purge follows its verdict.

The step lemma has one case per action (`InsertKeepsInv`, `HandlerStepKeepsInv`, `RequestDeletionKeepsInv`,
`ExpireKeepsInv`, `PassStepKeepsInv`, `CommitPassKeepsInv`, `QuietStepKeepsInv`). From `IInv` follow `NoObjectOrphaned`,
`PurgeFollowsErasure`, `VerdictsAgree`; with a look at each step, `SettledStays` and `CleanupIsAfterTombstone`; and
`ErasureRefined`: the initial state maps to the abstract one and every step to a step of `ContentErasure` or a stutter
(`RefinementInit`, `RefinementStep`).

`OnlyStaleCopiesComeLate` says that the stale copy is the only cause of finding 1, for any number of uploads, deletions and
workers: whenever an object comes to the store that no row names, it is an expired phrase's whose row still stands, and
the upload read the phrase's key before the expiry. It needs `HoldInv` beside `IInv`: an upload that holds a row's lock
has read a key, and the row stays live until it lets go, because a song deletion waits for the lock and a purge comes
after a deletion (`HoldStep`). That the object is a phrase's, and expired, follows from `RowInv`.

`PracticeLedger_proofs`. `LedgerTypes` is inductive alone; `NoDeadlock` follows from `Mutex` (one holder of the song's
lock) because every waiter for a session or phrase lock either holds the song's lock or holds nothing. The rest follows
from `LedgerInv == TypeOK /\ Mutex /\ Rowwise /\ DeletionComplete /\ KeysDistinct /\ ScoreBound /\ ScoresDistinct /\
AnswersRecorded`:

- `Rowwise`: the states of each row agree column by column, e.g. a keyed phrase is live and its session live with it;
- `DeletionComplete`: a request about to commit the deletion holds every live phrase, because it holds their sessions –
  without it a phrase reserved in between would survive;
- `KeysDistinct`, `ScoresDistinct`: one keyed phrase, one live score per key;
- `AnswersRecorded`: an answer, and a retry about to answer, names the entry of the ledger it was asked for; two
  answers to one key agree, since the only tombstoning of a score is the song's deletion, after which none is
  written.

Theorems: `DeletionBuriesAll`, `ScoresStayBound`, `RetriesAgree`, `RetiredKeysStay`.

`PracticeWorkbench_proofs`. `MicIsOwned` and `OneEntryPerTake` fail to be inductive because the code clears
`capture.current` in three places (a failed start, a failed and a finished stop) without asking whose capture it is. That
is harmless only while the capture there is the run's own and already closed, which is what `SessionInv` says:

- `OneSession`: at most one call in progress belongs to a session – the buttons' guards and the source lock see to it;
- `Phase(r)`: what the page shows, which capture is current and whether it is open, at each await of a session;
- `Quiet`: the dialog is never open during a session, and outside sessions no capture is current – this needs
  `DialogAwaitsCheck`: the current check, the only one that may set the dialog, belongs to a dialog that is open;
- `Sampling`: the interval runs exactly while the session records; `HistoryIsPast`: takes in the history are over;
- `GoneInv`: after the unmount nothing is current.

All but `GoneInv` are claimed while the page is mounted and no song has disturbed a session. The step proofs use that only
the phase of the acting call can change (`OneCall`, `OthersIdle`) and that most actions leave all sessions alone
(`Untouched`). `AnswersMatchDisplay` follows from `DisplayInv`, disturbed or not: the request registered in
`coachAbort.current` is in progress and about the analysis on display. `VerdictsAreCurrent` is the same for the microphone
dialog; `DialogAwaitsCheck` is inductive, since a check goes on until it ends (`CheckGoesOn`).

Theorems: `WorkbenchTypes`, `MicrophonesOwned`, `RecordingsLive`, `TakesRecordedOnce`, `DialogsAwaitTheirCheck`,
`VerdictsStayCurrent`, `AnswersAreCurrent`.

`Publication_proofs` rests on `PublicationInv == AssetsInv /\ RecordsInv /\ ContentInv /\ ActorsInv`:

- `AssetsInv`: one asset for each artifact, and a stored asset has its object – a crashed upload leaves an object without
  a stored row, never the reverse;
- `RecordsInv`: at most one record, of the stored assets of every artifact of the job;
- `ContentInv`: what song, audio and file may be;
- `ActorsInv`: for each worker, what it has published is stored and is the beginning of its job, the chunks it has read
  are the file's unless the stamp has moved, and a refusal it met has its reason (`WorkerInv`); for each request, late
  ones included, the rows it names exist and a record about to be posted is complete (`CallInv`); a worker's own request
  is the one its progress calls for (`OwnCall`).

Nothing that an actor knows is undone by others, because rows are only added and only become stored, deletion and
expiry are final and the stamp grows: that is `Onward`, and `OnwardKeeps`, `WorkerKeeps`, `CallKeeps` carry every other
actor through a step (`OneActor`, `SomeActors`), so that each action's case concerns its own actor. Since assets are
unique, two complete lists of identifiers are equal (`CompleteUnique`), hence a second run's manifest is the record that
is already there. Theorems: `TypeCorrect`, `RunsConverge`, `RefusalsHaveReasons`, `ModelsAreIntact`.

`CoachPlan_proofs` rests on `IInv == RequestsInv /\ AnswersInv` (`AnswersAreSound`): a request in progress is one that the
service it was sent to was able to ask a provider about, and each answer was made of a draft that passed the plan's
checks, the provider's or the rules', under the configuration it names (`Sound`). The order of corrections that
`_prioritize` sorts by is strict and total on the corrections of a score, so that each has its rank, the number of those
ahead of it, and the facts are those of the lowest ranks (`RanksAreTaken`, `FactsAreFirst`). From that follow

- `PlansStayGrounded`: a source is among the facts, and fewer than `max_actions` corrections outrank it;
- `CoachStaysAvailable`: the draft of the rules meets every check that a provider's has to (`RulesDraftIsValid`), and so
  do the actions made of it (`ActionIsValid`);
- `DraftsCountAsAWhole`; and `IdentityNamesOneAction`: identifiers hold all that actions are made of but their sources,
  of which they hold the identifiers, and those are unique in a score (`PlannedFields`).

`Statistics_proofs` has the facts about sums, filters, medians and rounding that the others cite, for sequences of any
length. The library's induction theorems take an operator for the predicate, which cannot be instantiated here; with a
*set* for the predicate induction follows from the order of the naturals (`LeastNatural`, `SetInduction`,
`SegmentInduction`, `SequenceInduction`), and a recursive function is shown to exist and to obey its equations
(`IterationExists`). So filters keep order and commute (`OnlyOrdered`, `OnlyTwice`), two sequences that agree on what is
kept have the same filter (`OnlyInStep`), a median lies between its bounds (`TwiceMedianBetween`), and the sum of a part
is at most the sum of the whole (`MeasureOfOnly`, `TotalGrows`).

`PhraseScoring_proofs` is about `ScorePhrase` alone:

- the ways through it (`ScoreCases`, `VerdictCases`), and that its corrections are the union over regions of what the
  observation of each leads to (`CorrectionsByRegion`), which yields `RegionsJudgedAlike`;
- two recordings that differ in leaked frames only have the same coverage, timing frames, observations and result, step
  by step (`SameTiming`, `SameObservation`, `SameScore`);
- the run that timing goes by exists: runs differ in their first frame, hence in their rank, and ranks are bounded
  (`RunsBegin`, `BestRunExists`); it is in the order of time, so a correction's evidence is a range and its verdict one
  per type (`CorrectionIsSound`); what is covered, assessed and pitched is a part of the phrase (`CoverageIsPart`,
  `MetricsAreShares`);
- a tone of one pitch makes one run (`OneRun`), its errors are equal and nothing remains when their line is taken away,
  so that it is not unstable (`NothingRemains`, `SteadyTone`), it is not an octave off (`NotAnOctave`), and its type
  follows from its mean, start and end (`ToneIsPitched`, `ToneIsTimed`, `ToneIsCorrected`).

`PhrasePipeline_proofs` rests on `PipelineInv` (`RunsKeepTheirEvidence`): what a stage may rely on. From the
stage that made them on, manifest, job, calibration and features meet their contracts and the score is what the core made
of them. Invariance is by one lemma per action; that the frames mapped to the song's timeline are in order is
`MappedFrames`. Theorems:

- `PhrasesAreAligned`: the reports that a calibration was backed by (`CalibrationIsBacked`) bound the distance between
  where a sample was put and where it was played (`AlignedWithin`): the drift within the phrase has a bound of its own, and
  a seek between the anchor and the sample is also one between the anchor and a report beyond the phrase, which agrees
  with the anchor within the allowed residual;
- `ScoresAreWellFormed`, `RegionsJudgeAlone` and `LeakageIsSilent` apply the lemmas above;
- `PerformancesAreRecognised`: a clean tone near a region gets exactly the corrections it deserves;
- `AcceptedSongsAreScorable`, with `GateInv`: an accepted gate has an eligible candidate, since its coverage is positive
  and only eligible candidates make it up (`GateIsSound`); distinct candidates have distinct regions; and eligible ones
  are scorable because the gate asks for no less (`EligibleIsScorable`).

The proof of `PerformancesAreRecognised` found two conditions that the model-checked instance met by its proportions. A
recording must reach `min_timeline_coverage` in the region itself; and `hop_samples` may not exceed the gap that joins
frames to a run. The policies fix the hop at 480 samples (`services/scoring/.../policy.py` 20) and the gap at 30 ms
(`packages/scoring-core/.../config.py` 27), so below 16,000 samples per second, which the contracts accept from 8,000 on,
`_timing_frames` (`core.py` 562) splits each tone into runs of one frame and its duration is judged by one of them.
`IsPerformanceOf` states both.

## What is only model-checked

- `DeletionSettles` and `ExpiryReachesPhrase`: liveness under fairness is outside the prover's reach.
- `AnalysisEnds` and `UnmountReleases` of `PracticeWorkbench` and `RunsComeThrough` of `Publication`, for the same reason.
- The five violations.

Every safety invariant and every action property that the passing runs check is also a theorem.

## What is not modelled

Components with status `not_modelled` in `PROJECT.json`: authentication and schemas (stateless checks of one request), the
web microphone check and coach route, the MGG helper (bytes, a cipher, an HTTP client and process hardening; it shares no
state with the rest), web rendering and local analysis (floating-point signal processing), migrations, deployment.

Of the modelled components:

- control plane: reading content and exporting (no state change), `create_song`'s uniqueness race across songs, the
  five-minute clock skew, phrase identifiers reused after a purge, tenant isolation (each model is one tenant, and every
  query of `service.py` carries the tenant of the credential), temporary files of the object store;
- scoring core: values of metrics, severity and confidence of corrections; `evaluation.py`, which measures corpora offline;
- scoring and ingest: decoding of audio, the models' inference, frame energies; how the web client makes and revises its
  transport reports (`transport.ts`): the model starts from the reports;
- coach: wording, prompts, and the HTTP client below the gateway;
- contracts: the declarative field checks beyond the validators the pipelines have to satisfy.
