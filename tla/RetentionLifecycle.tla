------------------------- MODULE RetentionLifecycle -------------------------
(***************************************************************************)
(* The control plane's content lifecycle for one tenant: rows that name    *)
(* objects in the object store, the upload handlers that fill them, the    *)
(* song deletion and raw-audio expiry that tombstone them, and the         *)
(* maintenance workers that erase the objects and purge the rows           *)
(* (service.py, api.py, maintenance.py, storage.py).                       *)
(*                                                                         *)
(* Every object key is minted from the identifier of the row that names it *)
(* (song source, asset or phrase), so a key IS its row here.  Rows of the  *)
(* same song are tied by SongOf.  A database transaction is one action     *)
(* when nothing outside the database happens in it; an upload and a        *)
(* maintenance pass also touch the object store, so they are several       *)
(* actions that hold row locks until they commit, end or crash.            *)
(***************************************************************************)
EXTENDS Naturals, FiniteSets

CONSTANTS Songs,      \* songs; a song also stands for its source object's key
          Assets,     \* asset reservations of the ingest and scoring workers
          Phrases,    \* phrase-audio reservations of the web client
          SongOf,     \* the song each row belongs to
          Handlers,   \* concurrent upload requests
          Workers,    \* maintenance processes
          RetryLimit, \* settings.deletion_retry_limit
          MaxCrashes, \* bound on the crashes of maintenance passes
          NoKey       \* the key of an idle handler

Keys == Songs \cup Assets \cup Phrases
Resources == Songs \cup Phrases   \* what a DeletionRequest can be about

ASSUME KeyAssumption ==
  /\ Songs \cap Assets = {} /\ Songs \cap Phrases = {} /\ Assets \cap Phrases = {}
  /\ SongOf \in [Keys -> Songs]
  /\ \A s \in Songs : SongOf[s] = s
  /\ NoKey \notin Keys
ASSUME BoundAssumption ==
  RetryLimit \in Nat \ {0} /\ MaxCrashes \in Nat

VARIABLES
  row,      \* per key: its row is absent, live, tombstoned (deleted_at) or purged
  state,    \* per key: AudioState; a song's PENDING_UPLOAD / UPLOADED-or-later / DELETED
  named,    \* per key: the row's object_key column is not NULL
  expired,  \* per phrase: the clock has reached expires_at
  objects,  \* keys present in the object store
  task,     \* per key: status of the DeletionTask that carries it, or "none"
  taskOf,   \* per key: the resource whose request that task belongs to
  attempts, \* per key: DeletionTask.attempts
  due,      \* per key: next_attempt_at has been reached
  request,  \* per resource: status of its DeletionRequest, or "none"
  up,       \* per upload handler: its progress and what its session has loaded
  wk,       \* per maintenance worker: its progress and uncommitted results
  crashes   \* crashed passes so far

rowVars == <<row, state, named, expired>>
queueVars == <<task, taskOf, attempts, due, request>>
vars == <<row, state, named, expired, objects, task, taskOf, attempts, due,
          request, up, wk, crashes>>

RowStates == {"absent", "live", "tombstoned", "purged"}
AudioStates == {"PENDING", "STORED", "DELETED"}
Statuses == {"none", "PENDING", "COMPLETED", "FAILED"}
-----------------------------------------------------------------------------
(* Process records.  An idle process keeps nothing.                        *)

Handler(pc, k, seen, seenNamed, late) ==
  [pc |-> pc, key |-> k, seen |-> seen, seenNamed |-> seenNamed, late |-> late]

IdleHandler == Handler("idle", NoKey, "PENDING", FALSE, FALSE)

HandlerRecord ==
  {IdleHandler} \cup
  [pc : {"reading", "entered", "locked", "put"}, key : Keys, seen : AudioStates,
   seenNamed : BOOLEAN, late : BOOLEAN]

\* batch: tasks it holds locked; deleted, failed: outcomes of the object calls;
\* held: requests it holds locked; complete, dead: what it decided about them
Worker(pc, batch, deleted, failed, held, complete, dead) ==
  [pc |-> pc, batch |-> batch, deleted |-> deleted, failed |-> failed,
   held |-> held, complete |-> complete, dead |-> dead]

IdleWorker == Worker("idle", {}, {}, {}, {}, {}, {})

WorkerRecord ==
  [pc : {"idle", "claiming", "deleting", "reconciled"},
   batch : SUBSET Keys, deleted : SUBSET Keys, failed : SUBSET Keys,
   held : SUBSET Resources, complete : SUBSET Resources, dead : SUBSET Resources]

HoldsRow(h) == up[h].pc \in {"locked", "put"}
Locked(k) == \E h \in Handlers : HoldsRow(h) /\ up[h].key = k
RowsOf(s) == {k \in Keys : SongOf[k] = s}
-----------------------------------------------------------------------------
Init ==
  /\ row = [k \in Keys |-> "absent"]
  /\ state = [k \in Keys |-> "PENDING"]
  /\ named = [k \in Keys |-> FALSE]
  /\ expired = [p \in Phrases |-> FALSE]
  /\ objects = {}
  /\ task = [k \in Keys |-> "none"]
  /\ taskOf = [k \in Keys |-> SongOf[k]]
  /\ attempts = [k \in Keys |-> 0]
  /\ due = [k \in Keys |-> FALSE]
  /\ request = [r \in Resources |-> "none"]
  /\ up = [h \in Handlers |-> IdleHandler]
  /\ wk = [w \in Workers |-> IdleWorker]
  /\ crashes = 0
-----------------------------------------------------------------------------
(* Reservations.  Row identifiers are taken as fresh: a purged one does not *)
(* come back (the service mints them, except a phrase's, which clients do). *)

Insert(k) ==
  /\ row[k] = "absent"
  /\ row' = [row EXCEPT ![k] = "live"]
  /\ named' = [named EXCEPT ![k] = TRUE]
  /\ UNCHANGED <<state, expired, objects, queueVars, up, wk, crashes>>

CreateSong(s) == Insert(s)

\* reserve_asset locks the song row: it waits for a source upload in progress
ReserveAsset(a) ==
  /\ row[SongOf[a]] = "live"
  /\ ~Locked(SongOf[a])
  /\ Insert(a)

\* reserve_phrase locks the practice session, which song deletion tombstones
\* together with the song
ReservePhrase(p) ==
  /\ row[SongOf[p]] = "live"
  /\ Insert(p)

\* the clock reaches the reservation's expires_at
ReservationExpires(p) ==
  /\ row[p] = "live"
  /\ ~expired[p]
  /\ expired' = [expired EXCEPT ![p] = TRUE]
  /\ UNCHANGED <<row, state, named, objects, queueVars, up, wk, crashes>>
-----------------------------------------------------------------------------
(* Uploads: PUT .../content.  The route reads the row to learn the media   *)
(* type, streams the body, then calls the service in the same session.     *)

PreRead(h, k) ==
  /\ up[h].pc = "idle"
  /\ row[k] = "live"
  /\ up' = [up EXCEPT ![h] = Handler("reading", k, state[k], named[k], FALSE)]
  /\ UNCHANGED <<rowVars, objects, queueVars, wk, crashes>>

\* the service takes its timestamp before it asks for the row lock
EnterService(h) ==
  /\ up[h].pc = "reading"
  /\ up' = [up EXCEPT ![h].pc = "entered",
                      ![h].late = up[h].key \in Phrases /\ expired[up[h].key]]
  /\ UNCHANGED <<rowVars, objects, queueVars, wk, crashes>>

\* Faulty variant of LockRow: the deleted_at test is left to the session's copy.
LockRowUnchecked(h) ==
  LET k == up[h].key
  IN  /\ up[h].pc = "entered"
      /\ ~Locked(k)
      /\ up[h].seen # "DELETED"
      /\ ~(up[h].seen = "STORED" /\ k \in objects)
      /\ up' = [up EXCEPT ![h].pc = "locked"]
      /\ UNCHANGED <<rowVars, objects, queueVars, wk, crashes>>

\* SELECT ... FOR UPDATE finds the row live (deleted_at IS NULL is in the query) and
\* every check passes.  The checks read the session's copy of the row, not the row
\* that was just locked: SQLAlchemy keeps loaded attributes unless the query says
\* populate_existing, and service.py never does.
LockRow(h) ==
  LET k == up[h].key
  IN  /\ up[h].pc = "entered"
      /\ ~Locked(k)
      /\ row[k] = "live"
      /\ up[h].seen # "DELETED"
      /\ ~up[h].late
      /\ up[h].seenNamed
      /\ ~(up[h].seen = "STORED" /\ k \in objects)
      /\ up' = [up EXCEPT ![h].pc = "locked"]
      /\ UNCHANGED <<rowVars, objects, queueVars, wk, crashes>>

PutObject(h) ==
  /\ up[h].pc = "locked"
  /\ objects' = objects \cup {up[h].key}
  /\ up' = [up EXCEPT ![h].pc = "put"]
  /\ UNCHANGED <<rowVars, queueVars, wk, crashes>>

\* the flush writes the state column only if it differs from the loaded copy
CommitUpload(h) ==
  /\ up[h].pc = "put"
  /\ state' = IF up[h].seen = "STORED" THEN state
              ELSE [state EXCEPT ![up[h].key] = "STORED"]
  /\ up' = [up EXCEPT ![h] = IdleHandler]
  /\ UNCHANGED <<row, named, expired, objects, queueVars, wk, crashes>>

\* Faulty variant of EndUpload: the session survives the request.
EndUploadKeepsSession(h) ==
  /\ up[h].pc # "idle"
  /\ up' = [up EXCEPT ![h].pc = "idle"]
  /\ UNCHANGED <<rowVars, objects, queueVars, wk, crashes>>

\* a refusal, the early return of a repeated upload, a disconnect or a crash:
\* the transaction rolls back and its locks go; a stored object stays
EndUpload(h) ==
  /\ up[h].pc # "idle"
  /\ up' = [up EXCEPT ![h] = IdleHandler]
  /\ UNCHANGED <<rowVars, objects, queueVars, wk, crashes>>
-----------------------------------------------------------------------------
(* Tombstones.  Both write the durable task in the transaction that        *)
(* takes the object key away from the row.                                 *)

\* Faulty variant of Tombstone: the row keeps its object key.
TombstoneKeepsKey(rows) ==
  /\ state' = [k \in Keys |-> IF k \in rows THEN "DELETED" ELSE state[k]]
  /\ UNCHANGED named

Tombstone(rows) ==
  /\ state' = [k \in Keys |-> IF k \in rows THEN "DELETED" ELSE state[k]]
  /\ named' = [k \in Keys |-> named[k] /\ k \notin rows]

AddTasks(keys, owner) ==
  /\ task' = [k \in Keys |-> IF k \in keys THEN "PENDING" ELSE task[k]]
  /\ taskOf' = [k \in Keys |-> IF k \in keys THEN owner[k] ELSE taskOf[k]]
  /\ due' = [k \in Keys |-> due[k] \/ k \in keys]

\* Faulty variant of RequestSongDeletion: it does not wait for the rows' locks.
RequestSongDeletionUnlocked(s) ==
  LET rows == {k \in RowsOf(s) : row[k] = "live"}
  IN  /\ request[s] = "none"
      /\ row[s] = "live"
      /\ Tombstone(rows)
      /\ row' = [k \in Keys |-> IF k \in rows THEN "tombstoned" ELSE row[k]]
      /\ AddTasks({k \in rows : named[k]}, SongOf)
      /\ request' = [request EXCEPT ![s] = "PENDING"]
      /\ UNCHANGED <<expired, objects, attempts, up, wk, crashes>>

RequestSongDeletion(s) ==
  LET rows == {k \in RowsOf(s) : row[k] = "live"}
  IN  /\ request[s] = "none"
      /\ row[s] = "live"
      /\ \A k \in rows : ~Locked(k)
      /\ Tombstone(rows)
      /\ row' = [k \in Keys |-> IF k \in rows THEN "tombstoned" ELSE row[k]]
      /\ AddTasks({k \in rows : named[k]}, SongOf)
      /\ request' = [request EXCEPT ![s] = "PENDING"]
      /\ UNCHANGED <<expired, objects, attempts, up, wk, crashes>>

\* Faulty variant of Expirable: only uploaded phrases.
ExpirableIfStored ==
  {p \in Phrases : /\ row[p] = "live" /\ state[p] = "STORED" /\ expired[p]
                   /\ ~Locked(p) /\ request[p] = "none"}

\* rows that expire_raw_audio selects, skipping the locked ones, and that have
\* no request yet
Expirable ==
  {p \in Phrases : /\ row[p] = "live" /\ state[p] # "DELETED" /\ expired[p]
                   /\ ~Locked(p) /\ request[p] = "none"}

ExpireRawAudio(w) ==
  /\ wk[w].pc = "idle"
  /\ Tombstone(Expirable)
  /\ AddTasks({p \in Expirable : named[p]}, [k \in Keys |-> k])
  /\ request' = [r \in Resources |->
                   IF r \notin Expirable THEN request[r]
                   ELSE IF named[r] THEN "PENDING" ELSE "COMPLETED"]
  /\ wk' = [wk EXCEPT ![w].pc = "claiming"]
  /\ UNCHANGED <<row, expired, objects, attempts, up, crashes>>
-----------------------------------------------------------------------------
(* process_deletions: one transaction around calls to the object store.    *)

Claimed(k) == \E w \in Workers : k \in wk[w].batch
Held(r) == \E w \in Workers : r \in wk[w].held

\* Faulty variant of ClaimTasks: exhausted tasks are tried again.
ClaimTasksAgain(w) ==
  /\ wk[w].pc = "claiming"
  /\ wk' = [wk EXCEPT ![w] =
              Worker("deleting",
                     {k \in Keys : task[k] \in {"PENDING", "FAILED"} /\ ~Claimed(k)},
                     {}, {}, {}, {}, {})]
  /\ UNCHANGED <<rowVars, objects, queueVars, up, crashes>>

ClaimTasks(w) ==
  /\ wk[w].pc = "claiming"
  /\ wk' = [wk EXCEPT ![w] =
              Worker("deleting",
                     {k \in Keys : task[k] = "PENDING" /\ due[k] /\ ~Claimed(k)},
                     {}, {}, {}, {}, {})]
  /\ UNCHANGED <<rowVars, objects, queueVars, up, crashes>>

Remaining(w) == wk[w].batch \ (wk[w].deleted \cup wk[w].failed)

DeleteObject(w, k) ==
  /\ wk[w].pc = "deleting"
  /\ k \in Remaining(w)
  /\ objects' = objects \ {k}
  /\ wk' = [wk EXCEPT ![w].deleted = @ \cup {k}]
  /\ UNCHANGED <<rowVars, queueVars, up, crashes>>

DeleteFails(w, k) ==
  /\ wk[w].pc = "deleting"
  /\ k \in Remaining(w)
  /\ wk' = [wk EXCEPT ![w].failed = @ \cup {k}]
  /\ UNCHANGED <<rowVars, objects, queueVars, up, crashes>>

\* a task's status as worker w's transaction sees it: its own flushed results
\* over what others have committed
StatusSeen(w, k) ==
  IF k \in wk[w].deleted THEN "COMPLETED"
  ELSE IF k \in wk[w].failed
       THEN IF attempts[k] + 1 >= RetryLimit THEN "FAILED" ELSE "PENDING"
       ELSE task[k]

TasksOf(r) == {k \in Keys : task[k] # "none" /\ taskOf[k] = r}

\* Faulty variants of the two verdicts: an exhausted task counts as done; a task
\* that another pass still has to finish counts as failed.
AllSettled(w, r) == TasksOf(r) # {} /\ \A k \in TasksOf(r) : StatusSeen(w, k) # "PENDING"
AnyUnfinished(w, r) == \E k \in TasksOf(r) : StatusSeen(w, k) # "COMPLETED"

AllDone(w, r) == TasksOf(r) # {} /\ \A k \in TasksOf(r) : StatusSeen(w, k) = "COMPLETED"
AnyDead(w, r) == \E k \in TasksOf(r) : StatusSeen(w, k) = "FAILED"

\* Faulty variant of Reconcile: only the requests of the pass's own tasks.
ReconcileOwn(w) ==
  LET free == {r \in Resources : /\ request[r] = "PENDING" /\ ~Held(r)
                                 /\ \E k \in wk[w].batch : taskOf[k] = r}
  IN  /\ wk[w].pc = "deleting"
      /\ Remaining(w) = {}
      /\ wk' = [wk EXCEPT ![w].pc = "reconciled",
                          ![w].held = free,
                          ![w].complete = {r \in free : AllDone(w, r)},
                          ![w].dead = {r \in free : AnyDead(w, r)}]
      /\ UNCHANGED <<rowVars, objects, queueVars, up, crashes>>

Reconcile(w) ==
  LET free == {r \in Resources : request[r] = "PENDING" /\ ~Held(r)}
  IN  /\ wk[w].pc = "deleting"
      /\ Remaining(w) = {}
      /\ wk' = [wk EXCEPT ![w].pc = "reconciled",
                          ![w].held = free,
                          ![w].complete = {r \in free : AllDone(w, r)},
                          ![w].dead = {r \in free : AnyDead(w, r)}]
      /\ UNCHANGED <<rowVars, objects, queueVars, up, crashes>>

\* Purged(w): the rows _purge_song_records deletes for the completed songs
Purged(w) == {k \in Keys : SongOf[k] \in wk[w].complete /\ row[k] # "absent"}

CommitPass(w) ==
  /\ wk[w].pc = "reconciled"
  /\ task' = [k \in Keys |-> StatusSeen(w, k)]
  /\ attempts' = [k \in Keys |-> IF k \in wk[w].failed THEN attempts[k] + 1 ELSE attempts[k]]
  /\ due' = [k \in Keys |-> due[k] /\ k \notin wk[w].batch]
  /\ row' = [k \in Keys |-> IF k \in Purged(w) THEN "purged" ELSE row[k]]
  /\ request' = [r \in Resources |->
                   IF r \in wk[w].complete THEN "COMPLETED"
                   ELSE IF r \in wk[w].dead THEN "FAILED" ELSE request[r]]
  /\ wk' = [wk EXCEPT ![w] = IdleWorker]
  /\ UNCHANGED <<state, named, expired, objects, taskOf, up, crashes>>

\* the pass fails or its process dies before the commit: the database forgets
\* the pass, the object store does not
CrashPass(w) ==
  /\ wk[w].pc # "idle"
  /\ crashes < MaxCrashes
  /\ crashes' = crashes + 1
  /\ wk' = [wk EXCEPT ![w] = IdleWorker]
  /\ UNCHANGED <<rowVars, objects, queueVars, up>>

\* the backoff of a failed attempt runs out
BackoffElapses(k) ==
  /\ task[k] = "PENDING"
  /\ ~due[k]
  /\ due' = [due EXCEPT ![k] = TRUE]
  /\ UNCHANGED <<rowVars, objects, task, taskOf, attempts, request, up, wk, crashes>>
-----------------------------------------------------------------------------
Reservations ==
  \/ \E s \in Songs : CreateSong(s)
  \/ \E a \in Assets : ReserveAsset(a)
  \/ \E p \in Phrases : ReservePhrase(p)

UploadStep(h) ==
  EnterService(h) \/ LockRow(h) \/ PutObject(h) \/ CommitUpload(h) \/ EndUpload(h)

PassStep(w) ==
  \/ ExpireRawAudio(w) \/ ClaimTasks(w) \/ Reconcile(w) \/ CommitPass(w)
  \/ \E k \in Keys : DeleteObject(w, k) \/ DeleteFails(w, k)

Next ==
  \/ Reservations
  \/ \E p \in Phrases : ReservationExpires(p)
  \/ \E h \in Handlers, k \in Keys : PreRead(h, k)
  \/ \E h \in Handlers : UploadStep(h)
  \/ \E s \in Songs : RequestSongDeletion(s)
  \/ \E w \in Workers : PassStep(w) \/ CrashPass(w)
  \/ \E k \in Keys : BackoffElapses(k)

\* The maintenance loop runs a pass every interval (maintenance.py), a request
\* handler always finishes, and clocks advance.
Fairness ==
  /\ \A w \in Workers : WF_vars(PassStep(w))
  /\ \A h \in Handlers : WF_vars(UploadStep(h))
  /\ \A k \in Keys : WF_vars(BackoffElapses(k))

Spec == Init /\ [][Next]_vars /\ Fairness
-----------------------------------------------------------------------------
TypeOK ==
  /\ row \in [Keys -> RowStates]
  /\ state \in [Keys -> AudioStates]
  /\ named \in [Keys -> BOOLEAN]
  /\ expired \in [Phrases -> BOOLEAN]
  /\ objects \subseteq Keys
  /\ task \in [Keys -> Statuses]
  /\ taskOf \in [Keys -> Resources]
  /\ attempts \in [Keys -> Nat]
  /\ due \in [Keys -> BOOLEAN]
  /\ request \in [Resources -> Statuses]
  /\ up \in [Handlers -> HandlerRecord]
  /\ wk \in [Workers -> WorkerRecord]
  /\ crashes \in 0 .. MaxCrashes

\* The keys whose whole life the code controls: all but the phrases', whose objects
\* may come back after their expiry (ExpiredAudioIsErased below is violated).
Tracked == Songs \cup Assets

\* Every object in the store is named by a row or by a task that still has to
\* delete it (or that an operator must look at), whatever handler or worker
\* crashes between the store and the commit: nothing is left that no one will
\* ever erase (service.py put-then-commit, delete-then-commit).
NoOrphan == \A k \in objects \cap Tracked : named[k] \/ task[k] \in {"PENDING", "FAILED"}

\* A song's rows are purged only when each task of its own deletion request is
\* completed and the objects are gone, although workers split the tasks among
\* them, crash, and decide on what others have committed
\* (service.py process_deletions; ADR 0004 line 13).
PurgeAfterErasure ==
  \A k \in Keys : row[k] = "purged" =>
    /\ request[SongOf[k]] = "COMPLETED"
    /\ \A j \in TasksOf(SongOf[k]) : task[j] = "COMPLETED" /\ (j \in Tracked => j \notin objects)

\* A request is reported completed only if every one of its tasks is, and failed
\* only if one of them exhausted its retries; a failed song deletion keeps its
\* tombstones (README of the service, Retention Operations).
VerdictMatchesTasks ==
  \A r \in Resources :
    /\ (request[r] = "COMPLETED") => (\A k \in TasksOf(r) : task[k] = "COMPLETED")
    /\ (request[r] = "FAILED") => (\E k \in TasksOf(r) : task[k] = "FAILED")
    /\ (request[r] = "FAILED" /\ r \in Songs) => (row[r] = "tombstoned")
    /\ (request[r] = "none") => (TasksOf(r) = {})

\* Content is made inaccessible before storage cleanup begins (ADR 0004 line
\* 13): an object disappears only when no row names it any more.
CleanupAfterTombstone ==
  [][\A k \in objects \ objects' : ~named[k] /\ task[k] = "PENDING"]_vars

Settles ==
  /\ \A k \in Keys : /\ task[k] \in {"COMPLETED", "FAILED"} => task'[k] = task[k]
                     /\ row[k] = "tombstoned" => row'[k] \in {"tombstoned", "purged"}
  /\ \A r \in Resources : request[r] \in {"COMPLETED", "FAILED"} => request'[r] = request[r]

\* Settled is settled: a crash or a second worker never reopens a completed or
\* failed task or request, and a tombstone is never lifted.
SettledForGood == [][Settles]_vars

\* Every accepted deletion gets a verdict: tasks completed by different workers
\* are reconciled by a later pass, and failing ones run out of retries.
DeletionSettles ==
  \A r \in Resources : request[r] = "PENDING" ~> request[r] \in {"COMPLETED", "FAILED"}

\* Raw audio does not outlive its reservation: once expires_at has passed, the
\* phrase is tombstoned with a durable task, by expiry or by a song deletion.
ExpiryReachesPhrase ==
  \A p \in Phrases : expired[p] ~> ~named[p]

\* An object that no row names comes to the store in one way only: as the audio of
\* an expired phrase of a song not yet deleted, brought by an upload that holds the
\* row's lock but goes by the key its session read before the expiry (service.py
\* upload_phrase).  No crash, and no race with a song deletion or another upload,
\* makes another, and the objects of songs and assets never come late.
LateObjectsAreStale ==
  [][\A k \in objects' \ objects : ~named[k] =>
       /\ k \in Phrases /\ row[k] = "live" /\ request[k] # "none"
       /\ \E h \in Handlers : HoldsRow(h) /\ up[h].key = k /\ up[h].seenNamed]_vars

\* The rows and tasks implement the abstract promise: Tracked content is live
\* until a task takes it, and settled as its task is.
LifeOf(k) == CASE task[k] = "PENDING" -> "retired"
               [] task[k] = "COMPLETED" -> "erased"
               [] task[k] = "FAILED" -> "stranded"
               [] OTHER -> IF row[k] = "absent" THEN "unborn" ELSE "live"

lifeOf == [k \in Tracked |-> LifeOf(k)]

Abstract == INSTANCE ContentErasure
              WITH Keys <- Tracked, life <- lifeOf, present <- objects \cap Tracked

ErasurePromise == Abstract!Spec
-----------------------------------------------------------------------------
(* What the documents say and the code does not do.                        *)

\* ADR 0004 line 24: "Raw audio TTL removes the audio object".
ExpiredAudioIsErased ==
  \A p \in Phrases : request[p] = "COMPLETED" => p \notin objects

\* services/control-plane/README.md line 44: exhausted tasks need an operator
\* "before the related database records can be purged".
ExhaustedTaskKeepsRecord ==
  \A k \in Keys : task[k] = "FAILED" => row[k] # "purged"
=============================================================================
