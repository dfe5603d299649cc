---------------------- MODULE RetentionLifecycle_proofs ----------------------
(***************************************************************************)
(* Invariance proofs about RetentionLifecycle, for every set of songs,     *)
(* assets, phrases, handlers and workers and every retry limit.            *)
(***************************************************************************)
EXTENDS RetentionLifecycle, TLAPS

\* Every step is one of the actions: the case split all invariance proofs use.
LEMMA StepCases ==
  ASSUME [Next]_vars
  PROVE  \/ \E s \in Songs : CreateSong(s)
         \/ \E a \in Assets : ReserveAsset(a)
         \/ \E p \in Phrases : ReservePhrase(p)
         \/ \E p \in Phrases : ReservationExpires(p)
         \/ \E h \in Handlers, k \in Keys : PreRead(h, k)
         \/ \E h \in Handlers : EnterService(h)
         \/ \E h \in Handlers : LockRow(h)
         \/ \E h \in Handlers : PutObject(h)
         \/ \E h \in Handlers : CommitUpload(h)
         \/ \E h \in Handlers : EndUpload(h)
         \/ \E s \in Songs : RequestSongDeletion(s)
         \/ \E w \in Workers : ExpireRawAudio(w)
         \/ \E w \in Workers : ClaimTasks(w)
         \/ \E w \in Workers, k \in Keys : DeleteObject(w, k)
         \/ \E w \in Workers, k \in Keys : DeleteFails(w, k)
         \/ \E w \in Workers : Reconcile(w)
         \/ \E w \in Workers : CommitPass(w)
         \/ \E w \in Workers : CrashPass(w)
         \/ \E k \in Keys : BackoffElapses(k)
         \/ UNCHANGED vars
  BY DEF Next, Reservations, UploadStep, PassStep
-----------------------------------------------------------------------------
(* Types.                                                                  *)

LEMMA TypeInit == Init => TypeOK
<1> SUFFICES ASSUME Init PROVE TypeOK
  OBVIOUS
<1> USE KeyAssumption, BoundAssumption DEF Init
<1>1. row \in [Keys -> RowStates] /\ state \in [Keys -> AudioStates] /\ named \in [Keys -> BOOLEAN]
  BY DEF RowStates, AudioStates
<1>2. expired \in [Phrases -> BOOLEAN] /\ objects \subseteq Keys /\ crashes \in 0 .. MaxCrashes
  OBVIOUS
<1>3. task \in [Keys -> Statuses] /\ taskOf \in [Keys -> Resources] /\ attempts \in [Keys -> Nat]
  BY DEF Statuses, Resources
<1>4. due \in [Keys -> BOOLEAN] /\ request \in [Resources -> Statuses]
  BY DEF Statuses
<1>5. up \in [Handlers -> HandlerRecord] /\ wk \in [Workers -> WorkerRecord]
  BY DEF HandlerRecord, WorkerRecord, IdleWorker, Worker
<1> QED
  BY <1>1, <1>2, <1>3, <1>4, <1>5 DEF TypeOK

\* A busy handler's record is a full one.
LEMMA BusyHandler ==
  ASSUME TypeOK, NEW h \in Handlers, up[h].pc # "idle"
  PROVE  up[h] \in [pc : {"reading", "entered", "locked", "put"}, key : Keys, seen : AudioStates,
                    seenNamed : BOOLEAN, late : BOOLEAN]
  BY DEF TypeOK, HandlerRecord, IdleHandler, Handler

\* Updates of a worker's record keep its type.
LEMMA WorkerUpdates ==
  ASSUME NEW r \in WorkerRecord,
         NEW A \in SUBSET Keys, NEW H \in SUBSET Resources,
         NEW C \in SUBSET Resources, NEW D \in SUBSET Resources
  PROVE  /\ [r EXCEPT !.pc = "claiming"] \in WorkerRecord
         /\ [r EXCEPT !.deleted = A] \in WorkerRecord
         /\ [r EXCEPT !.failed = A] \in WorkerRecord
         /\ [r EXCEPT !.pc = "reconciled", !.held = H, !.complete = C, !.dead = D] \in WorkerRecord
         /\ r.deleted \in SUBSET Keys /\ r.failed \in SUBSET Keys
  BY DEF WorkerRecord

LEMMA TypeStep == TypeOK /\ [Next]_vars => TypeOK'
<1> SUFFICES ASSUME TypeOK, [Next]_vars PROVE TypeOK'
  OBVIOUS
<1> USE KeyAssumption, BoundAssumption
<1> USE DEF rowVars, queueVars
<1>1. ASSUME NEW k \in Keys, Insert(k) PROVE TypeOK'
  BY <1>1 DEF TypeOK, Insert, RowStates
<1>2. ASSUME NEW p \in Phrases, ReservationExpires(p) PROVE TypeOK'
  BY <1>2 DEF TypeOK, ReservationExpires
<1>3. ASSUME NEW h \in Handlers, NEW k \in Keys, PreRead(h, k) PROVE TypeOK'
  BY <1>3 DEF TypeOK, PreRead, HandlerRecord, Handler
<1>4. ASSUME NEW h \in Handlers, EnterService(h) PROVE TypeOK'
  <2> DEFINE late == up[h].key \in Phrases /\ expired[up[h].key]
             Busy == [pc : {"reading", "entered", "locked", "put"}, key : Keys,
                      seen : AudioStates, seenNamed : BOOLEAN, late : BOOLEAN]
  <2>1. up[h] \in Busy
    BY <1>4, BusyHandler DEF EnterService
  <2>2. late \in BOOLEAN
    OBVIOUS
  <2> HIDE DEF late
  <2>3. [up[h] EXCEPT !.pc = "entered", !.late = late] \in Busy
    BY <2>1, <2>2
  <2>4. up' = [up EXCEPT ![h] = [up[h] EXCEPT !.pc = "entered", !.late = late]]
    BY <1>4 DEF EnterService, late, TypeOK
  <2>5. up' \in [Handlers -> HandlerRecord]
    BY <2>3, <2>4 DEF TypeOK, HandlerRecord
  <2> QED
    BY <1>4, <2>5 DEF TypeOK, EnterService
<1>5. ASSUME NEW h \in Handlers, LockRow(h) PROVE TypeOK'
  BY <1>5, BusyHandler DEF TypeOK, LockRow, HandlerRecord, Handler
<1>6. ASSUME NEW h \in Handlers, PutObject(h) PROVE TypeOK'
  BY <1>6, BusyHandler DEF TypeOK, PutObject, HandlerRecord
<1>7. ASSUME NEW h \in Handlers, CommitUpload(h) PROVE TypeOK'
  BY <1>7, BusyHandler DEF TypeOK, CommitUpload, HandlerRecord, AudioStates
<1>8. ASSUME NEW h \in Handlers, EndUpload(h) PROVE TypeOK'
  BY <1>8 DEF TypeOK, EndUpload, HandlerRecord
<1>9. ASSUME NEW s \in Songs, RequestSongDeletion(s) PROVE TypeOK'
  BY <1>9 DEF TypeOK, RequestSongDeletion, Tombstone, AddTasks, RowStates, AudioStates, Statuses,
              Resources
<1>10. ASSUME NEW w \in Workers, ExpireRawAudio(w) PROVE TypeOK'
  <2>1. Expirable \subseteq Phrases
    BY DEF Expirable
  <2>2. wk' \in [Workers -> WorkerRecord]
    BY <1>10, WorkerUpdates DEF TypeOK, ExpireRawAudio
  <2>3. taskOf' \in [Keys -> Resources]
    BY <1>10, <2>1 DEF TypeOK, ExpireRawAudio, AddTasks, Resources
  <2>4. /\ state' \in [Keys -> AudioStates] /\ named' \in [Keys -> BOOLEAN]
        /\ task' \in [Keys -> Statuses] /\ due' \in [Keys -> BOOLEAN]
        /\ request' \in [Resources -> Statuses]
    BY <1>10 DEF TypeOK, ExpireRawAudio, Tombstone, AddTasks, AudioStates, Statuses
  <2> QED
    BY <1>10, <2>2, <2>3, <2>4 DEF TypeOK, ExpireRawAudio
<1>11. ASSUME NEW w \in Workers, ClaimTasks(w) PROVE TypeOK'
  BY <1>11 DEF TypeOK, ClaimTasks, WorkerRecord, Worker
<1>12. ASSUME NEW w \in Workers, NEW k \in Keys, DeleteObject(w, k) PROVE TypeOK'
  <2>1. wk[w] \in WorkerRecord /\ wk[w].deleted \cup {k} \in SUBSET Keys
    BY WorkerUpdates DEF TypeOK
  <2>2. wk' = [wk EXCEPT ![w] = [wk[w] EXCEPT !.deleted = wk[w].deleted \cup {k}]]
    BY <1>12 DEF DeleteObject, TypeOK
  <2>3. wk' \in [Workers -> WorkerRecord]
    BY <2>1, <2>2, WorkerUpdates DEF TypeOK
  <2> QED
    BY <1>12, <2>3 DEF TypeOK, DeleteObject
<1>13. ASSUME NEW w \in Workers, NEW k \in Keys, DeleteFails(w, k) PROVE TypeOK'
  <2>1. wk[w] \in WorkerRecord /\ wk[w].failed \cup {k} \in SUBSET Keys
    BY WorkerUpdates DEF TypeOK
  <2>2. wk' = [wk EXCEPT ![w] = [wk[w] EXCEPT !.failed = wk[w].failed \cup {k}]]
    BY <1>13 DEF DeleteFails, TypeOK
  <2>3. wk' \in [Workers -> WorkerRecord]
    BY <2>1, <2>2, WorkerUpdates DEF TypeOK
  <2> QED
    BY <1>13, <2>3 DEF TypeOK, DeleteFails
<1>14. ASSUME NEW w \in Workers, Reconcile(w) PROVE TypeOK'
  BY <1>14, WorkerUpdates DEF TypeOK, Reconcile
<1>15. ASSUME NEW w \in Workers, CommitPass(w) PROVE TypeOK'
  <2>1. wk' \in [Workers -> WorkerRecord]
    BY <1>15 DEF TypeOK, CommitPass, WorkerRecord, IdleWorker, Worker
  <2> QED
    BY <1>15, <2>1 DEF TypeOK, CommitPass, StatusSeen, Statuses, RowStates
<1>16. ASSUME NEW w \in Workers, CrashPass(w) PROVE TypeOK'
  BY <1>16 DEF TypeOK, CrashPass, WorkerRecord, IdleWorker, Worker
<1>17. ASSUME NEW k \in Keys, BackoffElapses(k) PROVE TypeOK'
  BY <1>17 DEF TypeOK, BackoffElapses
<1>18. CASE UNCHANGED vars
  BY <1>18 DEF TypeOK, vars
<1> QED
  BY StepCases, <1>1, <1>2, <1>3, <1>4, <1>5, <1>6, <1>7, <1>8, <1>9, <1>10, <1>11, <1>12, <1>13,
     <1>14, <1>15, <1>16, <1>17, <1>18
  DEF CreateSong, ReserveAsset, ReservePhrase, Keys

\* The rows, tasks, requests, handlers and workers always have their types.
THEOREM TypeCorrect == Spec => []TypeOK
  BY TypeInit, TypeStep, PTL DEF Spec
-----------------------------------------------------------------------------
(* The inductive invariant.                                                *)

\* Who names what.  A named row is live and has no task; a row that lost its key
\* has one; a live row stands under a live song; a task belongs to a request.
RowInv ==
  /\ \A k \in Keys :
       /\ (row[k] = "absent") => (task[k] = "none" /\ ~named[k] /\ k \notin objects)
       /\ named[k] => (row[k] = "live" /\ task[k] = "none")
       /\ (row[k] # "absent" /\ ~named[k]) => (task[k] # "none")
       /\ (row[k] = "live") => (row[SongOf[k]] = "live")
       /\ (row[k] = "live" /\ k \notin Phrases) => named[k]
       /\ (row[k] = "purged") => (request[SongOf[k]] = "COMPLETED")
       /\ (task[k] # "none") => (/\ taskOf[k] = SongOf[k] \/ (k \in Phrases /\ taskOf[k] = k)
                                /\ request[taskOf[k]] # "none")
  /\ \A s \in Songs : (request[s] = "none") <=> (row[s] \in {"absent", "live"})
  /\ \A p \in Phrases :
       /\ (request[p] # "none") => (row[p] # "absent" /\ ~named[p])
       /\ (request[p] = "none" /\ row[p] = "live") => named[p]

\* A handler only ever works on a row that exists, and while it holds the lock of
\* a tracked row that row keeps its key.
LockInv ==
  \A h \in Handlers :
    /\ (up[h].pc # "idle") => (row[up[h].key] # "absent")
    /\ (HoldsRow(h) /\ up[h].key \in Tracked) => named[up[h].key]

\* Erased content does not come back.
EraseInv == \A k \in Tracked : (task[k] = "COMPLETED") => (k \notin objects)

\* What a maintenance pass knows stays true until it commits: its tasks are still
\* pending and its own, what it deleted is still gone, and the requests it
\* decided on are still its own and still deserve the verdict.
PassInv ==
  /\ \A w \in Workers :
       /\ \A k \in wk[w].batch : task[k] = "PENDING"
       /\ wk[w].deleted \subseteq wk[w].batch
       /\ wk[w].failed \subseteq wk[w].batch
       /\ \A k \in wk[w].deleted \cap Tracked : k \notin objects
       /\ \A r \in wk[w].held : request[r] = "PENDING"
       /\ wk[w].complete \subseteq wk[w].held
       /\ wk[w].dead \subseteq wk[w].held
       /\ \A r \in wk[w].complete : AllDone(w, r)
       /\ \A r \in wk[w].dead : AnyDead(w, r)
       /\ (wk[w].pc # "reconciled") => (wk[w].held = {})
  /\ \A v, w \in Workers : v # w => (/\ wk[v].batch \cap wk[w].batch = {}
                                    /\ wk[v].held \cap wk[w].held = {})

\* Verdicts agree with the tasks they are about.
VerdictInv ==
  \A r \in Resources :
    /\ (request[r] = "COMPLETED") => (\A k \in TasksOf(r) : task[k] = "COMPLETED")
    /\ (request[r] = "FAILED") => (\E k \in TasksOf(r) : task[k] = "FAILED")

IInv == TypeOK /\ RowInv /\ LockInv /\ EraseInv /\ PassInv /\ VerdictInv
-----------------------------------------------------------------------------
LEMMA InvInit == Init => IInv
<1> SUFFICES ASSUME Init PROVE IInv
  OBVIOUS
<1> USE KeyAssumption DEF Init
<1>1. TypeOK
  BY TypeInit
<1>2. RowInv
  BY DEF RowInv, Keys, Resources
<1>3. LockInv
  BY DEF LockInv, HoldsRow, IdleHandler, Handler
<1>4. EraseInv
  BY DEF EraseInv, Tracked, Keys
<1>5. PassInv
  BY DEF PassInv, IdleWorker, Worker
<1>6. VerdictInv
  BY DEF VerdictInv
<1> QED
  BY <1>1, <1>2, <1>3, <1>4, <1>5, <1>6 DEF IInv

LEMMA TrackedKeys == Tracked \subseteq Keys
  BY DEF Tracked, Keys

\* A step that leaves the deletion queue and the workers alone keeps verdicts and
\* pass results as they were, if it brings no object back.
LEMMA QueueUntouched ==
  ASSUME IInv, UNCHANGED <<queueVars, wk>>,
         \A k \in Tracked : task[k] # "none" => (k \in objects' => k \in objects)
  PROVE  EraseInv' /\ PassInv' /\ VerdictInv'
<1> USE DEF queueVars
<1>1. EraseInv'
  BY DEF IInv, EraseInv, Tracked
<1>2. \A r : TasksOf(r)' = TasksOf(r)
  BY DEF TasksOf
<1>3. \A w, r : AllDone(w, r)' = AllDone(w, r) /\ AnyDead(w, r)' = AnyDead(w, r)
  BY <1>2 DEF AllDone, AnyDead, StatusSeen
<1>4. PassInv'
  BY <1>3, TrackedKeys DEF IInv, PassInv, TypeOK
<1>5. VerdictInv'
  BY <1>2 DEF IInv, VerdictInv
<1> QED
  BY <1>1, <1>4, <1>5

LEMMA InsertKeepsInv ==
  ASSUME IInv, NEW k \in Keys, Insert(k), k \in Songs \/ row[SongOf[k]] = "live", TypeOK'
  PROVE  IInv'
<1> USE KeyAssumption DEF Insert, rowVars, queueVars
<1>1. RowInv'
  BY DEF IInv, RowInv, TypeOK, Keys, Resources
<1>2. LockInv'
  BY BusyHandler DEF IInv, LockInv, TypeOK, HoldsRow, Tracked
<1> QED
  BY <1>1, <1>2, QueueUntouched DEF IInv

LEMMA HandlerStepKeepsInv ==
  ASSUME IInv, NEW h \in Handlers, TypeOK',
         \/ \E k \in Keys : PreRead(h, k)
         \/ EnterService(h) \/ LockRow(h) \/ PutObject(h) \/ CommitUpload(h) \/ EndUpload(h)
  PROVE  IInv'
<1> USE KeyAssumption, BoundAssumption DEF rowVars, queueVars
<1> USE DEF IInv
<1>1. ASSUME NEW k \in Keys, PreRead(h, k) PROVE IInv'
  <2>1. RowInv'
    BY <1>1 DEF PreRead, RowInv
  <2>2. LockInv'
    BY <1>1 DEF PreRead, LockInv, HoldsRow, Handler, TypeOK
  <2> QED
    BY <1>1, <2>1, <2>2, QueueUntouched DEF PreRead
<1>2. CASE EnterService(h)
  <2>1. RowInv'
    BY <1>2 DEF EnterService, RowInv
  <2>2. up'[h].key = up[h].key /\ up'[h].pc = "entered" /\ \A g \in Handlers \ {h} : up'[g] = up[g]
    BY <1>2, BusyHandler DEF EnterService, TypeOK
  <2>3. LockInv'
    <3>1. row' = row /\ named' = named /\ up[h].pc # "idle"
      BY <1>2 DEF EnterService
    <3> QED
      BY <2>2, <3>1 DEF LockInv, HoldsRow
  <2> QED
    BY <1>2, <2>1, <2>3, QueueUntouched DEF EnterService
<1>3. CASE LockRow(h)
  <2> DEFINE k == up[h].key
  <2>0. k \in Keys /\ row[k] = "live"
    BY <1>3, BusyHandler DEF LockRow
  <2>1. RowInv'
    BY <1>3 DEF LockRow, RowInv
  <2>2. up'[h].key = k /\ \A g \in Handlers \ {h} : up'[g] = up[g]
    BY <1>3, BusyHandler DEF LockRow, TypeOK
  <2>3. k \in Tracked => named[k]
    BY <2>0 DEF Tracked, RowInv
  <2>4. LockInv'
    <3>1. row' = row /\ named' = named
      BY <1>3 DEF LockRow
    <3> HIDE DEF k
    <3>2. ASSUME NEW g \in Handlers \ {h}
          PROVE  /\ (up'[g].pc # "idle") => (row'[up'[g].key] # "absent")
                 /\ (HoldsRow(g)' /\ up'[g].key \in Tracked) => named'[up'[g].key]
      BY <2>2, <3>1 DEF LockInv, HoldsRow
    <3>3. row'[up'[h].key] # "absent" /\ (up'[h].key \in Tracked => named'[up'[h].key])
      BY <2>0, <2>2, <2>3, <3>1
    <3> QED
      BY <3>2, <3>3 DEF LockInv, HoldsRow, Tracked
  <2> QED
    BY <1>3, <2>1, <2>4, QueueUntouched DEF LockRow
<1>4. CASE PutObject(h)
  <2> DEFINE k == up[h].key
  <2>0. k \in Keys /\ row[k] # "absent" /\ (k \in Tracked => task[k] = "none")
    BY <1>4, BusyHandler DEF PutObject, LockInv, HoldsRow, RowInv
  <2>1. RowInv'
    BY <1>4, <2>0 DEF PutObject, RowInv
  <2>2. up'[h].key = k /\ up'[h].pc = "put" /\ \A g \in Handlers \ {h} : up'[g] = up[g]
    BY <1>4, BusyHandler DEF PutObject, TypeOK
  <2>3. LockInv'
    BY <1>4, <2>2 DEF PutObject, LockInv, HoldsRow
  <2> QED
    BY <1>4, <2>0, <2>1, <2>3, QueueUntouched DEF PutObject
<1>5. CASE CommitUpload(h) \/ EndUpload(h)
  <2>1. RowInv'
    BY <1>5 DEF CommitUpload, EndUpload, RowInv
  <2>2. LockInv'
    BY <1>5 DEF CommitUpload, EndUpload, LockInv, HoldsRow, IdleHandler, Handler, TypeOK
  <2> QED
    BY <1>5, <2>1, <2>2, QueueUntouched DEF CommitUpload, EndUpload
<1> QED
  BY <1>1, <1>2, <1>3, <1>4, <1>5

LEMMA QuietStepKeepsInv ==
  ASSUME IInv, TypeOK',
         \/ \E p \in Phrases : ReservationExpires(p)
         \/ \E k \in Keys : BackoffElapses(k)
         \/ UNCHANGED vars
  PROVE  IInv'
<1> USE DEF rowVars, queueVars, vars, ReservationExpires, BackoffElapses
<1>1. UNCHANGED <<row, named, objects, task, taskOf, attempts, request, up, wk>>
  OBVIOUS
<1>2. RowInv' /\ LockInv' /\ EraseInv'
  BY <1>1 DEF IInv, RowInv, LockInv, HoldsRow, EraseInv
<1>3. \A r : TasksOf(r)' = TasksOf(r)
  BY <1>1 DEF TasksOf
<1>4. \A w, r : AllDone(w, r)' = AllDone(w, r) /\ AnyDead(w, r)' = AnyDead(w, r)
  BY <1>1, <1>3 DEF AllDone, AnyDead, StatusSeen
<1>5. PassInv' /\ VerdictInv'
  BY <1>1, <1>3, <1>4 DEF IInv, PassInv, VerdictInv
<1> QED
  BY <1>2, <1>5 DEF IInv

LEMMA RequestDeletionKeepsInv ==
  ASSUME IInv, TypeOK', NEW s \in Songs, RequestSongDeletion(s)
  PROVE  IInv'
<1> USE KeyAssumption DEF IInv
<1> DEFINE rows == {k \in RowsOf(s) : row[k] = "live"}
<1>0. /\ rows \subseteq Keys /\ s \in Keys /\ s \in Resources
      /\ \A k \in rows : SongOf[k] = s /\ row[k] = "live" /\ ~Locked(k)
      /\ \A k \in Keys : row[k] = "live" /\ SongOf[k] = s => k \in rows
      /\ request[s] = "none" /\ s \in rows
  BY DEF RequestSongDeletion, RowsOf, Keys, Resources
<1>1. /\ state' = [k \in Keys |-> IF k \in rows THEN "DELETED" ELSE state[k]]
      /\ named' = [k \in Keys |-> named[k] /\ k \notin rows]
      /\ row' = [k \in Keys |-> IF k \in rows THEN "tombstoned" ELSE row[k]]
      /\ task' = [k \in Keys |-> IF k \in rows /\ named[k] THEN "PENDING" ELSE task[k]]
      /\ taskOf' = [k \in Keys |-> IF k \in rows /\ named[k] THEN SongOf[k] ELSE taskOf[k]]
      /\ request' = [request EXCEPT ![s] = "PENDING"]
      /\ UNCHANGED <<expired, objects, attempts, up, wk, crashes>>
  BY DEF RequestSongDeletion, Tombstone, AddTasks
<1> HIDE DEF rows
<1>2. RowInv'
  <2>1. \A k \in Keys : SongOf[k] \in Songs /\ SongOf[k] \in Keys /\ SongOf[SongOf[k]] = SongOf[k]
    BY DEF Keys
  <2>2. \A k \in Keys : k \in rows => named'[k] = FALSE /\ row'[k] = "tombstoned" /\ task'[k] # "none"
    BY <1>0, <1>1 DEF RowInv, TypeOK
  <2>3. \A k \in Keys : k \notin rows => named'[k] = named[k] /\ row'[k] = row[k] /\ task'[k] = task[k]
                                        /\ taskOf'[k] = taskOf[k]
    BY <1>1 DEF TypeOK
  <2>4. \A r \in Resources : request[r] # "none" => request'[r] # "none"
    BY <1>1 DEF TypeOK
  <2>5. ASSUME NEW k \in Keys
        PROVE  /\ (row[k] = "absent") => (task[k] = "none" /\ ~named[k] /\ k \notin objects)
               /\ named[k] => (row[k] = "live" /\ task[k] = "none")
               /\ (row[k] # "absent" /\ ~named[k]) => (task[k] # "none")
               /\ (row[k] = "live") => (row[SongOf[k]] = "live")
               /\ (row[k] = "live" /\ k \notin Phrases) => named[k]
    BY DEF RowInv
  <2>6. ASSUME NEW k \in Keys
        PROVE  /\ (row'[k] = "absent") => (task'[k] = "none" /\ ~named'[k] /\ k \notin objects')
               /\ named'[k] => (row'[k] = "live" /\ task'[k] = "none")
               /\ (row'[k] # "absent" /\ ~named'[k]) => (task'[k] # "none")
               /\ (row'[k] = "live") => (row'[SongOf[k]] = "live")
               /\ (row'[k] = "live" /\ k \notin Phrases) => named'[k]
    BY <1>0, <1>1, <2>1, <2>2, <2>3, <2>5
  <2>7. ASSUME NEW k \in Keys, row'[k] = "purged" PROVE request'[SongOf[k]] = "COMPLETED"
    BY <1>0, <1>1, <2>1, <2>2, <2>3, <2>7 DEF RowInv, TypeOK
  <2>8. ASSUME NEW k \in Keys, task'[k] # "none"
        PROVE  /\ taskOf'[k] = SongOf[k] \/ (k \in Phrases /\ taskOf'[k] = k)
               /\ request'[taskOf'[k]] # "none"
    <3>1. CASE k \in rows /\ named[k]
      BY <1>0, <1>1, <3>1 DEF TypeOK, Resources
    <3>2. CASE ~(k \in rows /\ named[k])
      <4>1. task'[k] = task[k] /\ taskOf'[k] = taskOf[k]
        BY <1>1, <3>2
      <4> QED
        BY <2>4, <2>8, <4>1 DEF RowInv, TypeOK
    <3> QED
      BY <3>1, <3>2
  <2>9. ASSUME NEW t \in Songs PROVE (request'[t] = "none") <=> (row'[t] \in {"absent", "live"})
    BY <1>0, <1>1, <2>1, <2>2, <2>3 DEF RowInv, TypeOK, Keys, Resources
  <2>10. ASSUME NEW p \in Phrases
         PROVE  /\ (request'[p] # "none") => (row'[p] # "absent" /\ ~named'[p])
                /\ (request'[p] = "none" /\ row'[p] = "live") => named'[p]
    BY <1>0, <1>1, <2>2, <2>3 DEF RowInv, TypeOK, Keys, Resources
  <2> QED
    BY <2>6, <2>7, <2>8, <2>9, <2>10 DEF RowInv
<1>3. LockInv'
  <2> SUFFICES ASSUME NEW h \in Handlers, up[h].pc # "idle"
               PROVE  /\ row'[up[h].key] # "absent"
                      /\ (HoldsRow(h) /\ up[h].key \in Tracked) => named'[up[h].key]
    BY <1>1 DEF LockInv, HoldsRow
  <2>1. up[h].key \in Keys
    BY BusyHandler
  <2>2. HoldsRow(h) => up[h].key \notin rows
    BY <1>0 DEF Locked
  <2> QED
    BY <1>1, <2>1, <2>2 DEF LockInv, TypeOK
<1>4. \A k \in Keys : task[k] # "none" => task'[k] = task[k] /\ taskOf'[k] = taskOf[k]
  BY <1>1 DEF RowInv, TypeOK
<1>5. \A r \in Resources : request[r] # "none" => TasksOf(r)' = TasksOf(r) /\ request'[r] = request[r]
  BY <1>0, <1>1, <1>4 DEF TasksOf, RowInv, TypeOK
<1>6. EraseInv'
  BY <1>1, TrackedKeys DEF EraseInv, TypeOK
<1>7. VerdictInv'
  <2> SUFFICES ASSUME NEW r \in Resources, request'[r] \in {"COMPLETED", "FAILED"}
               PROVE  /\ (request'[r] = "COMPLETED") => (\A k \in TasksOf(r)' : task'[k] = "COMPLETED")
                      /\ (request'[r] = "FAILED") => (\E k \in TasksOf(r)' : task'[k] = "FAILED")
    BY DEF VerdictInv
  <2>1. request'[r] = request[r] /\ TasksOf(r)' = TasksOf(r)
    BY <1>0, <1>1, <1>5 DEF TypeOK
  <2>2. \A k \in TasksOf(r) : task'[k] = task[k]
    BY <1>4 DEF TasksOf
  <2> QED
    BY <2>1, <2>2 DEF VerdictInv
<1>8. PassInv'
  <2>1. \A w \in Workers : \A k \in Keys : task[k] # "none" => StatusSeen(w, k)' = StatusSeen(w, k)
    BY <1>1, <1>4 DEF StatusSeen
  <2>2. \A w \in Workers : \A r \in wk[w].held :
          (AllDone(w, r) => AllDone(w, r)') /\ (AnyDead(w, r) => AnyDead(w, r)')
    BY <1>5, <2>1 DEF AllDone, AnyDead, PassInv, TasksOf, TypeOK, WorkerRecord
  <2> QED
    BY <1>0, <1>1, <1>4, <1>5, <2>2 DEF PassInv, TypeOK, WorkerRecord
<1> QED
  BY <1>2, <1>3, <1>6, <1>7, <1>8

LEMMA ExpireKeepsInv ==
  ASSUME IInv, TypeOK', NEW v \in Workers, ExpireRawAudio(v)
  PROVE  IInv'
<1> USE KeyAssumption DEF IInv
<1> DEFINE E == Expirable
<1>0. /\ E \subseteq Phrases /\ E \subseteq Keys /\ E \subseteq Resources
      /\ \A p \in E : row[p] = "live" /\ request[p] = "none" /\ named[p] /\ ~Locked(p)
      /\ \A p \in E : task[p] = "none" /\ TasksOf(p) = {}
  BY DEF Expirable, Keys, Resources, RowInv, TasksOf
<1>1. /\ named' = [k \in Keys |-> named[k] /\ k \notin E]
      /\ task' = [k \in Keys |-> IF k \in E THEN "PENDING" ELSE task[k]]
      /\ taskOf' = [k \in Keys |-> IF k \in E THEN k ELSE taskOf[k]]
      /\ request' = [r \in Resources |-> IF r \in E THEN "PENDING" ELSE request[r]]
      /\ UNCHANGED <<row, expired, objects, attempts, up, crashes>>
  BY <1>0 DEF ExpireRawAudio, Tombstone, AddTasks
<1>2. /\ wk[v].pc = "idle" /\ wk' = [wk EXCEPT ![v].pc = "claiming"]
      /\ wk[v].held = {}
      /\ \A w \in Workers : /\ wk'[w].batch = wk[w].batch /\ wk'[w].deleted = wk[w].deleted
                             /\ wk'[w].failed = wk[w].failed /\ wk'[w].held = wk[w].held
                             /\ wk'[w].complete = wk[w].complete /\ wk'[w].dead = wk[w].dead
                             /\ (wk'[w].pc = "reconciled") <=> (wk[w].pc = "reconciled")
  BY DEF ExpireRawAudio, PassInv, TypeOK, WorkerRecord
<1> HIDE DEF E
<1>3. RowInv'
  <2>0. \A k \in Keys : /\ ~(named'[k] /\ k \in E)
                        /\ k \notin E => named'[k] = named[k]
    BY <1>1 DEF TypeOK
  <2>1. \A k \in Keys : /\ k \in E => (~named'[k] /\ task'[k] = "PENDING" /\ taskOf'[k] = k
                                      /\ request'[k] = "PENDING" /\ k \in Phrases)
                        /\ k \notin E => (named'[k] = named[k] /\ task'[k] = task[k] /\ taskOf'[k] = taskOf[k])
    <3> HIDE DEF IInv
    <3> QED BY <1>0, <1>1, <2>0
  <2>2. \A r \in Resources : /\ r \notin E => request'[r] = request[r]
                             /\ request[r] # "none" => request'[r] = request[r]
    BY <1>0, <1>1
  <2>3. \A s \in Songs : s \in Resources /\ s \notin E
    BY <1>0 DEF Resources
  <2>4. \A k \in Keys : SongOf[k] \in Songs
    BY DEF Keys
  <2>5. \A k \in Keys : taskOf[k] \in Resources
    BY DEF TypeOK
  <2>6. ASSUME NEW k \in Keys
        PROVE  /\ (row'[k] = "absent") => (task'[k] = "none" /\ ~named'[k] /\ k \notin objects')
               /\ named'[k] => (row'[k] = "live" /\ task'[k] = "none")
               /\ (row'[k] # "absent" /\ ~named'[k]) => (task'[k] # "none")
               /\ (row'[k] = "live") => (row'[SongOf[k]] = "live")
               /\ (row'[k] = "live" /\ k \notin Phrases) => named'[k]
               /\ (row'[k] = "purged") => (request'[SongOf[k]] = "COMPLETED")
    BY <1>0, <1>1, <2>1, <2>2, <2>3, <2>4 DEF RowInv
  <2>7. ASSUME NEW k \in Keys, task'[k] # "none"
        PROVE  /\ taskOf'[k] = SongOf[k] \/ (k \in Phrases /\ taskOf'[k] = k)
               /\ request'[taskOf'[k]] # "none"
    BY <2>1, <2>2, <2>5, <2>7 DEF RowInv
  <2>8. ASSUME NEW s \in Songs PROVE (request'[s] = "none") <=> (row'[s] \in {"absent", "live"})
    BY <1>1, <2>2, <2>3 DEF RowInv
  <2>9. ASSUME NEW p \in Phrases
        PROVE  /\ (request'[p] # "none") => (row'[p] # "absent" /\ ~named'[p])
               /\ (request'[p] = "none" /\ row'[p] = "live") => named'[p]
    BY <1>0, <1>1, <2>1, <2>2 DEF RowInv, Keys, Resources
  <2> QED
    BY <2>6, <2>7, <2>8, <2>9 DEF RowInv
<1>4. LockInv'
  <2> SUFFICES ASSUME NEW h \in Handlers, up[h].pc # "idle"
               PROVE  (HoldsRow(h) /\ up[h].key \in Tracked) => named'[up[h].key]
    BY <1>1 DEF LockInv, HoldsRow
  <2>1. up[h].key \in Keys
    BY BusyHandler
  <2>2. HoldsRow(h) => up[h].key \notin E
    BY <1>0 DEF Locked
  <2> QED
    BY <1>1, <2>1, <2>2 DEF LockInv, TypeOK
<1>5. \A k \in Keys : task[k] # "none" => task'[k] = task[k] /\ taskOf'[k] = taskOf[k]
  BY <1>0, <1>1 DEF TypeOK
<1>6. \A r \in Resources : request[r] # "none" => TasksOf(r)' = TasksOf(r) /\ request'[r] = request[r]
  BY <1>0, <1>1, <1>5 DEF TasksOf, TypeOK
<1>7. EraseInv'
  BY <1>1, TrackedKeys DEF EraseInv, TypeOK
<1>8. VerdictInv'
  BY <1>0, <1>1, <1>5, <1>6 DEF VerdictInv, TypeOK, TasksOf
<1>9. PassInv'
  <2>1. \A w \in Workers : \A k \in Keys : task[k] # "none" => StatusSeen(w, k)' = StatusSeen(w, k)
    <3> SUFFICES ASSUME NEW w \in Workers, NEW k \in Keys, task[k] # "none"
                 PROVE  StatusSeen(w, k)' = StatusSeen(w, k)
      OBVIOUS
    <3>1. /\ wk'[w].deleted = wk[w].deleted /\ wk'[w].failed = wk[w].failed
          /\ attempts' = attempts /\ task'[k] = task[k]
      BY <1>1, <1>2, <1>5
    <3> QED
      BY <3>1 DEF StatusSeen
  <2>2. \A w \in Workers : \A r \in wk[w].held :
          (AllDone(w, r) => AllDone(w, r)') /\ (AnyDead(w, r) => AnyDead(w, r)')
    <3> SUFFICES ASSUME NEW w \in Workers, NEW r \in wk[w].held
                 PROVE  (AllDone(w, r) => AllDone(w, r)') /\ (AnyDead(w, r) => AnyDead(w, r)')
      OBVIOUS
    <3>1. request[r] = "PENDING" /\ r \in Resources
      BY DEF PassInv, TypeOK, WorkerRecord
    <3>2. TasksOf(r)' = TasksOf(r)
      BY <1>6, <3>1
    <3>3. \A k \in TasksOf(r) : StatusSeen(w, k)' = StatusSeen(w, k)
      BY <2>1 DEF TasksOf
    <3> QED
      BY <3>2, <3>3 DEF AllDone, AnyDead
  <2> QED
    BY <1>0, <1>1, <1>2, <1>5, <1>6, <2>2 DEF PassInv, TypeOK, WorkerRecord
<1> QED
  BY <1>3, <1>4, <1>7, <1>8, <1>9

\* Steps of a worker that change only its own record, and perhaps remove an object.
LEMMA WorkerRecordStep ==
  ASSUME IInv, TypeOK', NEW v \in Workers,
         UNCHANGED <<rowVars, queueVars, up>>, objects' \subseteq objects,
         \A w \in Workers \ {v} : wk'[w] = wk[w],
         \A k \in wk'[v].batch : task[k] = "PENDING",
         \A w \in Workers \ {v} : wk'[v].batch \cap wk[w].batch = {},
         \A w \in Workers \ {v} : wk'[v].held \cap wk[w].held = {},
         wk'[v].deleted \subseteq wk'[v].batch, wk'[v].failed \subseteq wk'[v].batch,
         \A k \in wk'[v].deleted \cap Tracked : k \notin objects',
         \A r \in wk'[v].held : request[r] = "PENDING",
         wk'[v].complete \subseteq wk'[v].held, wk'[v].dead \subseteq wk'[v].held,
         \A r \in wk'[v].complete : AllDone(v, r)',
         \A r \in wk'[v].dead : AnyDead(v, r)',
         (wk'[v].pc # "reconciled") => (wk'[v].held = {})
  PROVE  IInv'
<1> USE DEF IInv, rowVars, queueVars
<1>1. RowInv' /\ LockInv'
  BY DEF RowInv, LockInv, HoldsRow
<1>2. EraseInv'
  BY DEF EraseInv
<1>3. \A r : TasksOf(r)' = TasksOf(r)
  BY DEF TasksOf
<1>4. VerdictInv'
  BY <1>3 DEF VerdictInv
<1>5. \A w \in Workers \ {v} : \A k : StatusSeen(w, k)' = StatusSeen(w, k)
  BY DEF StatusSeen
<1>6. \A w \in Workers \ {v} : \A r : AllDone(w, r)' = AllDone(w, r) /\ AnyDead(w, r)' = AnyDead(w, r)
  BY <1>3, <1>5 DEF AllDone, AnyDead
<1>7. PassInv'
  BY <1>6 DEF PassInv
<1> QED
  BY <1>1, <1>2, <1>4, <1>7

LEMMA PassStepKeepsInv ==
  ASSUME IInv, TypeOK', NEW v \in Workers,
         \/ ClaimTasks(v) \/ Reconcile(v) \/ CrashPass(v)
         \/ \E k \in Keys : DeleteObject(v, k) \/ DeleteFails(v, k)
  PROVE  IInv'
<1> USE DEF rowVars, queueVars
<1>0. /\ wk \in [Workers -> WorkerRecord] /\ \A w \in Workers \ {v} : wk'[w] = wk[w]
      /\ wk[v].held \subseteq Resources
  BY DEF IInv, TypeOK, WorkerRecord, ClaimTasks, Reconcile, CrashPass, DeleteObject, DeleteFails
<1>1. CASE ClaimTasks(v)
  <2>1. wk'[v] = Worker("deleting", {k \in Keys : task[k] = "PENDING" /\ due[k] /\ ~Claimed(k)},
                        {}, {}, {}, {}, {})
    BY <1>0, <1>1 DEF ClaimTasks
  <2>2. /\ wk'[v].batch = {k \in Keys : task[k] = "PENDING" /\ due[k] /\ ~Claimed(k)}
        /\ wk'[v].deleted = {} /\ wk'[v].failed = {} /\ wk'[v].held = {}
        /\ wk'[v].complete = {} /\ wk'[v].dead = {}
    BY <2>1 DEF Worker
  <2>3. \A w \in Workers \ {v} : wk'[v].batch \cap wk[w].batch = {}
    BY <2>2 DEF Claimed
  <2>4. UNCHANGED <<rowVars, queueVars, up, objects>>
    BY <1>1 DEF ClaimTasks
  <2> QED
    BY <1>0, <2>2, <2>3, <2>4, WorkerRecordStep
<1>2. CASE CrashPass(v)
  <2>1. /\ wk'[v].batch = {} /\ wk'[v].deleted = {} /\ wk'[v].failed = {} /\ wk'[v].held = {}
        /\ wk'[v].complete = {} /\ wk'[v].dead = {}
    BY <1>0, <1>2 DEF CrashPass, IdleWorker, Worker
  <2>2. UNCHANGED <<rowVars, queueVars, up, objects>>
    BY <1>2 DEF CrashPass
  <2> QED
    BY <1>0, <2>1, <2>2, WorkerRecordStep
<1>3. ASSUME NEW k \in Keys, DeleteObject(v, k) PROVE IInv'
  <2>1. /\ wk'[v].batch = wk[v].batch /\ wk'[v].deleted = wk[v].deleted \cup {k}
        /\ wk'[v].failed = wk[v].failed /\ wk'[v].held = wk[v].held
        /\ wk'[v].complete = wk[v].complete /\ wk'[v].dead = wk[v].dead
        /\ wk[v].pc = "deleting" /\ wk'[v].pc = "deleting" /\ k \in wk[v].batch
    BY <1>0, <1>3 DEF DeleteObject, Remaining, WorkerRecord
  <2>2. wk[v].held = {} /\ wk[v].complete = {} /\ wk[v].dead = {}
    BY <2>1 DEF IInv, PassInv
  <2>3. UNCHANGED <<rowVars, queueVars, up>> /\ objects' = objects \ {k}
    BY <1>3 DEF DeleteObject
  <2> QED
    BY <1>0, <2>1, <2>2, <2>3, WorkerRecordStep DEF IInv, PassInv
<1>4. ASSUME NEW k \in Keys, DeleteFails(v, k) PROVE IInv'
  <2>1. /\ wk'[v].batch = wk[v].batch /\ wk'[v].failed = wk[v].failed \cup {k}
        /\ wk'[v].deleted = wk[v].deleted /\ wk'[v].held = wk[v].held
        /\ wk'[v].complete = wk[v].complete /\ wk'[v].dead = wk[v].dead
        /\ wk[v].pc = "deleting" /\ wk'[v].pc = "deleting" /\ k \in wk[v].batch
    BY <1>0, <1>4 DEF DeleteFails, Remaining, WorkerRecord
  <2>2. wk[v].held = {} /\ wk[v].complete = {} /\ wk[v].dead = {}
    BY <2>1 DEF IInv, PassInv
  <2>3. UNCHANGED <<rowVars, queueVars, up, objects>>
    BY <1>4 DEF DeleteFails
  <2> QED
    BY <1>0, <2>1, <2>2, <2>3, WorkerRecordStep DEF IInv, PassInv
<1>5. CASE Reconcile(v)
  <2> DEFINE free == {r \in Resources : request[r] = "PENDING" /\ ~Held(r)}
  <2>1. /\ wk'[v].batch = wk[v].batch /\ wk'[v].failed = wk[v].failed
        /\ wk'[v].deleted = wk[v].deleted /\ wk'[v].held = free
        /\ wk'[v].complete = {r \in free : AllDone(v, r)}
        /\ wk'[v].dead = {r \in free : AnyDead(v, r)}
        /\ wk'[v].pc = "reconciled"
    BY <1>0, <1>5 DEF Reconcile, WorkerRecord
  <2>2. UNCHANGED <<rowVars, queueVars, up, objects>>
    BY <1>5 DEF Reconcile
  <2>3. \A k : StatusSeen(v, k)' = StatusSeen(v, k) /\ \A r : TasksOf(r)' = TasksOf(r)
    BY <2>1, <2>2 DEF StatusSeen, TasksOf
  <2>4. \A r : AllDone(v, r)' = AllDone(v, r) /\ AnyDead(v, r)' = AnyDead(v, r)
    BY <2>3 DEF AllDone, AnyDead
  <2>5. \A w \in Workers \ {v} : free \cap wk[w].held = {}
    BY DEF Held
  <2> QED
    BY <1>0, <2>1, <2>2, <2>4, <2>5, WorkerRecordStep DEF IInv, PassInv
<1> QED
  BY <1>1, <1>2, <1>3, <1>4, <1>5

LEMMA CommitPassKeepsInv ==
  ASSUME IInv, TypeOK', NEW v \in Workers, CommitPass(v)
  PROVE  IInv'
<1> USE KeyAssumption, BoundAssumption
<1> DEFINE C == wk[v].complete
           D == wk[v].dead
           del == wk[v].deleted
           bad == wk[v].failed
<1>0. /\ wk[v] \in WorkerRecord /\ C \subseteq Resources /\ D \subseteq Resources
      /\ del \subseteq Keys /\ bad \subseteq Keys
      /\ \A r \in C \cup D : request[r] = "PENDING" /\ \A w \in Workers \ {v} : r \notin wk[w].held
      /\ \A k \in wk[v].batch : task[k] = "PENDING" /\ \A w \in Workers \ {v} : k \notin wk[w].batch
      /\ del \subseteq wk[v].batch /\ bad \subseteq wk[v].batch
      /\ \A k \in del \cap Tracked : k \notin objects
  BY DEF IInv, TypeOK, WorkerRecord, PassInv
<1>1. /\ task' = [k \in Keys |-> StatusSeen(v, k)]
      /\ attempts' = [k \in Keys |-> IF k \in bad THEN attempts[k] + 1 ELSE attempts[k]]
      /\ row' = [k \in Keys |-> IF SongOf[k] \in C /\ row[k] # "absent" THEN "purged" ELSE row[k]]
      /\ request' = [r \in Resources |-> IF r \in C THEN "COMPLETED"
                                         ELSE IF r \in D THEN "FAILED" ELSE request[r]]
      /\ wk' = [wk EXCEPT ![v] = IdleWorker]
      /\ UNCHANGED <<state, named, expired, objects, taskOf, up, crashes>>
  BY DEF CommitPass, Purged, IInv, TypeOK
<1> HIDE DEF C, D, del, bad
<1>2. \A k \in Keys : /\ task[k] # "PENDING" => task'[k] = task[k]
                      /\ task[k] = "PENDING" => task'[k] # "none"
                      /\ k \notin wk[v].batch => task'[k] = task[k] /\ attempts'[k] = attempts[k]
                      /\ task'[k] = "COMPLETED" => k \in del \/ task[k] = "COMPLETED"
  BY <1>0, <1>1 DEF StatusSeen, del, bad
<1>3. \A r : TasksOf(r)' = TasksOf(r)
  BY <1>1, <1>2 DEF TasksOf
<1>4. \A r \in Resources : /\ request[r] # "PENDING" => request'[r] = request[r]
                           /\ request[r] = "PENDING" => request'[r] # "none"
                           /\ r \notin C \cup D => request'[r] = request[r]
                           /\ r \in C => request'[r] = "COMPLETED"
  BY <1>0, <1>1
<1>5. \A k \in Keys : SongOf[k] \in Songs /\ SongOf[k] \in Keys /\ SongOf[k] \in Resources
                     /\ SongOf[SongOf[k]] = SongOf[k]
  BY DEF Keys, Resources
<1>6. \A k \in Keys : (SongOf[k] \in C) => (row[k] # "live")
  BY <1>0, <1>5 DEF IInv, RowInv
<1>7. \A k \in Keys : /\ row'[k] = "purged" => row[k] = "purged" \/ SongOf[k] \in C
                      /\ row'[k] # "purged" => row'[k] = row[k]
                      /\ row[k] = "live" => row'[k] = "live"
                      /\ row[k] = "absent" <=> row'[k] = "absent"
  BY <1>1, <1>6 DEF IInv, TypeOK
<1>8. RowInv'
  <2>1. ASSUME NEW k \in Keys
        PROVE  /\ (row'[k] = "absent") => (task'[k] = "none" /\ ~named'[k] /\ k \notin objects')
               /\ named'[k] => (row'[k] = "live" /\ task'[k] = "none")
               /\ (row'[k] # "absent" /\ ~named'[k]) => (task'[k] # "none")
               /\ (row'[k] = "live") => (row'[SongOf[k]] = "live")
               /\ (row'[k] = "live" /\ k \notin Phrases) => named'[k]
               /\ (row'[k] = "purged") => (request'[SongOf[k]] = "COMPLETED")
    BY <1>1, <1>2, <1>4, <1>5, <1>7 DEF IInv, RowInv
  <2>2. ASSUME NEW k \in Keys, task'[k] # "none"
        PROVE  /\ taskOf'[k] = SongOf[k] \/ (k \in Phrases /\ taskOf'[k] = k)
               /\ request'[taskOf'[k]] # "none"
    BY <1>1, <1>2, <1>4, <2>2 DEF IInv, RowInv, TypeOK
  <2>3. ASSUME NEW s \in Songs PROVE (request'[s] = "none") <=> (row'[s] \in {"absent", "live"})
    <3>1. s \in Keys /\ s \in Resources /\ SongOf[s] = s
      BY DEF Keys, Resources
    <3> QED
      BY <1>0, <1>4, <1>7, <3>1 DEF IInv, RowInv
  <2>4. ASSUME NEW p \in Phrases
        PROVE  /\ (request'[p] # "none") => (row'[p] # "absent" /\ ~named'[p])
               /\ (request'[p] = "none" /\ row'[p] = "live") => named'[p]
    <3>1. p \in Keys /\ p \in Resources
      BY DEF Keys, Resources
    <3> QED
      BY <1>1, <1>4, <1>7, <3>1 DEF IInv, RowInv
  <2> QED
    BY <2>1, <2>2, <2>3, <2>4 DEF RowInv
<1>9. LockInv'
  BY <1>1, <1>7, BusyHandler DEF IInv, LockInv, HoldsRow
<1>10. EraseInv'
  BY <1>0, <1>1, <1>2, TrackedKeys DEF IInv, EraseInv
<1>11. VerdictInv'
  <2>1. ASSUME NEW r \in Resources, request'[r] = "COMPLETED", NEW k \in TasksOf(r)
        PROVE  task'[k] = "COMPLETED"
    <3>1. CASE r \in C
      BY <1>1, <3>1 DEF C, IInv, PassInv, AllDone, TasksOf
    <3>2. CASE r \notin C
      <4>1. task[k] = "COMPLETED"
        BY <1>1, <2>1, <3>2 DEF IInv, VerdictInv
      <4> QED
        BY <1>2, <4>1 DEF TasksOf
    <3> QED
      BY <3>1, <3>2
  <2>2. ASSUME NEW r \in Resources, request'[r] = "FAILED"
        PROVE  \E k \in TasksOf(r) : task'[k] = "FAILED"
    <3>1. CASE r \in D
      BY <1>1, <3>1 DEF D, IInv, PassInv, AnyDead, TasksOf
    <3>2. CASE r \notin D
      <4>1. request[r] = "FAILED"
        BY <1>1, <2>2, <3>2
      <4> QED
        BY <1>2, <4>1 DEF IInv, VerdictInv, TasksOf
    <3> QED
      BY <3>1, <3>2
  <2> QED
    BY <1>3, <2>1, <2>2 DEF VerdictInv
<1>12. PassInv'
  <2>1. \A w \in Workers \ {v} : wk'[w] = wk[w]
    BY <1>1 DEF IInv, TypeOK
  <2>2. /\ wk'[v].batch = {} /\ wk'[v].deleted = {} /\ wk'[v].failed = {} /\ wk'[v].held = {}
        /\ wk'[v].complete = {} /\ wk'[v].dead = {}
    BY <1>1 DEF IInv, TypeOK, IdleWorker, Worker
  <2>3. ASSUME NEW w \in Workers \ {v}, NEW k \in Keys, StatusSeen(w, k) \in {"COMPLETED", "FAILED"}
        PROVE  StatusSeen(w, k)' = StatusSeen(w, k)
    <3>1. CASE k \in wk[w].batch
      <4>1. k \notin wk[v].batch
        BY <1>0, <3>1
      <4> QED
        BY <1>2, <2>1, <4>1 DEF StatusSeen
    <3>2. CASE k \notin wk[w].batch
      <4>1. k \notin wk[w].deleted /\ k \notin wk[w].failed
        BY <3>2 DEF IInv, PassInv
      <4> QED
        BY <1>2, <2>1, <2>3, <4>1 DEF StatusSeen
    <3> QED
      BY <3>1, <3>2
  <2>4. ASSUME NEW w \in Workers \ {v}, NEW r
        PROVE  (AllDone(w, r) => AllDone(w, r)') /\ (AnyDead(w, r) => AnyDead(w, r)')
    BY <1>3, <2>3 DEF AllDone, AnyDead, TasksOf
  <2>5. ASSUME NEW w \in Workers \ {v}
        PROVE  /\ \A k \in wk[w].batch : task'[k] = "PENDING"
               /\ \A r \in wk[w].held : request'[r] = "PENDING"
    BY <1>0, <1>2, <1>4 DEF IInv, PassInv, TypeOK, WorkerRecord
  <2>6. objects' = objects
    BY <1>1
  <2> QED
    BY <2>1, <2>2, <2>4, <2>5, <2>6 DEF IInv, PassInv
<1> QED
  BY <1>8, <1>9, <1>10, <1>11, <1>12 DEF IInv

LEMMA InvStep == IInv /\ [Next]_vars => IInv'
<1> SUFFICES ASSUME IInv, [Next]_vars PROVE IInv'
  OBVIOUS
<1>1. TypeOK'
  BY TypeStep DEF IInv
<1>2. ASSUME NEW k \in Keys, CreateSong(k) \/ ReserveAsset(k) \/ ReservePhrase(k),
             k \in Songs \/ row[SongOf[k]] = "live"
      PROVE  IInv'
  BY <1>1, <1>2, InsertKeepsInv DEF CreateSong, ReserveAsset, ReservePhrase
<1>3. ASSUME \/ \E s \in Songs : CreateSong(s)
             \/ \E a \in Assets : ReserveAsset(a)
             \/ \E p \in Phrases : ReservePhrase(p)
      PROVE  IInv'
  BY <1>2, <1>3 DEF Keys, ReserveAsset, ReservePhrase
<1> QED
  BY StepCases, <1>1, <1>3, HandlerStepKeepsInv, QuietStepKeepsInv, RequestDeletionKeepsInv,
     ExpireKeepsInv, PassStepKeepsInv, CommitPassKeepsInv
-----------------------------------------------------------------------------
LEMMA InductiveInvariant == Spec => []IInv
  BY InvInit, InvStep, PTL DEF Spec

LEMMA InvGivesNoOrphan == IInv => NoOrphan
  BY TrackedKeys DEF IInv, TypeOK, RowInv, EraseInv, NoOrphan, Statuses

LEMMA InvGivesPurgeAfterErasure == IInv => PurgeAfterErasure
<1> SUFFICES ASSUME IInv, NEW k \in Keys, row[k] = "purged", NEW j \in TasksOf(SongOf[k])
             PROVE  /\ request[SongOf[k]] = "COMPLETED"
                    /\ task[j] = "COMPLETED" /\ (j \in Tracked => j \notin objects)
  BY DEF PurgeAfterErasure, IInv, RowInv
<1>1. SongOf[k] \in Resources /\ request[SongOf[k]] = "COMPLETED"
  BY KeyAssumption DEF IInv, RowInv, Resources
<1> QED
  BY <1>1 DEF IInv, VerdictInv, EraseInv

LEMMA InvGivesVerdicts == IInv => VerdictMatchesTasks
<1> SUFFICES ASSUME IInv, NEW r \in Resources
             PROVE  /\ (request[r] = "COMPLETED") => (\A k \in TasksOf(r) : task[k] = "COMPLETED")
                    /\ (request[r] = "FAILED") => (\E k \in TasksOf(r) : task[k] = "FAILED")
                    /\ (request[r] = "FAILED" /\ r \in Songs) => (row[r] = "tombstoned")
                    /\ (request[r] = "none") => (TasksOf(r) = {})
  BY DEF VerdictMatchesTasks
<1>1. (request[r] = "FAILED" /\ r \in Songs) => (row[r] = "tombstoned")
  BY KeyAssumption DEF IInv, TypeOK, RowInv, RowStates, Keys
<1> QED
  BY <1>1 DEF IInv, VerdictInv, RowInv, TasksOf

\* No object of a song or an asset is ever left in the store unnamed, whichever
\* handlers and passes crash.
THEOREM NoObjectOrphaned == Spec => []NoOrphan
  BY InductiveInvariant, InvGivesNoOrphan, PTL

\* Rows are purged only behind a completed request whose tasks all succeeded and
\* whose song and asset objects are gone.
THEOREM PurgeFollowsErasure == Spec => []PurgeAfterErasure
  BY InductiveInvariant, InvGivesPurgeAfterErasure, PTL

\* A request's verdict always agrees with its tasks, however many workers split them.
THEOREM VerdictsAgree == Spec => []VerdictMatchesTasks
  BY InductiveInvariant, InvGivesVerdicts, PTL
-----------------------------------------------------------------------------
(* Refinement: every step is a step of the abstract promise or a stutter.  *)

LEMMA RefinementInit == Init => Abstract!Init
  BY TrackedKeys DEF Init, Abstract!Init, lifeOf, LifeOf

\* What a step of the abstract specification looks like at this level.
LEMMA Stutters ==
  ASSUME \A k \in Tracked : LifeOf(k)' = LifeOf(k), (objects \cap Tracked)' = objects \cap Tracked
  PROVE  UNCHANGED Abstract!vars
  BY DEF Abstract!vars, lifeOf, Tracked

LEMMA Retires ==
  ASSUME NEW S \in SUBSET Tracked, objects' = objects,
         \A k \in S : LifeOf(k) = "live" /\ LifeOf(k)' = "retired",
         \A k \in Tracked \ S : LifeOf(k)' = LifeOf(k)
  PROVE  Abstract!Next
<1>1. Abstract!Retire(S)
  BY DEF Abstract!Retire, lifeOf, Tracked
<1> QED
  BY <1>1 DEF Abstract!Next

LEMMA RefinementStep == IInv /\ [Next]_vars => [Abstract!Next]_(Abstract!vars)
<1> SUFFICES ASSUME IInv, [Next]_vars PROVE Abstract!Next \/ UNCHANGED Abstract!vars
  OBVIOUS
<1> USE KeyAssumption DEF rowVars, queueVars
<1>0. Tracked \subseteq Keys /\ Tracked' = Tracked
  BY TrackedKeys DEF Tracked
<1>1. ASSUME NEW k \in Keys, Insert(k) PROVE Abstract!Next \/ UNCHANGED Abstract!vars
  <2>1. CASE k \in Tracked
    <3>1. LifeOf(k) = "unborn" /\ LifeOf(k)' = "live"
      BY <1>1 DEF Insert, LifeOf, IInv, RowInv, TypeOK
    <3>2. \A j \in Tracked \ {k} : LifeOf(j)' = LifeOf(j)
      BY <1>0, <1>1 DEF Insert, LifeOf, IInv, TypeOK
    <3>3. Abstract!Reserve(k)
      BY <1>0, <1>1, <2>1, <3>1, <3>2 DEF Abstract!Reserve, lifeOf, Insert
    <3> QED
      BY <2>1, <3>3 DEF Abstract!Next
  <2>2. CASE k \notin Tracked
    BY <1>0, <1>1, <2>2, Stutters DEF Insert, LifeOf, IInv, TypeOK
  <2> QED
    BY <2>1, <2>2
<1>2. ASSUME NEW h \in Handlers, PutObject(h) PROVE Abstract!Next \/ UNCHANGED Abstract!vars
  <2> DEFINE k == up[h].key
  <2>1. \A j \in Tracked : LifeOf(j)' = LifeOf(j)
    BY <1>2 DEF PutObject, LifeOf
  <2>2. CASE k \in Tracked
    <3>1. LifeOf(k) = "live"
      BY <1>0, <1>2, <2>2 DEF PutObject, LifeOf, IInv, RowInv, LockInv, HoldsRow
    <3>2. Abstract!Store(k)
      BY <1>0, <1>2, <2>1, <2>2, <3>1 DEF Abstract!Store, lifeOf, PutObject
    <3> QED
      BY <2>2, <3>2 DEF Abstract!Next
  <2>3. CASE k \notin Tracked
    BY <1>0, <1>2, <2>1, <2>3, Stutters DEF PutObject
  <2> QED
    BY <2>2, <2>3
<1>3. ASSUME NEW s \in Songs, RequestSongDeletion(s) PROVE Abstract!Next \/ UNCHANGED Abstract!vars
  <2> DEFINE S == {k \in Tracked : SongOf[k] = s /\ row[k] = "live" /\ named[k]}
  <2>1. \A k \in S : LifeOf(k) = "live" /\ LifeOf(k)' = "retired"
    BY <1>0, <1>3 DEF RequestSongDeletion, AddTasks, RowsOf, LifeOf, IInv, RowInv
  <2>2. \A k \in Tracked \ S : LifeOf(k)' = LifeOf(k)
    BY <1>0, <1>3 DEF RequestSongDeletion, AddTasks, RowsOf, LifeOf, IInv, RowInv, TypeOK
  <2> QED
    BY <1>3, <2>1, <2>2, Retires DEF RequestSongDeletion
<1>4. ASSUME NEW w \in Workers, ExpireRawAudio(w) PROVE Abstract!Next \/ UNCHANGED Abstract!vars
  <2> DEFINE S == {k \in Tracked : k \in Expirable /\ named[k]}
  <2>1. \A k \in S : LifeOf(k) = "live" /\ LifeOf(k)' = "retired"
    BY <1>0, <1>4 DEF ExpireRawAudio, AddTasks, LifeOf, IInv, RowInv
  <2>2. \A k \in Tracked \ S : LifeOf(k)' = LifeOf(k)
    BY <1>0, <1>4 DEF ExpireRawAudio, AddTasks, LifeOf, IInv, RowInv, TypeOK
  <2> QED
    BY <1>4, <2>1, <2>2, Retires DEF ExpireRawAudio
<1>5. ASSUME NEW w \in Workers, NEW k \in Keys, DeleteObject(w, k)
      PROVE  Abstract!Next \/ UNCHANGED Abstract!vars
  <2>1. \A j \in Tracked : LifeOf(j)' = LifeOf(j)
    BY <1>5 DEF DeleteObject, LifeOf
  <2>2. CASE k \in Tracked
    <3>1. LifeOf(k) = "retired"
      BY <1>5 DEF DeleteObject, Remaining, LifeOf, IInv, PassInv
    <3>2. Abstract!Remove(k)
      BY <1>0, <1>5, <2>1, <2>2, <3>1 DEF Abstract!Remove, lifeOf, DeleteObject
    <3> QED
      BY <2>2, <3>2 DEF Abstract!Next
  <2>3. CASE k \notin Tracked
    BY <1>0, <1>5, <2>1, <2>3, Stutters DEF DeleteObject
  <2> QED
    BY <2>2, <2>3
<1>6. ASSUME NEW w \in Workers, CommitPass(w) PROVE Abstract!Next \/ UNCHANGED Abstract!vars
  <2> DEFINE gone == {k \in Tracked : k \in wk[w].deleted}
             stuck == {k \in Tracked : k \notin wk[w].deleted /\ k \in wk[w].failed /\ attempts[k] + 1 >= RetryLimit}
  <2>1. \A k \in gone \cup stuck : LifeOf(k) = "retired"
    BY DEF IInv, PassInv, LifeOf
  <2>2. \A k \in Tracked : LifeOf(k)' = IF k \in gone THEN "erased" ELSE IF k \in stuck THEN "stranded" ELSE LifeOf(k)
    <3> SUFFICES ASSUME NEW k \in Tracked
                 PROVE  LifeOf(k)' = IF k \in gone THEN "erased" ELSE IF k \in stuck THEN "stranded" ELSE LifeOf(k)
      OBVIOUS
    <3>1. task'[k] = StatusSeen(w, k) /\ ((row'[k] = "absent") <=> (row[k] = "absent"))
      BY <1>0, <1>6 DEF CommitPass, Purged, IInv, TypeOK
    <3>2. k \in wk[w].failed => task[k] = "PENDING"
      BY DEF IInv, PassInv
    <3> QED
      BY <3>1, <3>2 DEF LifeOf, StatusSeen
  <2>3. gone \cap stuck = {} /\ \A k \in gone : k \notin objects
    BY DEF IInv, PassInv
  <2>4. Abstract!Settle(gone, stuck)
    BY <1>0, <1>6, <2>1, <2>2, <2>3 DEF Abstract!Settle, lifeOf, CommitPass
  <2> QED
    BY <2>4 DEF Abstract!Next
<1>7. ASSUME UNCHANGED <<task, objects>>, \A k \in Keys : row'[k] = row[k] PROVE UNCHANGED Abstract!vars
  BY <1>0, <1>7, Stutters DEF LifeOf
<1> QED
  BY StepCases, <1>1, <1>2, <1>3, <1>4, <1>5, <1>6, <1>7
  DEF CreateSong, ReserveAsset, ReservePhrase, Keys, ReservationExpires, PreRead, EnterService, LockRow,
      CommitUpload, EndUpload, ClaimTasks, DeleteFails, Reconcile, CrashPass, BackoffElapses, vars

\* The rows, tasks and workers implement the abstract promise of ContentErasure for
\* every key whose row lock protects it.
THEOREM ErasureRefined == Spec => ErasurePromise
  BY RefinementInit, RefinementStep, InductiveInvariant, PTL DEF Spec, ErasurePromise, Abstract!Spec
-----------------------------------------------------------------------------
(* Action properties.                                                      *)

LEMMA StepSettles ==
  ASSUME IInv, [Next]_vars
  PROVE  Settles
<1> USE DEF rowVars, queueVars, Settles
<1>1. ASSUME NEW s \in Songs, RequestSongDeletion(s) PROVE Settles
  BY <1>1 DEF RequestSongDeletion, AddTasks, IInv, RowInv, TypeOK
<1>2. ASSUME NEW w \in Workers, ExpireRawAudio(w) PROVE Settles
  BY <1>2 DEF ExpireRawAudio, AddTasks, Expirable, IInv, RowInv, TypeOK
<1>3. ASSUME NEW w \in Workers, CommitPass(w) PROVE Settles
  <2>1. \A k \in Keys : task[k] \in {"COMPLETED", "FAILED"} => task'[k] = task[k]
    BY <1>3 DEF CommitPass, StatusSeen, IInv, PassInv
  <2>2. \A k \in Keys : row[k] = "tombstoned" => row'[k] \in {"tombstoned", "purged"}
    BY <1>3 DEF CommitPass
  <2>3. \A r \in Resources : request[r] \in {"COMPLETED", "FAILED"} => request'[r] = request[r]
    BY <1>3 DEF CommitPass, IInv, PassInv
  <2> QED
    BY <2>1, <2>2, <2>3
<1>4. ASSUME NEW k \in Keys, Insert(k)
      PROVE  UNCHANGED <<task, request>> /\ \A j \in Keys : row[j] = "tombstoned" => row'[j] = row[j]
  BY <1>4 DEF Insert, IInv, TypeOK
<1> QED
  BY StepCases, <1>1, <1>2, <1>3, <1>4
  DEF CreateSong, ReserveAsset, ReservePhrase, Keys, ReservationExpires, PreRead, EnterService, LockRow,
      PutObject, DeleteObject, CommitUpload, EndUpload, ClaimTasks, DeleteFails, Reconcile, CrashPass,
      BackoffElapses, vars

\* Completed and failed tasks and requests are final and tombstones are never lifted.
THEOREM SettledStays == Spec => SettledForGood
<1>1. IInv /\ [Next]_vars => [Settles]_vars
  BY StepSettles
<1> QED
  BY <1>1, InductiveInvariant, PTL DEF Spec, SettledForGood

LEMMA StepCleansUp ==
  ASSUME IInv, [Next]_vars, NEW k \in objects \ objects'
  PROVE  ~named[k] /\ task[k] = "PENDING"
<1>1. \E w \in Workers : DeleteObject(w, k)
  BY StepCases
  DEF CreateSong, ReserveAsset, ReservePhrase, Insert, ReservationExpires, PreRead, EnterService, LockRow,
      PutObject, CommitUpload, EndUpload, RequestSongDeletion, ExpireRawAudio, ClaimTasks, DeleteObject,
      DeleteFails, Reconcile, CommitPass, CrashPass, BackoffElapses, vars
<1> QED
  BY <1>1 DEF DeleteObject, Remaining, IInv, TypeOK, RowInv, PassInv

\* Storage cleanup only touches content that no row names any more.
THEOREM CleanupIsAfterTombstone == Spec => CleanupAfterTombstone
<1>1. IInv /\ [Next]_vars => [\A k \in objects \ objects' : ~named[k] /\ task[k] = "PENDING"]_vars
  BY StepCleansUp
<1> QED
  BY <1>1, InductiveInvariant, PTL DEF Spec, CleanupAfterTombstone
-----------------------------------------------------------------------------
(* The objects that come late.                                             *)

\* An upload that holds a row's lock read a key from the row, and while it holds
\* the lock neither a song deletion nor a purge takes the row away.
HoldInv == \A h \in Handlers : HoldsRow(h) => row[up[h].key] = "live" /\ up[h].seenNamed

\* A step that keeps the live rows and the handlers keeps what they rely on.
LEMMA RowsKept ==
  ASSUME HoldInv, up' = up,
         \A h \in Handlers : HoldsRow(h) => row'[up[h].key] = row[up[h].key]
  PROVE  HoldInv'
  BY DEF HoldInv, HoldsRow

\* Only the song's deletion and its purge take a live row away: the first waits for
\* the lock, the second comes after the first.
LEMMA HoldStep == IInv /\ HoldInv /\ [Next]_vars => HoldInv'
<1> SUFFICES ASSUME IInv, HoldInv, [Next]_vars PROVE HoldInv'
  OBVIOUS
<1> USE DEF rowVars, queueVars
<1>0. TypeOK
  BY DEF IInv
<1>1. ASSUME NEW k \in Keys, Insert(k) PROVE HoldInv'
  <2>1. \A h \in Handlers : HoldsRow(h) => row'[up[h].key] = row[up[h].key]
    BY <1>0, <1>1 DEF Insert, HoldInv, TypeOK
  <2> QED
    BY <1>1, <2>1, RowsKept DEF Insert
<1>2. ASSUME NEW h \in Handlers, LockRow(h) PROVE HoldInv'
  <2>1. /\ up'[h].key = up[h].key /\ up'[h].seenNamed = up[h].seenNamed
        /\ \A g \in Handlers \ {h} : up'[g] = up[g]
    BY <1>0, <1>2, BusyHandler DEF LockRow, TypeOK
  <2>2. row' = row /\ row[up[h].key] = "live" /\ up[h].seenNamed
    BY <1>2 DEF LockRow
  <2> QED
    BY <2>1, <2>2 DEF HoldInv, HoldsRow
<1>3. ASSUME NEW h \in Handlers, PutObject(h) PROVE HoldInv'
  <2>1. /\ up'[h].key = up[h].key /\ up'[h].seenNamed = up[h].seenNamed
        /\ \A g \in Handlers \ {h} : up'[g] = up[g]
    BY <1>0, <1>3, BusyHandler DEF PutObject, TypeOK
  <2>2. row' = row /\ HoldsRow(h)
    BY <1>3 DEF PutObject, HoldsRow
  <2> QED
    BY <2>1, <2>2 DEF HoldInv, HoldsRow
<1>4. ASSUME NEW h \in Handlers, (\E k \in Keys : PreRead(h, k)) \/ EnterService(h) \/ CommitUpload(h) \/ EndUpload(h)
      PROVE  HoldInv'
  <2>1. row' = row /\ \A g \in Handlers \ {h} : up'[g] = up[g]
    BY <1>0, <1>4 DEF PreRead, EnterService, CommitUpload, EndUpload, TypeOK
  <2>2. ~HoldsRow(h)'
    BY <1>0, <1>4, BusyHandler
    DEF PreRead, EnterService, CommitUpload, EndUpload, HoldsRow, TypeOK, Handler, IdleHandler
  <2> QED
    BY <2>1, <2>2 DEF HoldInv, HoldsRow
<1>5. ASSUME NEW s \in Songs, RequestSongDeletion(s) PROVE HoldInv'
  <2>1. \A h \in Handlers : HoldsRow(h) => up[h].key \in Keys /\ Locked(up[h].key) /\ row[up[h].key] = "live"
    BY <1>0, BusyHandler DEF HoldInv, HoldsRow, Locked
  <2>2. \A h \in Handlers : HoldsRow(h) => row'[up[h].key] = row[up[h].key]
    BY <1>5, <2>1 DEF RequestSongDeletion, RowsOf
  <2> QED
    BY <1>5, <2>2, RowsKept DEF RequestSongDeletion
<1>6. ASSUME NEW w \in Workers, CommitPass(w) PROVE HoldInv'
  <2>1. ASSUME NEW h \in Handlers, HoldsRow(h) PROVE row'[up[h].key] = row[up[h].key]
    <3> DEFINE k == up[h].key
    <3>1. k \in Keys /\ row[k] = "live"
      BY <1>0, <2>1, BusyHandler DEF HoldInv, HoldsRow
    <3>2. SongOf[k] \in Songs /\ row[SongOf[k]] = "live"
      BY <3>1, KeyAssumption DEF IInv, RowInv
    <3>3. request[SongOf[k]] = "none"
      BY <3>2 DEF IInv, RowInv
    <3>4. SongOf[k] \notin wk[w].complete
      BY <3>3 DEF IInv, PassInv
    <3> QED
      BY <1>6, <3>1, <3>4 DEF CommitPass, Purged
  <2> QED
    BY <1>6, <2>1, RowsKept DEF CommitPass
<1>7. ASSUME UNCHANGED <<row, up>> PROVE HoldInv'
  BY <1>7, RowsKept
<1> QED
  BY StepCases, <1>1, <1>2, <1>3, <1>4, <1>5, <1>6, <1>7
  DEF CreateSong, ReserveAsset, ReservePhrase, Keys, ReservationExpires, ExpireRawAudio, ClaimTasks,
      DeleteObject, DeleteFails, Reconcile, CrashPass, BackoffElapses, vars

LEMMA StepStores ==
  ASSUME IInv, HoldInv, [Next]_vars, NEW k \in objects' \ objects, ~named[k]
  PROVE  /\ k \in Phrases /\ row[k] = "live" /\ request[k] # "none"
         /\ \E h \in Handlers : HoldsRow(h) /\ up[h].key = k /\ up[h].seenNamed
<1>1. PICK h \in Handlers : PutObject(h)
  BY StepCases
  DEF CreateSong, ReserveAsset, ReservePhrase, Insert, ReservationExpires, PreRead, EnterService, LockRow,
      CommitUpload, EndUpload, RequestSongDeletion, ExpireRawAudio, ClaimTasks, DeleteObject,
      DeleteFails, Reconcile, CommitPass, CrashPass, BackoffElapses, vars
<1>2. up[h].key = k /\ HoldsRow(h)
  BY <1>1 DEF PutObject, HoldsRow
<1>3. row[k] = "live" /\ up[h].seenNamed
  BY <1>2 DEF HoldInv
<1>4. k \in Keys
  BY <1>2, BusyHandler DEF IInv, HoldsRow
<1>5. k \in Phrases
  BY <1>3, <1>4 DEF IInv, RowInv
<1>6. request[k] # "none"
  BY <1>3, <1>5 DEF IInv, RowInv
<1> QED
  BY <1>2, <1>3, <1>5, <1>6

\* The stale copy of an expired phrase is the only way in which an object comes to
\* the store that no row names, however many uploads, deletions and passes run.
THEOREM OnlyStaleCopiesComeLate == Spec => LateObjectsAreStale
<1>1. Init => HoldInv
  BY DEF Init, HoldInv, HoldsRow, IdleHandler, Handler
<1>2. IInv /\ HoldInv /\ [Next]_vars =>
        [\A k \in objects' \ objects : ~named[k] =>
           /\ k \in Phrases /\ row[k] = "live" /\ request[k] # "none"
           /\ \E h \in Handlers : HoldsRow(h) /\ up[h].key = k /\ up[h].seenNamed]_vars
  BY StepStores
<1> QED
  BY <1>1, <1>2, HoldStep, InductiveInvariant, PTL DEF Spec, LateObjectsAreStale
=============================================================================
