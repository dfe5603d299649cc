-------------------------- MODULE Publication_proofs --------------------------
(***************************************************************************)
(* Invariance proofs about Publication, for any number of workers, late    *)
(* requests, artifacts, reads of the model's file and failing calls.       *)
(***************************************************************************)
EXTENDS Publication, SequenceTheorems, TLAPS

\* Every step is one of the actions.
LEMMA StepCases ==
  ASSUME [Next]_vars
  PROVE  \/ \E s \in Slots : \/ ReserveAsset(s) \/ UploadAsset(s) \/ UploadCrashes(s)
                             \/ PublishManifest(s) \/ LookUpKey(s) \/ WriteScore(s)
         \/ \E w \in Workers : Begin(w) \/ ReadChunk(w) \/ Authorize(w)
         \/ \E w \in Workers : \/ SendReservation(w) \/ SendContent(w) \/ ArtifactPublished(w)
                               \/ SendRecord(w) \/ Acknowledged(w) \/ RunRefused(w)
         \/ \E w \in Workers : GiveUp(w)
         \/ Overwrite \/ DeleteSong \/ ExpireAudio
         \/ UNCHANGED vars
  BY DEF Next, Serve, Work, Disturb
-----------------------------------------------------------------------------
(* The inductive invariant.                                                *)

Codes == {"deleted", "network", "artifacts", "evidence", "audio", "conflict", "none",
          "unauthorized"}
Asset == [blob : Range(Blobs[job]), state : {"pending", "stored"}, object : BOOLEAN]
RunRecord == [at : {"idle", "hash", "publish", "done", "failed"}, seen : Nat,
              read : Seq({"registered", "altered"}), ids : Seq(Nat), record : Nat, code : Codes]
CallRecord ==
  [kind : {"none"}] \cup [kind : {"reserve"}, blob : Range(Blobs[job])]
  \cup [kind : {"put"}, id : Nat]
  \cup [kind : {"manifest", "score", "new_score"}, ids : Seq(Nat)]
  \cup [kind : {"accepted"}, id : Nat, state : {"pending", "stored", "published", "written"}]
  \cup [kind : {"refused"},
        code : {"deleted", "network", "artifacts", "evidence", "audio", "conflict"}]

\* Asset i has the content b; and it is available.
Holds(i, b) == i \in DOMAIN assets /\ assets[i].blob = b
Kept(i, b) == Holds(i, b) /\ Available(i)

\* The identifiers name all artifacts of the job, in order, each available.
Complete(ids) ==
  /\ ids \in Seq(Nat) /\ Len(ids) = Len(Blobs[job])
  /\ \A n \in 1..Len(Blobs[job]) : Kept(ids[n], Blobs[job][n])

Justified(code) ==
  /\ code \in Codes \ {"artifacts", "evidence"}
  /\ code = "deleted" => song = "deleted"
  /\ code = "audio" => audio = "expired"
  /\ code = "conflict" => records # << >>

AssetsInv ==
  /\ assets \in Seq(Asset)
  /\ \A i, k \in DOMAIN assets : assets[i].blob = assets[k].blob => i = k
  /\ \A i \in DOMAIN assets : assets[i].state = "stored" => assets[i].object

RecordsInv ==
  /\ records = << >> \/ \E ids \in Seq(Nat) : records = <<ids>>
  /\ \A i \in DOMAIN records : Complete(records[i])

ContentInv ==
  /\ job \in Jobs /\ song \in {"live", "deleted"} /\ audio \in {"stored", "expired"}
  /\ file \in [chunks : [1..Chunks -> {"registered", "altered"}], stamp : Nat]

\* What a worker has read is in the file unless the file has changed since; what
\* it has identifiers of is available; a run that succeeded has its record.
WorkerInv(w) ==
  /\ worker[w] \in RunRecord
  /\ Justified(worker[w].code)
  /\ worker[w].at = "hash" =>
       /\ worker[w].seen <= file.stamp
       /\ Len(worker[w].read) <= Chunks
       /\ worker[w].seen = file.stamp =>
            \A i \in 1..Len(worker[w].read) : worker[w].read[i] = file.chunks[i]
  /\ worker[w].at \in {"idle", "hash", "failed"} => worker[w].ids = << >>
  /\ Published(w) <= Len(Blobs[job])
  /\ \A n \in 1..Published(w) : Kept(worker[w].ids[n], Blobs[job][n])
  /\ worker[w].at = "done" => worker[w].record = 1 /\ records = <<worker[w].ids>>

\* A call, of a worker or late, is one that a run of the job has made.
CallInv(c) ==
  /\ c \in CallRecord
  /\ c.kind = "put" => c.id \in DOMAIN assets
  /\ c.kind \in {"manifest", "score", "new_score"} => Complete(c.ids)
  /\ c.kind \in {"score", "new_score"} => job = "scoring"
  /\ c.kind = "accepted" => c.id \in DOMAIN (IF c.state \in {"pending", "stored"} THEN assets
                                             ELSE records)
  /\ c.kind = "refused" => Justified(c.code)

\* A worker's call is about the artifact it is to publish next, or about all.
OwnCall(w, c) ==
  /\ c.kind # "none" => worker[w].at = "publish"
  /\ c.kind = "reserve" => Published(w) < Len(Blobs[job]) /\ c.blob = NextBlob(w)
  /\ c.kind = "put" => Published(w) < Len(Blobs[job]) /\ Holds(c.id, NextBlob(w))
  /\ c.kind \in {"manifest", "score", "new_score"} => c.ids = worker[w].ids
  /\ c.kind = "accepted" /\ c.state \in {"pending", "stored"} =>
       Published(w) < Len(Blobs[job]) /\ Holds(c.id, NextBlob(w))
  /\ c.kind = "accepted" /\ c.state = "stored" => Available(c.id)
  /\ c.kind = "accepted" /\ c.state \in {"published", "written"} =>
       c.id = 1 /\ records = <<worker[w].ids>>

ActorsInv ==
  /\ worker \in [Workers -> RunRecord]
  /\ request \in [Slots -> CallRecord]
  /\ \A w \in Workers : WorkerInv(w) /\ OwnCall(w, request[w])
  /\ \A s \in Slots : CallInv(request[s])
  /\ \A s \in Late : request[s].kind \notin {"accepted", "refused"}

PublicationInv == AssetsInv /\ RecordsInv /\ ContentInv /\ ActorsInv
-----------------------------------------------------------------------------
(* What no step undoes.                                                    *)

Onward ==
  /\ job' = job
  /\ DOMAIN assets \subseteq DOMAIN assets'
  /\ \A i \in DOMAIN assets :
       assets'[i].blob = assets[i].blob /\ (Available(i) => Available(i)')
  /\ song = "deleted" => song' = "deleted"
  /\ audio = "expired" => audio' = "expired"
  /\ records # << >> => records' = records
  /\ file' = file \/ file'.stamp > file.stamp

LEMMA OnwardKeeps ==
  ASSUME PublicationInv, Onward
  PROVE  /\ \A i, b : (Holds(i, b) => Holds(i, b)') /\ (Kept(i, b) => Kept(i, b)')
         /\ \A ids : Complete(ids) => Complete(ids)'
         /\ \A code : Justified(code) => Justified(code)'
<1>1. \A i, b : (Holds(i, b) => Holds(i, b)') /\ (Kept(i, b) => Kept(i, b)')
  BY DEF Onward, Holds, Kept
<1>2. \A ids : Complete(ids) => Complete(ids)'
  BY <1>1 DEF Onward, Complete
<1>3. \A code : Justified(code) => Justified(code)'
  BY DEF Onward, Justified
<1> QED
  BY <1>1, <1>2, <1>3

\* A call that is left alone keeps its part of the invariant.
LEMMA CallKeeps ==
  ASSUME PublicationInv, Onward, ContentInv', RecordsInv', NEW c, CallInv(c)
  PROVE  CallInv(c)'
<1>1. c \in CallRecord /\ CallRecord' = CallRecord
  BY DEF Onward, CallInv, CallRecord
<1>2. DOMAIN records \subseteq DOMAIN records'
  BY DEF Onward, PublicationInv, RecordsInv
<1> QED
  BY <1>1, <1>2, OnwardKeeps DEF CallInv, Onward

LEMMA WorkerKeeps ==
  ASSUME PublicationInv, Onward, ContentInv', RecordsInv',
         NEW w \in Workers, worker'[w] = worker[w]
  PROVE  WorkerInv(w)'
<1>1. WorkerInv(w)
  BY DEF PublicationInv, ActorsInv
<1>2. worker'[w] \in RunRecord /\ Justified(worker[w].code)'
  <2>1. PICK code : code = worker[w].code
    OBVIOUS
  <2>2. Justified(code)'
    BY <1>1, <2>1, OnwardKeeps DEF WorkerInv
  <2> QED
    BY <1>1, <2>1, <2>2 DEF WorkerInv, Justified
<1>3. worker[w].at = "hash" =>
       /\ worker'[w].seen <= file'.stamp
       /\ Len(worker'[w].read) <= Chunks
       /\ worker'[w].seen = file'.stamp =>
            \A i \in 1..Len(worker'[w].read) : worker'[w].read[i] = file'.chunks[i]
  BY <1>1 DEF WorkerInv, RunRecord, Onward, PublicationInv, ContentInv
<1>4. /\ Published(w)' = Published(w) /\ job' = job /\ Published(w) <= Len(Blobs[job])
      /\ \A n \in 1..Published(w) : Kept(worker[w].ids[n], Blobs[job][n])'
  <2>1. Published(w)' = Published(w) /\ job' = job /\ Published(w) <= Len(Blobs[job])
    BY <1>1 DEF WorkerInv, Published, Onward
  <2>2. ASSUME NEW n \in 1..Published(w)
        PROVE  Kept(worker[w].ids[n], Blobs[job][n])'
    <3>1. PICK i, b : i = worker[w].ids[n] /\ b = Blobs[job][n]
      OBVIOUS
    <3>2. Kept(i, b)'
      BY <1>1, <2>2, <3>1, OnwardKeeps DEF WorkerInv
    <3> QED
      BY <2>1, <3>1, <3>2 DEF Kept, Holds, Available
  <2> QED
    BY <2>1, <2>2
<1>5. worker'[w].at = "done" => worker'[w].record = 1 /\ records' = <<worker'[w].ids>>
  <2>1. SUFFICES ASSUME worker[w].at = "done"
                 PROVE  worker[w].record = 1 /\ records' = <<worker[w].ids>>
    OBVIOUS
  <2>2. worker[w].record = 1 /\ records = <<worker[w].ids>>
    BY <1>1, <2>1 DEF WorkerInv
  <2>3. records # << >>
    BY <2>2
  <2> QED
    BY <2>2, <2>3 DEF Onward
<1>6. RunRecord' = RunRecord
  BY DEF RunRecord, Codes
<1> QED
  BY <1>1, <1>2, <1>3, <1>4, <1>5, <1>6 DEF WorkerInv, RunRecord

LEMMA OwnCallKeeps ==
  ASSUME PublicationInv, Onward, ContentInv', RecordsInv',
         NEW w \in Workers, worker'[w] = worker[w], NEW c, CallInv(c), OwnCall(w, c)
  PROVE  OwnCall(w, c)'
<1>1. Published(w)' = Published(w) /\ NextBlob(w)' = NextBlob(w) /\ job' = job
  BY DEF Published, NextBlob, Onward
<1>2. c.kind = "accepted" /\ c.state = "stored" => Available(c.id)'
  BY DEF OwnCall, CallInv, Onward
<1>3. c.kind = "accepted" /\ c.state \in {"published", "written"} =>
       c.id = 1 /\ records' = <<worker'[w].ids>>
  BY DEF OwnCall, Onward, PublicationInv, RecordsInv
<1> QED
  BY <1>1, <1>2, <1>3, OnwardKeeps DEF OwnCall

\* A step of some slots: only their own parts of the invariant are left to show.
LEMMA SomeActors ==
  ASSUME PublicationInv, Onward, AssetsInv', ContentInv', RecordsInv', NEW X \in SUBSET Slots,
         worker' \in [Workers -> RunRecord], request' \in [Slots -> CallRecord],
         \A w \in Workers \ X : worker'[w] = worker[w],
         \A s \in Slots \ X : request'[s] = request[s],
         \A w \in Workers \cap X : WorkerInv(w)' /\ OwnCall(w, request[w])',
         \A s \in X : CallInv(request[s])',
         \A s \in Late \cap X : request'[s].kind \notin {"accepted", "refused"}
  PROVE  PublicationInv'
<1>1. CallRecord' = CallRecord
  BY DEF Onward, CallRecord
<1>2. ASSUME NEW w \in Workers \ X PROVE WorkerInv(w)' /\ OwnCall(w, request[w])'
  <2>1. request'[w] = request[w] /\ CallInv(request[w]) /\ OwnCall(w, request[w])
    BY <1>2 DEF PublicationInv, ActorsInv, Slots
  <2>2. PICK c : c = request[w]
    OBVIOUS
  <2>3. OwnCall(w, c)'
    BY <1>2, <2>1, <2>2, OwnCallKeeps
  <2>4. OwnCall(w, request[w])'
    BY <2>1, <2>2, <2>3 DEF OwnCall
  <2> QED
    BY <1>2, <2>4, WorkerKeeps
<1>3. ASSUME NEW s \in Slots \ X PROVE CallInv(request[s])'
  <2>1. request'[s] = request[s] /\ CallInv(request[s])
    BY <1>3 DEF PublicationInv, ActorsInv
  <2>2. PICK c : c = request[s]
    OBVIOUS
  <2>3. CallInv(c)'
    BY <2>1, <2>2, CallKeeps
  <2> QED
    BY <2>1, <2>2, <2>3 DEF CallInv
<1>4. \A w \in Workers : WorkerInv(w)' /\ OwnCall(w, request[w])'
  BY <1>2
<1>5. \A s \in Slots : CallInv(request[s])'
  BY <1>3
<1>6. \A s \in Late : request'[s].kind \notin {"accepted", "refused"}
  BY DEF PublicationInv, ActorsInv, Slots
<1> QED
  BY <1>1, <1>4, <1>5, <1>6 DEF PublicationInv, ActorsInv

LEMMA OneActor ==
  ASSUME PublicationInv, Onward, AssetsInv', ContentInv', RecordsInv', NEW x \in Slots,
         worker' \in [Workers -> RunRecord], request' \in [Slots -> CallRecord],
         \A w \in Workers \ {x} : worker'[w] = worker[w],
         \A s \in Slots \ {x} : request'[s] = request[s],
         x \in Workers => WorkerInv(x)' /\ OwnCall(x, request[x])',
         CallInv(request[x])',
         x \in Late => request'[x].kind \notin {"accepted", "refused"}
  PROVE  PublicationInv'
<1>1. /\ \A w \in Workers \cap {x} : WorkerInv(w)' /\ OwnCall(w, request[w])'
      /\ \A s \in {x} : CallInv(request[s])'
      /\ {x} \in SUBSET Slots
  OBVIOUS
<1> QED
  BY <1>1, SomeActors
-----------------------------------------------------------------------------
(* The control plane's steps.                                              *)

LEMMA CompleteUnique ==
  ASSUME AssetsInv, NEW x, NEW y, Complete(x), Complete(y)
  PROVE  x = y
<1>1. x \in Seq(Nat) /\ y \in Seq(Nat) /\ Len(x) = Len(Blobs[job]) /\ Len(y) = Len(x)
  BY DEF Complete
<1>2. ASSUME NEW n \in 1..Len(x) PROVE x[n] = y[n]
  <2>1. Holds(x[n], Blobs[job][n]) /\ Holds(y[n], Blobs[job][n])
    BY <1>1, <1>2 DEF Complete, Kept
  <2> QED
    BY <2>1 DEF Holds, AssetsInv
<1> QED
  BY <1>1, <1>2

\* A step of the server for one slot.
LEMMA ServerStep ==
  ASSUME PublicationInv, Onward, AssetsInv', ContentInv', RecordsInv', NEW s \in Slots, NEW r,
         worker' = worker, request' = [request EXCEPT ![s] = r],
         CallInv(r)', s \in Workers => OwnCall(s, r)',
         s \in Late => r.kind \notin {"accepted", "refused"}
  PROVE  PublicationInv'
<1>1. worker' \in [Workers -> RunRecord] /\ CallRecord' = CallRecord
  BY DEF PublicationInv, ActorsInv, Onward, CallRecord
<1>2. request' \in [Slots -> CallRecord] /\ request'[s] = r
  BY <1>1 DEF PublicationInv, ActorsInv, CallInv
<1>3. \A t \in Slots \ {s} : request'[t] = request[t]
  BY DEF PublicationInv, ActorsInv
<1>4. s \in Workers => WorkerInv(s)'
  BY WorkerKeeps
<1>5. CallInv(request[s])' /\ (s \in Workers => OwnCall(s, request[s])')
  BY <1>2 DEF CallInv, OwnCall
<1> QED
  BY <1>1, <1>2, <1>3, <1>4, <1>5, OneActor

\* A response, of which a late request has no use.
LEMMA AnswerStep ==
  ASSUME PublicationInv, Onward, AssetsInv', ContentInv', RecordsInv', NEW s \in Slots, NEW r,
         worker' = worker, Answer(s, r),
         CallInv(r)', s \in Workers => OwnCall(s, r)'
  PROVE  PublicationInv'
<1>1. CASE s \in Late
  <2>1. CallInv(NoCall)' /\ (s \in Workers => OwnCall(s, NoCall)')
    BY DEF CallInv, CallRecord, OwnCall, NoCall
  <2>2. request' = [request EXCEPT ![s] = NoCall] /\ NoCall.kind = "none"
    BY <1>1 DEF Answer, NoCall
  <2> QED
    BY <2>1, <2>2, ServerStep
<1>2. CASE s \notin Late
  <2>1. request' = [request EXCEPT ![s] = r]
    BY <1>2 DEF Answer
  <2> QED
    BY <1>2, <2>1, ServerStep
<1> QED
  BY <1>1, <1>2

\* Any run may be refused for a reason that is justified.
LEMMA RefusalStep ==
  ASSUME PublicationInv, Onward, AssetsInv', ContentInv', RecordsInv', NEW s \in Slots, NEW code,
         request[s].kind \in {"reserve", "put", "manifest", "score", "new_score"},
         worker' = worker, Answer(s, Refused(code)), Justified(code)',
         code \in {"deleted", "network", "audio", "conflict"}
  PROVE  PublicationInv'
<1>1. CallInv(Refused(code))'
  BY DEF CallInv, CallRecord, Refused
<1>2. s \in Workers => OwnCall(s, Refused(code))'
  <2>1. s \in Workers => worker'[s].at = "publish"
    BY DEF PublicationInv, ActorsInv, OwnCall
  <2> QED
    BY <2>1 DEF OwnCall, Refused
<1> QED
  BY <1>1, <1>2, AnswerStep

\* The records that are there stay complete.
LEMMA RecordsKept ==
  ASSUME PublicationInv, Onward, records' = records
  PROVE  RecordsInv'
<1>1. ASSUME NEW i \in DOMAIN records PROVE Complete(records[i])'
  <2>1. PICK ids : ids = records[i]
    OBVIOUS
  <2>2. Complete(ids)'
    BY <1>1, <2>1, OnwardKeeps DEF PublicationInv, RecordsInv
  <2> QED
    BY <2>1, <2>2 DEF Complete
<1> QED
  BY <1>1 DEF PublicationInv, RecordsInv

LEMMA AssetsKept ==
  ASSUME PublicationInv, assets' = assets, job' = job
  PROVE  AssetsInv'
  BY DEF PublicationInv, AssetsInv, Asset

LEMMA ContentKept ==
  ASSUME PublicationInv, job' = job, song' = song, audio' = audio, file' = file
  PROVE  ContentInv'
  BY DEF PublicationInv, ContentInv

LEMMA NewAsset ==
  ASSUME PublicationInv, NEW b \in Range(Blobs[job]),
         \A i \in DOMAIN assets : assets[i].blob # b,
         assets' = Append(assets, [blob |-> b, state |-> "pending", object |-> FALSE]),
         UNCHANGED <<job, records, Content>>
  PROVE  /\ Onward /\ AssetsInv' /\ RecordsInv' /\ ContentInv'
         /\ Len(assets) + 1 \in Nat /\ \A n : n = Len(assets) + 1 => Holds(n, b)'
<1>1. assets \in Seq(Asset) /\ Asset' = Asset
  BY DEF PublicationInv, AssetsInv, Asset
<1>2. /\ DOMAIN assets' = 1..(Len(assets) + 1) /\ DOMAIN assets = 1..Len(assets)
      /\ Len(assets) \in Nat
      /\ assets'[Len(assets) + 1] = [blob |-> b, state |-> "pending", object |-> FALSE]
      /\ \A i \in DOMAIN assets : assets'[i] = assets[i]
  BY <1>1
<1>3. Onward
  BY <1>2 DEF Onward, Available, Content
<1>4. AssetsInv'
  <2>1. assets' \in Seq(Asset)
    BY <1>1 DEF Asset
  <2>2. \A i, k \in DOMAIN assets' : assets'[i].blob = assets'[k].blob => i = k
    BY <1>2 DEF PublicationInv, AssetsInv
  <2>3. \A i \in DOMAIN assets' : assets'[i].state = "stored" => assets'[i].object
    BY <1>2 DEF PublicationInv, AssetsInv
  <2> QED
    BY <1>1, <2>1, <2>2, <2>3 DEF AssetsInv
<1> QED
  BY <1>2, <1>3, <1>4, RecordsKept, ContentKept DEF Content, Holds

LEMMA ReserveCase ==
  ASSUME PublicationInv, NEW s \in Slots, ReserveAsset(s)
  PROVE  PublicationInv'
<1>1. PICK b : b = request[s].blob
  OBVIOUS
<1>2. /\ request[s].kind = "reserve" /\ b \in Range(Blobs[job])
      /\ worker' = worker /\ UNCHANGED <<job, records, Content>>
  BY <1>1 DEF ReserveAsset, PublicationInv, ActorsInv, CallInv, CallRecord
<1>3. s \in Workers => /\ worker[s].at = "publish" /\ Published(s) < Len(Blobs[job])
                       /\ b = NextBlob(s)
  BY <1>1, <1>2 DEF PublicationInv, ActorsInv, OwnCall
<1>4. ASSUME NEW i \in Nat, NEW state \in {"pending", "stored"}, Onward, AssetsInv',
             RecordsInv', ContentInv', Holds(i, b)', state = "stored" => Available(i)',
             Answer(s, Accepted(i, state))
      PROVE  PublicationInv'
  <2>1. CallInv(Accepted(i, state))'
    BY <1>4 DEF CallInv, CallRecord, Accepted, Holds
  <2>2. s \in Workers => OwnCall(s, Accepted(i, state))'
    BY <1>2, <1>3, <1>4 DEF OwnCall, Accepted, NextBlob, Published, Holds
  <2> QED
    BY <1>2, <1>4, <2>1, <2>2, AnswerStep
<1>5. CASE song = "deleted" /\ Answer(s, Refused("deleted")) /\ UNCHANGED assets
  <2>1. Onward
    BY <1>2, <1>5 DEF Onward, Content, Available
  <2>2. Justified("deleted")'
    BY <1>2, <1>5 DEF Justified, Codes, Content
  <2> QED
    BY <1>2, <1>5, <2>1, <2>2, RefusalStep, AssetsKept, RecordsKept, ContentKept DEF Content
<1>6. CASE /\ {i \in DOMAIN assets : assets[i].blob = b} = {}
           /\ assets' = Append(assets, [blob |-> b, state |-> "pending", object |-> FALSE])
           /\ Answer(s, Accepted(Len(assets) + 1, "pending"))
  <2>1. PICK n : n = Len(assets) + 1
    OBVIOUS
  <2>2. /\ Onward /\ AssetsInv' /\ RecordsInv' /\ ContentInv'
        /\ n \in Nat /\ Holds(n, b)'
    BY <1>2, <1>6, <2>1, NewAsset
  <2> QED
    BY <1>4, <1>6, <2>1, <2>2
<1>7. ASSUME UNCHANGED assets, NEW i \in DOMAIN assets, assets[i].blob = b,
             Answer(s, Accepted(i, assets[i].state))
      PROVE  PublicationInv'
  <2>1. Onward
    BY <1>2, <1>7 DEF Onward, Content, Available
  <2>2. PICK state : state = assets[i].state
    OBVIOUS
  <2>3. i \in Nat /\ state \in {"pending", "stored"} /\ (state = "stored" => Available(i)')
    <3>1. i \in Nat /\ assets[i] \in Asset /\ assets' = assets
      BY <1>7 DEF PublicationInv, AssetsInv
    <3>2. assets[i].state = "stored" => assets[i].object
      BY <1>7 DEF PublicationInv, AssetsInv
    <3> QED
      BY <2>2, <3>1, <3>2 DEF Asset, Available
  <2>4. Holds(i, b)'
    BY <1>7 DEF Holds
  <2> QED
    BY <1>2, <1>4, <1>7, <2>1, <2>2, <2>3, <2>4, AssetsKept, RecordsKept, ContentKept DEF Content
<1> QED
  BY <1>1, <1>5, <1>6, <1>7 DEF ReserveAsset

\* Putting the content of an asset, with or without the commit that stores it.
LEMMA ObjectPut ==
  ASSUME PublicationInv, NEW i \in DOMAIN assets, NEW new \in Asset,
         new.blob = assets[i].blob, assets[i].state = "stored" => new.state = "stored",
         new.object, assets' = [assets EXCEPT ![i] = new],
         UNCHANGED <<job, records, Content>>
  PROVE  Onward /\ AssetsInv' /\ RecordsInv' /\ ContentInv'
<1>1. assets \in Seq(Asset) /\ assets[i] \in Asset
  BY DEF PublicationInv, AssetsInv
<1>2. /\ DOMAIN assets' = DOMAIN assets
      /\ assets'[i] = new
      /\ \A k \in DOMAIN assets \ {i} : assets'[k] = assets[k]
  BY <1>1
<1>3. Onward
  BY <1>2 DEF Onward, Available, Content
<1>4. assets' \in Seq(Asset)
  BY <1>1
<1>5. Asset' = Asset
  BY DEF Asset
<1>6. AssetsInv'
  BY <1>1, <1>2, <1>4, <1>5 DEF PublicationInv, AssetsInv
<1> QED
  BY <1>3, <1>6, RecordsKept, ContentKept DEF Content

LEMMA UploadCase ==
  ASSUME PublicationInv, NEW s \in Slots, UploadAsset(s) \/ UploadCrashes(s)
  PROVE  PublicationInv'
<1>1. PICK i : i = request[s].id
  OBVIOUS
<1>2. /\ request[s].kind = "put" /\ i \in DOMAIN assets /\ i \in Nat
      /\ worker' = worker /\ UNCHANGED <<job, records, Content>>
  BY <1>1 DEF UploadAsset, UploadCrashes, PublicationInv, ActorsInv, CallInv, CallRecord
<1>3. s \in Workers => /\ worker[s].at = "publish" /\ Published(s) < Len(Blobs[job])
                       /\ Holds(i, NextBlob(s))
  BY <1>1, <1>2 DEF PublicationInv, ActorsInv, OwnCall
<1>4. assets \in Seq(Asset) /\ assets[i] \in Asset
  BY <1>2 DEF PublicationInv, AssetsInv
<1>5. CASE song = "deleted" /\ Answer(s, Refused("deleted")) /\ UNCHANGED assets
  <2>1. Onward
    BY <1>2, <1>5 DEF Onward, Content, Available
  <2>2. Justified("deleted")'
    BY <1>2, <1>5 DEF Justified, Codes, Content
  <2> QED
    BY <1>2, <1>5, <2>1, <2>2, RefusalStep, AssetsKept, RecordsKept, ContentKept DEF Content
<1>6. CASE /\ assets' = [assets EXCEPT ![i].state = "stored", ![i].object = TRUE]
           /\ Answer(s, Accepted(i, "stored"))
  <2> DEFINE new == [assets[i] EXCEPT !.state = "stored", !.object = TRUE]
  <2>1. assets' = [assets EXCEPT ![i] = new]
    BY <1>2, <1>4, <1>6
  <2>2. new \in Asset /\ new.blob = assets[i].blob /\ new.state = "stored" /\ new.object = TRUE
    BY <1>4 DEF Asset
  <2> HIDE DEF new
  <2>3. Onward /\ AssetsInv' /\ RecordsInv' /\ ContentInv'
    BY <1>2, <2>1, <2>2, ObjectPut
  <2>4. Available(i)' /\ i \in DOMAIN assets' /\ assets'[i].blob = assets[i].blob
    BY <1>2, <1>4, <2>1, <2>2 DEF Available
  <2>5. CallInv(Accepted(i, "stored"))'
    BY <1>2, <2>4 DEF CallInv, CallRecord, Accepted
  <2>6. s \in Workers => OwnCall(s, Accepted(i, "stored"))'
    BY <1>2, <1>3, <2>4 DEF OwnCall, Accepted, NextBlob, Published, Holds
  <2> QED
    BY <1>2, <1>6, <2>3, <2>5, <2>6, AnswerStep
<1>7. CASE /\ assets' = [assets EXCEPT ![i].object = TRUE]
           /\ Answer(s, Refused("network"))
  <2> DEFINE new == [assets[i] EXCEPT !.object = TRUE]
  <2>1. assets' = [assets EXCEPT ![i] = new]
    BY <1>2, <1>4, <1>7
  <2>2. /\ new \in Asset /\ new.blob = assets[i].blob /\ new.state = assets[i].state
        /\ new.object = TRUE
    BY <1>4 DEF Asset
  <2> HIDE DEF new
  <2>3. Onward /\ AssetsInv' /\ RecordsInv' /\ ContentInv'
    BY <1>2, <2>1, <2>2, ObjectPut
  <2>4. Justified("network")'
    BY DEF Justified, Codes
  <2> QED
    BY <1>2, <1>7, <2>4, <2>3, RefusalStep
<1> QED
  BY <1>1, <1>5, <1>6, <1>7 DEF UploadAsset, UploadCrashes

\* The first record of the job: the others would have the same identifiers.
LEMMA NewRecord ==
  ASSUME PublicationInv, NEW ids, Complete(ids), records = << >>,
         records' = Append(records, ids), UNCHANGED <<job, assets, Content>>
  PROVE  Onward /\ RecordsInv' /\ AssetsInv' /\ ContentInv' /\ records' = <<ids>>
<1>1. records' = <<ids>> /\ ids \in Seq(Nat)
  BY DEF Complete
<1>2. Onward
  BY DEF Onward, Content, Available
<1>3. Complete(ids)'
  BY <1>2, OnwardKeeps
<1>4. \A i \in DOMAIN records' : i = 1 /\ records'[i] = ids
  BY <1>1
<1>5. RecordsInv'
  BY <1>1, <1>3, <1>4 DEF RecordsInv, Complete
<1> QED
  BY <1>1, <1>2, <1>5, AssetsKept, ContentKept DEF Content

\* The answer that names the only record.
LEMMA RecordAnswer ==
  ASSUME PublicationInv, Onward, AssetsInv', ContentInv', RecordsInv', NEW s \in Slots,
         NEW ids, NEW state \in {"published", "written"}, worker' = worker,
         request[s].kind \in {"manifest", "score", "new_score"}, request[s].ids = ids,
         records' = <<ids>>, Answer(s, Accepted(1, state))
  PROVE  PublicationInv'
<1>1. CallInv(Accepted(1, state))'
  BY DEF CallInv, CallRecord, Accepted
<1>2. s \in Workers => worker[s].at = "publish" /\ ids = worker[s].ids
  BY DEF PublicationInv, ActorsInv, OwnCall
<1>3. s \in Workers => OwnCall(s, Accepted(1, state))'
  BY <1>2 DEF OwnCall, Accepted
<1> QED
  BY <1>1, <1>3, AnswerStep

LEMMA OnlyRecord ==
  ASSUME PublicationInv, NEW ids, Complete(ids), records # << >>
  PROVE  records = <<ids>>
<1>1. PICK own \in Seq(Nat) : records = <<own>>
  BY DEF PublicationInv, RecordsInv
<1>2. Complete(records[1]) /\ records[1] = own
  BY <1>1 DEF PublicationInv, RecordsInv
<1>3. Complete(own)
  BY <1>2
<1> QED
  BY <1>1, <1>3, CompleteUnique DEF PublicationInv

LEMMA RecordRefused ==
  ASSUME PublicationInv, NEW s \in Slots, worker' = worker,
         UNCHANGED <<job, Server, Content>>,
         request[s].kind \in {"manifest", "score", "new_score"},
         NEW code \in {"deleted", "audio", "conflict"}, Justified(code),
         Answer(s, Refused(code))
  PROVE  PublicationInv'
<1>1. Onward
  BY DEF Onward, Server, Content, Available
<1>2. Justified(code)'
  BY <1>1, OnwardKeeps
<1> QED
  BY <1>1, <1>2, RefusalStep, AssetsKept, RecordsKept, ContentKept DEF Server, Content

LEMMA EvidenceIsThere ==
  ASSUME PublicationInv, job = "scoring", NEW ids, Complete(ids)
  PROVE  EvidenceAvailable
<1>1. Blobs["scoring"] \in Seq(Range(Blobs["scoring"]))
  BY PublicationAssumption DEF Jobs
<1>2. ASSUME NEW n \in DOMAIN Blobs["scoring"]
      PROVE  \E i \in DOMAIN assets : assets[i].blob = Blobs["scoring"][n] /\ Available(i)
  BY <1>1, <1>2 DEF Complete, Kept, Holds
<1> QED
  BY <1>2 DEF EvidenceAvailable

LEMMA ManifestCase ==
  ASSUME PublicationInv, NEW s \in Slots, PublishManifest(s)
  PROVE  PublicationInv'
<1>1. PICK ids : ids = request[s].ids
  OBVIOUS
<1>2. /\ request[s].kind = "manifest" /\ Complete(ids)
      /\ worker' = worker /\ UNCHANGED <<job, assets, Content>>
  BY <1>1 DEF PublishManifest, PublicationInv, ActorsInv, CallInv
<1>3. ~\E n \in DOMAIN ids : ~Available(ids[n])
  BY <1>2 DEF Complete, Kept
<1>4. CASE song = "deleted" /\ Answer(s, Refused("deleted")) /\ UNCHANGED records
  BY <1>2, <1>4, RecordRefused DEF Justified, Codes, Server, Content
<1>5. CASE /\ {i \in DOMAIN records : records[i] = ids} = {}
           /\ records' = Append(records, ids)
           /\ Answer(s, Accepted(Len(records) + 1, "published"))
  <2>1. records = << >>
    BY <1>2, <1>5, OnlyRecord
  <2>2. Len(records) + 1 = 1
    BY <2>1
  <2> QED
    BY <1>1, <1>2, <1>5, <2>1, <2>2, NewRecord, RecordAnswer DEF Content
<1>6. ASSUME UNCHANGED records, NEW i \in DOMAIN records, Answer(s, Accepted(i, "published"))
      PROVE  PublicationInv'
  <2>1. records = <<ids>> /\ i = 1
    BY <1>2, <1>6, OnlyRecord
  <2>2. Onward
    BY <1>2, <1>6 DEF Onward, Content, Available
  <2> QED
    BY <1>1, <1>2, <1>6, <2>1, <2>2, RecordAnswer, AssetsKept, RecordsKept, ContentKept DEF Content
<1> QED
  BY <1>1, <1>3, <1>4, <1>5, <1>6 DEF PublishManifest

LEMMA LookUpCase ==
  ASSUME PublicationInv, NEW s \in Slots, LookUpKey(s)
  PROVE  PublicationInv'
<1>1. PICK ids : ids = request[s].ids
  OBVIOUS
<1>2. /\ request[s].kind = "score" /\ Complete(ids) /\ job = "scoring"
      /\ worker' = worker /\ UNCHANGED <<job, Server, Content>>
  BY <1>1 DEF LookUpKey, PublicationInv, ActorsInv, CallInv
<1>3. Onward /\ AssetsInv' /\ RecordsInv' /\ ContentInv'
  <2>1. Onward
    BY <1>2 DEF Onward, Server, Content, Available
  <2> QED
    BY <1>2, <2>1, AssetsKept, RecordsKept, ContentKept DEF Server, Content
<1>4. EvidenceAvailable
  BY <1>2, EvidenceIsThere
<1>5. CASE request' = [request EXCEPT ![s].kind = "new_score"]
  <2> DEFINE c == [request[s] EXCEPT !.kind = "new_score"]
  <2>1. request[s] \in [kind : {"manifest", "score", "new_score"}, ids : Seq(Nat)]
    BY <1>2 DEF PublicationInv, ActorsInv, CallRecord
  <2>2. /\ c \in [kind : {"manifest", "score", "new_score"}, ids : Seq(Nat)]
        /\ c.kind = "new_score" /\ c.ids = ids
    BY <1>1, <2>1
  <2>3. request' = [request EXCEPT ![s] = c]
    BY <1>5
  <2> HIDE DEF c
  <2>4. PICK d : d = c
    OBVIOUS
  <2>5. CallInv(d)'
    BY <1>2, <1>3, <2>2, <2>4, OnwardKeeps DEF CallInv, CallRecord
  <2>6. s \in Workers => OwnCall(s, d)'
    BY <1>1, <1>2, <2>2, <2>4 DEF OwnCall, PublicationInv, ActorsInv
  <2> QED
    BY <1>2, <1>3, <2>2, <2>3, <2>5, <2>6, <2>4, ServerStep
<1>6. CASE song = "deleted" /\ Answer(s, Refused("deleted"))
  BY <1>2, <1>6, RecordRefused DEF Justified, Codes
<1>7. CASE records # << >> /\ Answer(s, Accepted(1, "written"))
  BY <1>1, <1>2, <1>3, <1>7, OnlyRecord, RecordAnswer DEF Server
<1> QED
  BY <1>4, <1>5, <1>6, <1>7 DEF LookUpKey

LEMMA WriteCase ==
  ASSUME PublicationInv, NEW s \in Slots, WriteScore(s)
  PROVE  PublicationInv'
<1>1. PICK ids : ids = request[s].ids
  OBVIOUS
<1>2. /\ request[s].kind = "new_score" /\ Complete(ids) /\ job = "scoring"
      /\ worker' = worker /\ UNCHANGED <<job, assets, Content>>
  BY <1>1 DEF WriteScore, PublicationInv, ActorsInv, CallInv
<1>3. EvidenceAvailable
  BY <1>2, EvidenceIsThere
<1>4. ASSUME NEW code \in {"deleted", "audio", "conflict"}, Justified(code),
             Answer(s, Refused(code)), UNCHANGED records
      PROVE  PublicationInv'
  BY <1>2, <1>4, RecordRefused DEF Server
<1>5. CASE records = << >> /\ records' = Append(records, ids) /\ Answer(s, Accepted(1, "written"))
  BY <1>1, <1>2, <1>5, NewRecord, RecordAnswer
<1>6. /\ song = "deleted" => Justified("deleted")
      /\ audio = "expired" => Justified("audio")
      /\ records # << >> => Justified("conflict")
  BY DEF Justified, Codes
<1> QED
  BY <1>1, <1>3, <1>4, <1>5, <1>6 DEF WriteScore
-----------------------------------------------------------------------------
(* The workers' steps.                                                     *)

\* A step of a worker leaves what all share alone.
LEMMA WorkerStep ==
  ASSUME PublicationInv, NEW w \in Workers, NEW k, NEW r, UNCHANGED <<job, Server, Content>>,
         worker' = [worker EXCEPT ![w] = k], request' = [request EXCEPT ![w] = r],
         k \in RunRecord, CallInv(r), WorkerInv(w)', OwnCall(w, r)'
  PROVE  PublicationInv'
<1>1. Onward /\ AssetsInv' /\ RecordsInv' /\ ContentInv'
  <2>1. Onward
    BY DEF Onward, Server, Content, Available
  <2> QED
    BY <2>1, AssetsKept, RecordsKept, ContentKept DEF Server, Content
<1>2. CallInv(r)' /\ CallRecord' = CallRecord
  BY <1>1, CallKeeps DEF Onward, CallRecord
<1>3. r \in CallRecord /\ w \in Slots /\ w \notin Late
  BY PublicationAssumption DEF CallInv, Slots
<1>4. /\ worker' \in [Workers -> RunRecord] /\ request' \in [Slots -> CallRecord]
      /\ request'[w] = r
      /\ \A u \in Workers \ {w} : worker'[u] = worker[u]
      /\ \A s \in Slots \ {w} : request'[s] = request[s]
  BY <1>2, <1>3 DEF PublicationInv, ActorsInv
<1>5. OwnCall(w, request[w])' /\ CallInv(request[w])'
  BY <1>2, <1>4 DEF OwnCall, CallInv
<1> QED
  BY <1>1, <1>2, <1>3, <1>4, <1>5, OneActor

\* A worker that only makes another call.
LEMMA CallStep ==
  ASSUME PublicationInv, NEW w \in Workers, NEW r, UNCHANGED <<job, worker, Server, Content>>,
         request' = [request EXCEPT ![w] = r], CallInv(r), OwnCall(w, r)
  PROVE  PublicationInv'
<1>1. worker' = [worker EXCEPT ![w] = worker[w]] /\ worker[w] \in RunRecord
  BY DEF PublicationInv, ActorsInv
<1>2. Onward /\ RecordsInv' /\ ContentInv'
  <2>1. Onward
    BY DEF Onward, Server, Content, Available
  <2> QED
    BY <2>1, RecordsKept, ContentKept DEF Server, Content
<1>3. WorkerInv(w)'
  BY <1>2, WorkerKeeps
<1>4. OwnCall(w, r)'
  BY <1>2, OwnCallKeeps
<1> QED
  BY <1>1, <1>3, <1>4, WorkerStep

\* A worker that is between two calls, or has no run.
LEMMA RunStep ==
  ASSUME PublicationInv, NEW w \in Workers, NEW k, UNCHANGED <<job, Server, Content>>,
         worker' = [worker EXCEPT ![w] = k], request' = [request EXCEPT ![w] = NoCall],
         k \in RunRecord, WorkerInv(w)'
  PROVE  PublicationInv'
<1>1. CallInv(NoCall) /\ NoCall.kind = "none"
  BY DEF NoCall, CallInv, CallRecord
<1>2. OwnCall(w, NoCall)'
  BY DEF NoCall, OwnCall
<1> QED
  BY <1>1, <1>2, WorkerStep

\* A worker without a run, or one that has not made a call yet, makes none.
LEMMA NoCallYet ==
  ASSUME PublicationInv, NEW w \in Workers, worker[w].at # "publish"
  PROVE  request[w] = NoCall
<1>1. request[w] \in CallRecord /\ request[w].kind = "none"
  BY DEF PublicationInv, ActorsInv, OwnCall, Slots
<1>2. request[w] \in [kind : {"none"}]
  BY <1>1 DEF CallRecord
<1> QED
  BY <1>2 DEF NoCall

\* The start or the end of a run.
LEMMA FreshRun ==
  ASSUME PublicationInv, NEW w \in Workers, NEW k \in RunRecord, k.at \in {"hash", "failed"},
         k.read = << >>, k.ids = << >>, Justified(k.code), k.seen <= file.stamp,
         UNCHANGED <<job, Server, Content>>, worker' = [worker EXCEPT ![w] = k]
  PROVE  WorkerInv(w)'
<1>1. worker'[w] = k /\ Len(k.ids) = 0 /\ Len(k.read) = 0
  BY DEF PublicationInv, ActorsInv
<1>2. Justified(worker[w].code)'
  BY <1>1 DEF Justified, Server, Content
<1>3. Len(Blobs[job]) \in Nat /\ job' = job /\ file' = file /\ RunRecord' = RunRecord
  BY PublicationAssumption DEF PublicationInv, ContentInv, Content, RunRecord, Codes
<1> QED
  BY <1>1, <1>2, <1>3, PublicationAssumption DEF WorkerInv, Published

LEMMA RefusedRun ==
  ASSUME PublicationInv, NEW w \in Workers, NEW code, Justified(code),
         UNCHANGED <<job, Server, Content>>, Step(w, Run("failed", code))
  PROVE  Run("failed", code) \in RunRecord /\ WorkerInv(w)'
<1> DEFINE k == Run("failed", code)
<1>1. /\ k \in RunRecord /\ k.at = "failed" /\ k.read = << >> /\ k.ids = << >>
      /\ k.code = code /\ k.seen = 0
  BY DEF Run, RunRecord, Justified
<1>2. worker' = [worker EXCEPT ![w] = k]
  BY DEF Step
<1>3. file.stamp \in Nat
  BY DEF PublicationInv, ContentInv
<1> HIDE DEF k
<1>4. PICK fresh : fresh = k
  OBVIOUS
<1>5. /\ fresh \in RunRecord /\ fresh.at \in {"hash", "failed"} /\ fresh.read = << >>
      /\ fresh.ids = << >> /\ Justified(fresh.code) /\ fresh.seen <= file.stamp
      /\ worker' = [worker EXCEPT ![w] = fresh]
  BY <1>1, <1>2, <1>3, <1>4
<1>6. WorkerInv(w)'
  BY <1>5, FreshRun
<1> QED
  BY <1>1, <1>6 DEF k

LEMMA HashCase ==
  ASSUME PublicationInv, NEW w \in Workers, Begin(w) \/ ReadChunk(w) \/ Authorize(w)
  PROVE  PublicationInv'
<1>1. /\ UNCHANGED <<job, Server, Content>> /\ worker[w].at # "publish"
      /\ request' = [request EXCEPT ![w] = NoCall]
  <2>1. UNCHANGED <<job, request, Server, Content>> /\ worker[w].at # "publish"
    BY DEF Begin, ReadChunk, Authorize
  <2>2. request[w] = NoCall /\ request \in [Slots -> CallRecord]
    BY <2>1, NoCallYet DEF PublicationInv, ActorsInv
  <2> QED
    BY <2>1, <2>2 DEF Slots
<1>2. WorkerInv(w) /\ worker[w] \in RunRecord /\ worker \in [Workers -> RunRecord]
  BY DEF PublicationInv, ActorsInv
<1>3. /\ Len(Blobs[job]) \in Nat /\ job' = job /\ file' = file /\ records' = records
      /\ RunRecord' = RunRecord
      /\ file.stamp \in Nat /\ file.chunks \in [1..Chunks -> {"registered", "altered"}]
      /\ Chunks \in Nat
  BY <1>1, PublicationAssumption DEF PublicationInv, ContentInv, Content, Server, RunRecord, Codes
<1>4. CASE Begin(w)
  <2> DEFINE k == [Run("hash", "none") EXCEPT !.seen = file.stamp]
  <2>1. /\ k \in RunRecord /\ k.at = "hash" /\ k.read = << >> /\ k.ids = << >>
        /\ k.code = "none" /\ k.seen = file.stamp
    <3>1. PICK r : r = Run("hash", "none")
      OBVIOUS
    <3>2. /\ r \in RunRecord /\ r.at = "hash" /\ r.read = << >> /\ r.ids = << >>
          /\ r.code = "none"
      BY <3>1 DEF Run, RunRecord, Codes
    <3>3. k = [r EXCEPT !.seen = file.stamp]
      BY <3>1
    <3> HIDE DEF k
    <3> QED
      BY <1>3, <3>2, <3>3 DEF RunRecord
  <2>2. worker' = [worker EXCEPT ![w] = k]
    BY <1>4 DEF Begin, Step
  <2>3. Justified("none")
    BY DEF Justified, Codes
  <2> HIDE DEF k
  <2>4. PICK fresh : fresh = k
    OBVIOUS
  <2>5. /\ fresh \in RunRecord /\ fresh.at \in {"hash", "failed"} /\ fresh.read = << >>
        /\ fresh.ids = << >> /\ Justified(fresh.code) /\ fresh.seen <= file.stamp
        /\ worker' = [worker EXCEPT ![w] = fresh]
    BY <1>3, <2>1, <2>2, <2>3, <2>4
  <2>6. WorkerInv(w)'
    BY <1>1, <2>5, FreshRun
  <2> QED
    BY <1>1, <2>5, <2>6, RunStep
<1>5. CASE ReadChunk(w)
  <2> DEFINE n == Len(worker[w].read)
             x == file.chunks[n + 1]
             k == [worker[w] EXCEPT !.read = Append(@, x)]
  <2>1. /\ worker[w].at = "hash" /\ n \in Nat /\ n < Chunks /\ x \in {"registered", "altered"}
        /\ worker' = [worker EXCEPT ![w] = k]
    <3>1. worker[w].at = "hash" /\ n < Chunks /\ worker' = [worker EXCEPT ![w] = k]
      BY <1>5 DEF ReadChunk, Step
    <3>2. worker[w].read \in Seq({"registered", "altered"})
      BY <1>2 DEF RunRecord
    <3>3. n \in Nat
      BY <3>2
    <3>4. x \in {"registered", "altered"}
      BY <1>3, <3>1, <3>3
    <3> QED
      BY <3>1, <3>3, <3>4
  <2>2. worker[w].read \in Seq({"registered", "altered"})
    BY <1>2 DEF RunRecord
  <2>3. /\ k \in RunRecord /\ k.at = "hash" /\ k.seen = worker[w].seen /\ k.ids = worker[w].ids
        /\ k.code = worker[w].code /\ k.read = Append(worker[w].read, x)
    <3>1. PICK r : r = Append(worker[w].read, x)
      OBVIOUS
    <3>2. r \in Seq({"registered", "altered"})
      BY <2>1, <2>2, <3>1
    <3>3. k = [worker[w] EXCEPT !.read = r]
      BY <3>1
    <3> HIDE DEF k
    <3> QED
      BY <1>2, <2>1, <3>1, <3>2, <3>3 DEF RunRecord
  <2>4. /\ Len(k.read) = n + 1 /\ k.read[n + 1] = x
        /\ \A i \in 1..n : k.read[i] = worker[w].read[i]
    BY <2>1, <2>2, <2>3
  <2> HIDE DEF k
  <2>5. worker'[w] = k
    BY <1>2, <2>1
  <2>6. Justified(worker[w].code)'
    BY <1>1, <1>2, <2>3, <2>5 DEF WorkerInv, Justified, Server, Content
  <2>7. k.seen <= file.stamp /\ Len(k.read) <= Chunks
    BY <1>2, <1>3, <2>1, <2>3, <2>4 DEF WorkerInv
  <2>8. k.seen = file.stamp => \A i \in 1..Len(k.read) : k.read[i] = file.chunks[i]
    <3>1. SUFFICES ASSUME k.seen = file.stamp, NEW i \in 1..Len(k.read)
                   PROVE  k.read[i] = file.chunks[i]
      OBVIOUS
    <3>2. CASE i = n + 1
      BY <2>4, <3>2
    <3>3. CASE i # n + 1
      <4>1. i \in 1..n /\ worker[w].seen = file.stamp
        BY <2>1, <2>3, <2>4, <3>1, <3>3
      <4>2. worker[w].read[i] = file.chunks[i]
        BY <1>2, <2>1, <4>1 DEF WorkerInv
      <4> QED
        BY <2>4, <4>1, <4>2
    <3> QED
      BY <3>2, <3>3
  <2>9. k.ids = << >>
    BY <1>2, <2>1, <2>3 DEF WorkerInv
  <2>10. WorkerInv(w)'
    <3>1. Published(w)' = 0 /\ Len(Blobs[job]) >= 0 /\ worker'[w].ids = << >>
      BY <1>3, <2>5, <2>9 DEF Published
    <3>2. /\ (worker[w].at = "hash")'
          /\ (worker[w] \in RunRecord)'
          /\ (worker[w].seen <= file.stamp /\ Len(worker[w].read) <= Chunks)'
          /\ (worker[w].seen = file.stamp =>
                \A i \in 1..Len(worker[w].read) : worker[w].read[i] = file.chunks[i])'
      BY <1>3, <2>3, <2>5, <2>7, <2>8
    <3> QED
      BY <1>3, <2>6, <3>1, <3>2 DEF WorkerInv
  <2> QED
    BY <1>1, <2>1, <2>3, <2>10, RunStep
<1>6. CASE Authorize(w)
  <2>1. CASE worker' = [worker EXCEPT ![w] = Run("failed", "unauthorized")]
    <3>1. Justified("unauthorized")
      BY DEF Justified, Codes
    <3> QED
      BY <1>1, <2>1, <3>1, RefusedRun, RunStep DEF Step
  <2>2. CASE worker' = [worker EXCEPT ![w] = [worker[w] EXCEPT !.at = "publish"]]
    <3> DEFINE k == [worker[w] EXCEPT !.at = "publish"]
    <3>1. /\ k \in RunRecord /\ k.at = "publish" /\ k.ids = worker[w].ids
          /\ k.code = worker[w].code /\ worker'[w] = k
      BY <1>2, <2>2 DEF RunRecord
    <3> HIDE DEF k
    <3>2. Justified(worker[w].code)'
      BY <1>1, <1>2, <3>1 DEF WorkerInv, Justified, Server, Content
    <3>3. k.ids = << >>
      BY <1>2, <1>6, <3>1 DEF WorkerInv, Authorize
    <3>4. WorkerInv(w)'
      BY <1>3, <3>1, <3>2, <3>3 DEF WorkerInv, Published
    <3> QED
      BY <1>1, <2>2, <3>1, <3>4, RunStep DEF k
  <2> QED
    BY <1>6, <2>1, <2>2 DEF Authorize, Step
<1> QED
  BY <1>4, <1>5, <1>6

LEMMA SendReservationCase ==
  ASSUME PublicationInv, NEW w \in Workers, SendReservation(w)
  PROVE  PublicationInv'
<1>1. /\ worker[w].at = "publish" /\ Published(w) < Len(Blobs[job])
      /\ UNCHANGED <<job, worker, Server, Content>>
      /\ request' = [request EXCEPT ![w] = [kind |-> "reserve", blob |-> NextBlob(w)]]
  BY DEF SendReservation, Call
<1>2. NextBlob(w) \in Range(Blobs[job])
  <2>1. Published(w) \in Nat
    BY DEF PublicationInv, ActorsInv, RunRecord, Published
  <2>2. Blobs[job] \in Seq(Range(Blobs[job]))
    BY PublicationAssumption DEF PublicationInv, ContentInv
  <2> QED
    BY <1>1, <2>1, <2>2 DEF NextBlob
<1>3. PICK c : c = [kind |-> "reserve", blob |-> NextBlob(w)]
  OBVIOUS
<1>4. CallInv(c) /\ OwnCall(w, c)
  BY <1>1, <1>2, <1>3 DEF CallInv, CallRecord, OwnCall
<1> QED
  BY <1>1, <1>3, <1>4, CallStep

LEMMA SendContentCase ==
  ASSUME PublicationInv, NEW w \in Workers, SendContent(w)
  PROVE  PublicationInv'
<1>1. PICK i : i = request[w].id
  OBVIOUS
<1>2. /\ request[w].kind = "accepted" /\ request[w].state = "pending"
      /\ UNCHANGED <<job, worker, Server, Content>>
      /\ request' = [request EXCEPT ![w] = [kind |-> "put", id |-> i]]
  BY <1>1 DEF SendContent, Call
<1>3. /\ i \in DOMAIN assets /\ i \in Nat /\ worker[w].at = "publish"
      /\ Published(w) < Len(Blobs[job]) /\ Holds(i, NextBlob(w))
  BY <1>1, <1>2 DEF PublicationInv, ActorsInv, OwnCall, CallInv, CallRecord, Slots
<1>4. PICK c : c = [kind |-> "put", id |-> i]
  OBVIOUS
<1>5. CallInv(c) /\ OwnCall(w, c)
  BY <1>3, <1>4 DEF CallInv, CallRecord, OwnCall
<1> QED
  BY <1>2, <1>4, <1>5, CallStep

LEMMA SendRecordCase ==
  ASSUME PublicationInv, NEW w \in Workers, SendRecord(w)
  PROVE  PublicationInv'
<1>1. PICK ids : ids = worker[w].ids
  OBVIOUS
<1>2. PICK c : c = [kind |-> IF job = "ingest" THEN "manifest" ELSE "score", ids |-> ids]
  OBVIOUS
<1>3. /\ worker[w].at = "publish" /\ Published(w) = Len(Blobs[job])
      /\ UNCHANGED <<job, worker, Server, Content>>
      /\ request' = [request EXCEPT ![w] = c]
  BY <1>1, <1>2 DEF SendRecord, Call
<1>4. ids \in Seq(Nat) /\ job \in {"ingest", "scoring"}
  BY <1>1 DEF PublicationInv, ActorsInv, ContentInv, RunRecord, Jobs
<1>5. Complete(ids)
  BY <1>1, <1>3, <1>4 DEF PublicationInv, ActorsInv, WorkerInv, Complete, Published
<1>6. CallInv(c) /\ OwnCall(w, c)
  <2>1. c.ids = ids /\ c.kind \in {"manifest", "score"} /\ (c.kind = "score" => job = "scoring")
    BY <1>2, <1>4
  <2>2. c \in CallRecord
    BY <1>2, <1>4 DEF CallRecord
  <2> QED
    BY <1>1, <1>3, <1>5, <2>1, <2>2 DEF CallInv, OwnCall
<1> QED
  BY <1>3, <1>6, CallStep

LEMMA ArtifactPublishedCase ==
  ASSUME PublicationInv, NEW w \in Workers, ArtifactPublished(w)
  PROVE  PublicationInv'
<1> DEFINE k == [worker[w] EXCEPT !.ids = Append(@, request[w].id)]
<1>1. PICK i, b : i = request[w].id /\ b = NextBlob(w)
  OBVIOUS
<1>2. /\ request[w].kind = "accepted" /\ request[w].state = "stored"
      /\ UNCHANGED <<job, Server, Content>>
      /\ worker' = [worker EXCEPT ![w] = k] /\ request' = [request EXCEPT ![w] = NoCall]
  BY DEF ArtifactPublished, Step, Call
<1>3. /\ i \in Nat /\ worker[w].at = "publish" /\ Published(w) < Len(Blobs[job]) /\ Kept(i, b)
  BY <1>1, <1>2 DEF PublicationInv, ActorsInv, OwnCall, CallInv, CallRecord, Slots, Kept, Holds
<1>4. PICK ids : ids = Append(worker[w].ids, i)
  OBVIOUS
<1>5. /\ worker[w] \in RunRecord /\ WorkerInv(w) /\ worker[w].ids \in Seq(Nat)
      /\ Len(Blobs[job]) \in Nat
  BY PublicationAssumption DEF PublicationInv, ActorsInv, ContentInv, RunRecord
<1>6. /\ ids \in Seq(Nat) /\ Len(ids) = Published(w) + 1 /\ ids[Published(w) + 1] = i
      /\ \A n \in 1..Published(w) : ids[n] = worker[w].ids[n]
  BY <1>3, <1>4, <1>5 DEF Published
<1>7. k = [worker[w] EXCEPT !.ids = ids]
  BY <1>1, <1>4
<1> HIDE DEF k
<1>8. /\ k \in RunRecord /\ k.at = "publish" /\ k.ids = ids /\ k.code = worker[w].code
      /\ worker'[w] = k
  BY <1>2, <1>3, <1>5, <1>6, <1>7 DEF RunRecord, PublicationInv, ActorsInv
<1>9. /\ job' = job /\ assets' = assets /\ song' = song /\ audio' = audio /\ records' = records
      /\ RunRecord' = RunRecord
  BY <1>2 DEF Server, Content, RunRecord, Codes
<1>10. Justified(worker[w].code)'
  BY <1>5, <1>8, <1>9 DEF WorkerInv, Justified
<1>11. ASSUME NEW n \in 1..Len(ids) PROVE Kept(ids[n], Blobs[job][n])
  <2>1. CASE n = Published(w) + 1
    BY <1>1, <1>3, <1>6, <2>1 DEF NextBlob
  <2>2. CASE n # Published(w) + 1
    <3>1. n \in 1..Published(w)
      BY <1>5, <1>6, <1>11, <2>2 DEF Published
    <3> QED
      BY <1>5, <1>6, <3>1 DEF WorkerInv
  <2> QED
    BY <2>1, <2>2
<1>12. Published(w)' = Len(ids) /\ Len(ids) <= Len(Blobs[job])
  BY <1>3, <1>5, <1>6, <1>8 DEF Published
<1>13. WorkerInv(w)'
  BY <1>8, <1>9, <1>10, <1>11, <1>12 DEF WorkerInv, Kept, Holds, Available
<1> QED
  BY <1>2, <1>8, <1>13, RunStep

LEMMA AcknowledgedCase ==
  ASSUME PublicationInv, NEW w \in Workers, Acknowledged(w)
  PROVE  PublicationInv'
<1> DEFINE k == [worker[w] EXCEPT !.at = "done", !.record = request[w].id]
<1>1. PICK i : i = request[w].id
  OBVIOUS
<1>2. /\ request[w].kind = "accepted" /\ request[w].state \in {"published", "written"}
      /\ UNCHANGED <<job, Server, Content>>
      /\ worker' = [worker EXCEPT ![w] = k] /\ request' = [request EXCEPT ![w] = NoCall]
  BY DEF Acknowledged, Step, Call
<1>3. request[w].id = 1 /\ records = <<worker[w].ids>> /\ worker[w].at = "publish"
  BY <1>2 DEF PublicationInv, ActorsInv, OwnCall
<1>4. worker[w] \in RunRecord /\ WorkerInv(w)
  BY DEF PublicationInv, ActorsInv
<1>5. /\ k \in RunRecord /\ k.at = "done" /\ k.record = 1 /\ k.ids = worker[w].ids
      /\ k.code = worker[w].code
  <2>1. i = 1 /\ k = [worker[w] EXCEPT !.at = "done", !.record = i]
    BY <1>1, <1>3
  <2> HIDE DEF k
  <2> QED
    BY <1>4, <2>1 DEF RunRecord
<1> HIDE DEF k
<1>6. worker'[w] = k
  BY <1>2 DEF PublicationInv, ActorsInv
<1>7. /\ job' = job /\ assets' = assets /\ song' = song /\ audio' = audio /\ records' = records
      /\ RunRecord' = RunRecord
  BY <1>2 DEF Server, Content, RunRecord, Codes
<1>8. Justified(worker[w].code)'
  BY <1>4, <1>5, <1>6, <1>7 DEF WorkerInv, Justified
<1>9. WorkerInv(w)'
  BY <1>3, <1>4, <1>5, <1>6, <1>7, <1>8 DEF WorkerInv, Published, Kept, Holds, Available
<1> QED
  BY <1>2, <1>5, <1>9, RunStep

LEMMA RunRefusedCase ==
  ASSUME PublicationInv, NEW w \in Workers, RunRefused(w)
  PROVE  PublicationInv'
<1>1. PICK code : code = request[w].code
  OBVIOUS
<1>2. /\ request[w].kind = "refused" /\ UNCHANGED <<job, Server, Content>>
      /\ Step(w, Run("failed", code)) /\ request' = [request EXCEPT ![w] = NoCall]
  BY <1>1 DEF RunRefused, Call
<1>3. Justified(code)
  BY <1>1, <1>2 DEF PublicationInv, ActorsInv, CallInv, Slots
<1> QED
  BY <1>2, <1>3, RefusedRun, RunStep DEF Step

\* The run ends; what it has asked for may stay behind.
LEMMA GiveUpCase ==
  ASSUME PublicationInv, NEW w \in Workers, GiveUp(w)
  PROVE  PublicationInv'
<1>1. Justified("network")
  BY DEF Justified, Codes
<1>2. /\ UNCHANGED <<job, Server, Content>> /\ Step(w, Run("failed", "network"))
  BY DEF GiveUp
<1>3. Run("failed", "network") \in RunRecord /\ WorkerInv(w)'
  BY <1>1, <1>2, RefusedRun
<1>4. CASE Call(w, NoCall)
  BY <1>2, <1>3, <1>4, RunStep DEF Step, Call
<1>5. ASSUME NEW l \in Late, request[w].kind \notin {"accepted", "refused"},
             request' = [request EXCEPT ![w] = NoCall, ![l] = request[w]]
      PROVE  PublicationInv'
  <2>1. Onward /\ AssetsInv' /\ RecordsInv' /\ ContentInv'
    <3>1. Onward
      BY <1>2 DEF Onward, Server, Content, Available
    <3> QED
      BY <1>2, <3>1, AssetsKept, RecordsKept, ContentKept DEF Server, Content
  <2>2. /\ w \in Slots /\ l \in Slots /\ w # l /\ w \notin Late /\ l \notin Workers
        /\ request \in [Slots -> CallRecord] /\ worker \in [Workers -> RunRecord]
        /\ NoCall \in CallRecord
    BY PublicationAssumption DEF Slots, PublicationInv, ActorsInv, NoCall, CallRecord
  <2>3. PICK c : c = request[w]
    OBVIOUS
  <2>4. /\ request'[w] = NoCall /\ request'[l] = c /\ request' \in [Slots -> CallRecord]
        /\ \A s \in Slots \ {w, l} : request'[s] = request[s]
    BY <1>5, <2>2, <2>3
  <2>5. /\ worker' \in [Workers -> RunRecord]
        /\ \A u \in Workers \ {w, l} : worker'[u] = worker[u]
    BY <1>2, <1>3, <2>2 DEF Step
  <2>6. OwnCall(w, request[w])' /\ CallInv(request[w])'
    BY <2>4 DEF NoCall, OwnCall, CallInv, CallRecord
  <2>7. CallInv(request[l])'
    <3>1. CallInv(c)
      BY <2>2, <2>3 DEF PublicationInv, ActorsInv
    <3>2. CallInv(c)'
      BY <2>1, <3>1, CallKeeps
    <3> QED
      BY <2>4, <3>2 DEF CallInv
  <2>8. /\ \A u \in Workers \cap {w, l} : WorkerInv(u)' /\ OwnCall(u, request[u])'
        /\ \A s \in {w, l} : CallInv(request[s])'
        /\ \A s \in Late \cap {w, l} : request'[s].kind \notin {"accepted", "refused"}
        /\ {w, l} \in SUBSET Slots
    BY <1>3, <1>5, <2>2, <2>3, <2>4, <2>6, <2>7
  <2>9. CallRecord' = CallRecord /\ RunRecord' = RunRecord
    BY <1>2 DEF CallRecord, RunRecord, Codes
  <2> QED
    BY <2>1, <2>4, <2>5, <2>8, <2>9, SomeActors
<1> QED
  BY <1>4, <1>5 DEF GiveUp

LEMMA DisturbCase ==
  ASSUME PublicationInv, Overwrite \/ DeleteSong \/ ExpireAudio
  PROVE  PublicationInv'
<1>1. UNCHANGED <<job, worker, request, assets, records>>
  BY DEF Overwrite, DeleteSong, ExpireAudio, Server
<1>2. ContentInv /\ Chunks \in Nat
  BY PublicationAssumption DEF PublicationInv
<1>3. ContentInv' /\ (file' = file \/ file'.stamp > file.stamp)
      /\ (song = "deleted" => song' = "deleted") /\ (audio = "expired" => audio' = "expired")
  <2>1. CASE Overwrite
    <3>1. PICK i \in 1..Chunks, x \in {"registered", "altered"} :
            file' = [chunks |-> [file.chunks EXCEPT ![i] = x], stamp |-> file.stamp + 1]
      BY <2>1 DEF Overwrite
    <3>2. song' = song /\ audio' = audio
      BY <2>1 DEF Overwrite
    <3>3. [file.chunks EXCEPT ![i] = x] \in [1..Chunks -> {"registered", "altered"}]
          /\ file.stamp + 1 \in Nat
      BY <1>2, <3>1 DEF ContentInv
    <3> QED
      BY <1>1, <1>2, <3>1, <3>2, <3>3 DEF ContentInv
  <2>2. CASE DeleteSong \/ ExpireAudio
    BY <1>1, <1>2, <2>2 DEF DeleteSong, ExpireAudio, ContentInv
  <2> QED
    BY <2>1, <2>2
<1>4. Onward
  BY <1>1, <1>3 DEF Onward, Available
<1>5. AssetsInv' /\ RecordsInv'
  BY <1>1, <1>4, AssetsKept, RecordsKept
<1>6. worker' \in [Workers -> RunRecord] /\ request' \in [Slots -> CallRecord]
  BY <1>1 DEF PublicationInv, ActorsInv
<1>7. PICK none \in SUBSET Slots : none = {}
  OBVIOUS
<1> QED
  BY <1>1, <1>3, <1>4, <1>5, <1>6, <1>7, SomeActors
-----------------------------------------------------------------------------
(* The theorems.                                                           *)

LEMMA InitInvariant == Init => PublicationInv
<1> SUFFICES ASSUME Init PROVE PublicationInv
  OBVIOUS
<1>1. AssetsInv /\ RecordsInv
  BY DEF Init, AssetsInv, RecordsInv
<1>2. ContentInv
  BY PublicationAssumption DEF Init, ContentInv, Registered
<1>3. /\ Run("idle", "none") \in RunRecord /\ NoCall \in CallRecord /\ NoCall.kind = "none"
      /\ Run("idle", "none").at = "idle" /\ Run("idle", "none").ids = << >>
      /\ Run("idle", "none").code = "none"
  BY DEF Run, RunRecord, Codes, NoCall, CallRecord
<1>4. /\ worker \in [Workers -> RunRecord] /\ request \in [Slots -> CallRecord]
      /\ \A w \in Workers : worker[w] = Run("idle", "none")
      /\ \A s \in Slots : request[s] = NoCall
      /\ Workers \subseteq Slots /\ Late \subseteq Slots
  BY <1>3 DEF Init, Slots
<1>5. Justified("none") /\ Len(Blobs[job]) \in Nat /\ Len(<< >>) = 0
  BY <1>2, PublicationAssumption DEF Justified, Codes, ContentInv
<1>6. \A w \in Workers : WorkerInv(w)
  BY <1>3, <1>4, <1>5 DEF WorkerInv, Published
<1>7. \A s \in Slots : CallInv(request[s])
  BY <1>3, <1>4 DEF CallInv
<1>8. \A w \in Workers : OwnCall(w, request[w])
  BY <1>3, <1>4 DEF OwnCall
<1> QED
  BY <1>1, <1>2, <1>3, <1>4, <1>6, <1>7, <1>8 DEF PublicationInv, ActorsInv

LEMMA StepInvariant == PublicationInv /\ [Next]_vars => PublicationInv'
<1> SUFFICES ASSUME PublicationInv, [Next]_vars PROVE PublicationInv'
  OBVIOUS
<1>1. CASE UNCHANGED vars
  <2>1. Onward /\ worker' = worker /\ request' = request
    BY <1>1 DEF vars, Onward, Available
  <2>2. AssetsInv' /\ RecordsInv' /\ ContentInv'
    BY <1>1, <2>1, AssetsKept, RecordsKept, ContentKept DEF vars
  <2>3. worker' \in [Workers -> RunRecord] /\ request' \in [Slots -> CallRecord]
    BY <2>1 DEF PublicationInv, ActorsInv
  <2>4. PICK none \in SUBSET Slots : none = {}
    OBVIOUS
  <2> QED
    BY <2>1, <2>2, <2>3, <2>4, SomeActors
<1>2. ASSUME NEW s \in Slots,
             \/ ReserveAsset(s) \/ UploadAsset(s) \/ UploadCrashes(s)
             \/ PublishManifest(s) \/ LookUpKey(s) \/ WriteScore(s)
      PROVE  PublicationInv'
  BY <1>2, ReserveCase, UploadCase, ManifestCase, LookUpCase, WriteCase
<1>3. ASSUME NEW w \in Workers, Begin(w) \/ ReadChunk(w) \/ Authorize(w)
      PROVE  PublicationInv'
  BY <1>3, HashCase
<1>4. ASSUME NEW w \in Workers,
             \/ SendReservation(w) \/ SendContent(w) \/ ArtifactPublished(w)
             \/ SendRecord(w) \/ Acknowledged(w) \/ RunRefused(w)
      PROVE  PublicationInv'
  BY <1>4, SendReservationCase, SendContentCase, ArtifactPublishedCase, SendRecordCase,
     AcknowledgedCase, RunRefusedCase
<1> QED
  BY <1>1, <1>2, <1>3, <1>4, StepCases, GiveUpCase, DisturbCase

THEOREM Invariance == Spec => []PublicationInv
  BY InitInvariant, StepInvariant, PTL DEF Spec

LEMMA TypeImplied == PublicationInv => TypeOK
<1> SUFFICES ASSUME PublicationInv PROVE TypeOK
  OBVIOUS
<1>1. assets \in Seq(Asset)
  BY DEF PublicationInv, AssetsInv
<1>2. ASSUME NEW ids, Complete(ids) PROVE ids \in Seq(DOMAIN assets)
  <2>1. ids \in Seq(Nat) /\ \A n \in 1..Len(ids) : ids[n] \in DOMAIN assets
    BY <1>2 DEF Complete, Kept, Holds
  <2> QED
    BY <2>1
<1>3. records \in Seq(Seq(DOMAIN assets))
  <2>1. CASE records = << >>
    BY <2>1
  <2>2. ASSUME NEW ids, records = <<ids>> PROVE records \in Seq(Seq(DOMAIN assets))
    <3>1. Complete(records[1]) /\ records[1] = ids
      BY <2>2 DEF PublicationInv, RecordsInv
    <3>2. ids \in Seq(DOMAIN assets)
      BY <1>2, <3>1
    <3> QED
      BY <2>2, <3>2
  <2> QED
    BY <2>1, <2>2 DEF PublicationInv, RecordsInv
<1>4. request \in [Slots -> Calls]
  <2>1. ASSUME NEW s \in Slots PROVE request[s] \in Calls
    <3>1. CallInv(request[s]) /\ request[s] \in CallRecord
      BY DEF PublicationInv, ActorsInv, CallInv
    <3>2. CASE request[s] \in [kind : {"none"}] \cup [kind : {"reserve"}, blob : Range(Blobs[job])]
      BY <3>2 DEF Calls
    <3>3. CASE request[s] \in [kind : {"put"}, id : Nat]
      <4>1. request[s].id \in DOMAIN assets
        BY <3>1, <3>3 DEF CallInv
      <4>2. request[s] \in [kind : {"put"}, id : DOMAIN assets]
        BY <3>3, <4>1
      <4> QED
        BY <4>2 DEF Calls
    <3>4. CASE request[s] \in [kind : {"manifest", "score", "new_score"}, ids : Seq(Nat)]
      <4>1. request[s].ids \in Seq(DOMAIN assets)
        BY <1>2, <3>1, <3>4 DEF CallInv
      <4>2. request[s] \in [kind : {"manifest", "score", "new_score"}, ids : Seq(DOMAIN assets)]
        BY <3>4, <4>1
      <4> QED
        BY <4>2 DEF Calls
    <3>5. CASE request[s] \in [kind : {"accepted"}, id : Nat,
                               state : {"pending", "stored", "published", "written"}]
      <4>1. CASE request[s].state \in {"pending", "stored"}
        <5>1. request[s].id \in DOMAIN assets
          BY <3>1, <3>5, <4>1 DEF CallInv
        <5>2. request[s] \in [kind : {"accepted"}, id : DOMAIN assets, state : {"pending", "stored"}]
          BY <3>5, <4>1, <5>1
        <5> QED
          BY <5>2 DEF Calls
      <4>2. CASE request[s].state \notin {"pending", "stored"}
        <5>1. request[s].id \in DOMAIN records
          BY <3>1, <3>5, <4>2 DEF CallInv
        <5>2. request[s] \in [kind : {"accepted"}, id : DOMAIN records,
                              state : {"published", "written"}]
          BY <3>5, <4>2, <5>1
        <5> QED
          BY <5>2 DEF Calls
      <4> QED
        BY <4>1, <4>2
    <3>6. CASE request[s] \in [kind : {"refused"}, code : {"deleted", "network", "artifacts",
                                                          "evidence", "audio", "conflict"}]
      BY <3>6 DEF Calls
    <3> QED
      BY <3>1, <3>2, <3>3, <3>4, <3>5, <3>6 DEF CallRecord
  <2> QED
    BY <2>1 DEF PublicationInv, ActorsInv
<1>5. ASSUME NEW w \in Workers
      PROVE  worker[w].ids \in Seq(DOMAIN assets) /\ Published(w) <= Len(Blobs[job])
  <2>1. WorkerInv(w) /\ worker[w].ids \in Seq(Nat)
    BY DEF PublicationInv, ActorsInv, RunRecord
  <2>2. \A n \in 1..Len(worker[w].ids) : worker[w].ids[n] \in DOMAIN assets
    BY <2>1 DEF WorkerInv, Published, Kept, Holds
  <2> QED
    BY <2>1, <2>2 DEF WorkerInv
<1> QED
  BY <1>1, <1>3, <1>4, <1>5 DEF TypeOK, Asset, PublicationInv, ContentInv

\* Requests and answers name rows that exist, and a run has identifiers only of
\* what it has published.
THEOREM TypeCorrect == Spec => []TypeOK
  BY Invariance, TypeImplied, PTL

\* All runs of a job that succeed name the same record of the same assets, and
\* it is the only one, whatever crashes, timeouts and late requests left.
THEOREM RunsConverge == Spec => []IdenticalRunsConverge
<1>1. ASSUME PublicationInv PROVE IdenticalRunsConverge
  <2>1. Len(records) <= 1
    <3>1. CASE records = << >>
      BY <3>1
    <3>2. CASE \E ids \in Seq(Nat) : records = <<ids>>
      BY <3>2
    <3> QED
      BY <1>1, <3>1, <3>2 DEF PublicationInv, RecordsInv
  <2>2. \A i, k \in DOMAIN assets : assets[i].blob = assets[k].blob => i = k
    BY <1>1 DEF PublicationInv, AssetsInv
  <2>3. \A w \in Workers :
          worker[w].at = "done" => worker[w].record = 1 /\ records = <<worker[w].ids>>
    BY <1>1 DEF PublicationInv, ActorsInv, WorkerInv
  <2> QED
    BY <2>1, <2>2, <2>3 DEF IdenticalRunsConverge
<1> QED
  BY <1>1, Invariance, PTL

\* No failed run makes the artifacts of another one unavailable.
THEOREM RefusalsHaveReasons == Spec => []RefusalsAreJustified
<1>1. PublicationInv => RefusalsAreJustified
  BY DEF PublicationInv, ActorsInv, WorkerInv, Justified, RefusalsAreJustified
<1> QED
  BY <1>1, Invariance, PTL

\* A model is authorized only if its whole file is the registered one at that
\* moment, although it was read piece by piece.
THEOREM ModelsAreIntact == Spec => AuthorizedModelIntact
<1>1. PublicationInv /\ [Next]_vars =>
        [\A w \in Workers :
           worker[w].at = "hash" /\ worker'[w].at = "publish" => file.chunks = Registered]_vars
  <2> SUFFICES ASSUME PublicationInv, [Next]_vars, NEW w \in Workers,
                      worker[w].at = "hash", worker'[w].at = "publish"
               PROVE  file.chunks = Registered
    OBVIOUS
  <2>1. WorkerInv(w) /\ worker \in [Workers -> RunRecord] /\ request[w].kind = "none"
    BY DEF PublicationInv, ActorsInv, OwnCall
  <2>2. worker' # worker
    OBVIOUS
  <2>3. PICK u \in Workers : \/ Begin(u) \/ ReadChunk(u) \/ Authorize(u)
                            \/ ArtifactPublished(u) \/ Acknowledged(u) \/ RunRefused(u) \/ GiveUp(u)
    BY <2>2, StepCases DEF ReserveAsset, UploadAsset, UploadCrashes, PublishManifest, LookUpKey,
       WriteScore, SendReservation, SendContent, SendRecord, Overwrite, DeleteSong, ExpireAudio, vars
  <2>4. PICK k : worker' = [worker EXCEPT ![u] = k]
    BY <2>3 DEF Begin, ReadChunk, Authorize, ArtifactPublished, Acknowledged, RunRefused, GiveUp, Step
  <2>5. u = w
    BY <2>1, <2>4
  <2>6. ~(Begin(w) \/ ArtifactPublished(w) \/ Acknowledged(w) \/ RunRefused(w) \/ GiveUp(w))
    BY <2>1 DEF Begin, ArtifactPublished, Acknowledged, RunRefused, GiveUp
  <2>7. ~ReadChunk(w)
    <3> SUFFICES ASSUME ReadChunk(w) PROVE FALSE
      OBVIOUS
    <3>1. PICK r : worker' = [worker EXCEPT ![w] = [worker[w] EXCEPT !.read = r]]
      BY DEF ReadChunk, Step
    <3>2. worker'[w].at = worker[w].at
      BY <2>1, <3>1 DEF RunRecord
    <3> QED
      BY <3>2
  <2>8. Authorize(w)
    BY <2>3, <2>5, <2>6, <2>7
  <2>9. Len(worker[w].read) = Chunks /\ worker[w].seen = file.stamp /\ worker[w].read = Registered
    <3>1. worker'[w] # Run("failed", "unauthorized")
      BY DEF Run
    <3> QED
      BY <2>1, <2>8, <3>1 DEF Authorize, Step
  <2>10. \A i \in 1..Chunks : file.chunks[i] = Registered[i]
    BY <2>1, <2>9 DEF WorkerInv
  <2>11. file.chunks \in [1..Chunks -> {"registered", "altered"}]
    BY DEF PublicationInv, ContentInv
  <2> QED
    BY <2>10, <2>11 DEF Registered
<1> QED
  BY <1>1, Invariance, PTL DEF Spec, AuthorizedModelIntact
===============================================================================
