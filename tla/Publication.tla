------------------------------ MODULE Publication ------------------------------
(***************************************************************************)
(* How a run of the ingest or of the scoring worker becomes a manifest or  *)
(* a score of the control plane.  A worker checks its model's file         *)
(* (ModelAuthorizer.authorize), then publishes over HTTP: for every        *)
(* artifact it reserves an asset and uploads the content unless the asset  *)
(* is stored already, then it posts the manifest or the score.             *)
(*                                                                         *)
(* Workers run the same job, as after a redelivery: the content of the     *)
(* artifacts is a function of the job (ADR 0005).  A worker may crash or   *)
(* time out at any call, and the request it leaves behind may be lost or   *)
(* may still be executed later, after the job was taken up again.          *)
(***************************************************************************)
EXTENDS Naturals, Sequences, SequencesExt

CONSTANTS Workers,
          Late,       \* places for requests whose sender has gone: the bound on these
          Blobs,      \* by job: the artifacts, in the order they are published
          Chunks,     \* number of reads it takes to hash the model's file
          MaxStamp,   \* bound on the changes of the model's file
          MaxFaults   \* bound on calls that fail

Jobs == {"ingest", "scoring"}

ASSUME PublicationAssumption ==
  /\ DOMAIN Blobs = Jobs
  /\ \A j \in Jobs : Blobs[j] \in Seq(Range(Blobs[j]))
  /\ Workers \cap Late = {}
  /\ Chunks \in Nat /\ MaxStamp \in Nat /\ MaxFaults \in Nat

VARIABLES job,      \* what the workers run
          worker,   \* the run of each worker
          request,  \* the call in progress of each worker, and the late ones
          assets,   \* the song's stored_assets, by identifier
          records,  \* its manifests or the phrase's scores, by identifier
          song, audio,
          file,     \* the model's file
          faults

vars == <<job, worker, request, assets, records, song, audio, file, faults>>

Slots == Workers \cup Late
NoCall == [kind |-> "none"]
Registered == [i \in 1..Chunks |-> "registered"]

Run(at, code) == [at |-> at, seen |-> 0, read |-> << >>, ids |-> << >>, record |-> 0,
                  code |-> code]

Init ==
  /\ job \in Jobs
  /\ worker = [w \in Workers |-> Run("idle", "none")]
  /\ request = [s \in Slots |-> NoCall]
  /\ assets = << >> /\ records = << >>
  /\ song = "live" /\ audio = "stored"
  /\ file = [chunks |-> Registered, stamp |-> 0]
  /\ faults = 0

Step(w, change) == worker' = [worker EXCEPT ![w] = change]
Server == <<assets, records>>
Content == <<song, audio, file>>
-----------------------------------------------------------------------------
(* The model's file.                                                       *)

\* a run starts, or the job is delivered again: the file is looked at first
Begin(w) ==
  /\ worker[w].at \in {"idle", "failed"}
  /\ Step(w, [Run("hash", "none") EXCEPT !.seen = file.stamp])
  /\ UNCHANGED <<job, request, Server, Content, faults>>

ReadChunk(w) ==
  /\ worker[w].at = "hash" /\ Len(worker[w].read) < Chunks
  /\ Step(w, [worker[w] EXCEPT !.read = Append(@, file.chunks[Len(@) + 1])])
  /\ UNCHANGED <<job, request, Server, Content, faults>>

\* Faulty variant of Authorize: the second look at the file is forgotten.
AuthorizeUnchecked(w) ==
  /\ worker[w].at = "hash" /\ Len(worker[w].read) = Chunks
  /\ Step(w, IF worker[w].read = Registered THEN [worker[w] EXCEPT !.at = "publish"]
             ELSE Run("failed", "unauthorized"))
  /\ UNCHANGED <<job, request, Server, Content, faults>>

Authorize(w) ==
  /\ worker[w].at = "hash" /\ Len(worker[w].read) = Chunks
  /\ Step(w, IF worker[w].seen = file.stamp /\ worker[w].read = Registered
             THEN [worker[w] EXCEPT !.at = "publish"]
             ELSE Run("failed", "unauthorized"))
  /\ UNCHANGED <<job, request, Server, Content, faults>>

\* somebody writes a part of the file
Overwrite ==
  /\ file.stamp < MaxStamp
  /\ \E i \in 1..Chunks, x \in {"registered", "altered"} :
       file' = [chunks |-> [file.chunks EXCEPT ![i] = x], stamp |-> file.stamp + 1]
  /\ UNCHANGED <<job, worker, request, Server, song, audio, faults>>
-----------------------------------------------------------------------------
(* The control plane: one action per transaction.                          *)

\* a late request has nobody to answer to
Answer(s, response) ==
  request' = [request EXCEPT ![s] = IF s \in Late THEN NoCall ELSE response]
Accepted(id, state) == [kind |-> "accepted", id |-> id, state |-> state]
Refused(code) == [kind |-> "refused", code |-> code]

\* Faulty variant of ReserveAsset: every reservation makes an asset.
ReserveAnother(s) ==
  /\ request[s].kind = "reserve"
  /\ IF song = "deleted" THEN Answer(s, Refused("deleted")) /\ UNCHANGED assets
     ELSE /\ assets' = Append(assets, [blob |-> request[s].blob, state |-> "pending",
                                       object |-> FALSE])
          /\ Answer(s, Accepted(Len(assets) + 1, "pending"))
  /\ UNCHANGED <<job, worker, records, Content, faults>>

\* reserve_asset, under the song's lock: one asset per description
ReserveAsset(s) ==
  /\ request[s].kind = "reserve"
  /\ LET known == {i \in DOMAIN assets : assets[i].blob = request[s].blob}
     IN  \/ song = "deleted" /\ Answer(s, Refused("deleted")) /\ UNCHANGED assets
         \/ /\ song = "live" /\ known = {}
            /\ assets' = Append(assets, [blob |-> request[s].blob, state |-> "pending",
                                         object |-> FALSE])
            /\ Answer(s, Accepted(Len(assets) + 1, "pending"))
         \/ /\ song = "live" /\ UNCHANGED assets
            /\ \E i \in known : Answer(s, Accepted(i, assets[i].state))
  /\ UNCHANGED <<job, worker, records, Content, faults>>

\* upload_asset, under the asset's lock
UploadAsset(s) ==
  /\ request[s].kind = "put"
  /\ IF song = "deleted" THEN Answer(s, Refused("deleted")) /\ UNCHANGED assets
     ELSE /\ assets' = [assets EXCEPT ![request[s].id].state = "stored",
                                      ![request[s].id].object = TRUE]
          /\ Answer(s, Accepted(request[s].id, "stored"))
  /\ UNCHANGED <<job, worker, records, Content, faults>>

\* Faulty variant of UploadCrashes: the row is committed before the object is put.
UploadCrashesCommitted(s) ==
  /\ request[s].kind = "put" /\ song = "live" /\ faults < MaxFaults
  /\ assets' = [assets EXCEPT ![request[s].id].state = "stored"]
  /\ Answer(s, Refused("network"))
  /\ faults' = faults + 1
  /\ UNCHANGED <<job, worker, records, Content>>

\* the server dies after it put the object and before it commits
UploadCrashes(s) ==
  /\ request[s].kind = "put" /\ song = "live" /\ faults < MaxFaults
  /\ assets' = [assets EXCEPT ![request[s].id].object = TRUE]
  /\ Answer(s, Refused("network"))
  /\ faults' = faults + 1
  /\ UNCHANGED <<job, worker, records, Content>>

Available(i) == assets[i].state = "stored" /\ assets[i].object

\* publish_manifest, under the song's lock: the manifest names its artifacts,
\* and one that is published already keeps its record
PublishManifest(s) ==
  /\ request[s].kind = "manifest"
  /\ LET known == {i \in DOMAIN records : records[i] = request[s].ids}
     IN  IF song = "deleted" THEN Answer(s, Refused("deleted")) /\ UNCHANGED records
         ELSE IF \E n \in DOMAIN request[s].ids : ~Available(request[s].ids[n])
         THEN Answer(s, Refused("artifacts")) /\ UNCHANGED records
         ELSE IF known = {}
         THEN records' = Append(records, request[s].ids)
              /\ Answer(s, Accepted(Len(records) + 1, "published"))
         ELSE UNCHANGED records /\ \E i \in known : Answer(s, Accepted(i, "published"))
  /\ UNCHANGED <<job, worker, assets, Content, faults>>

\* _require_score_evidence: an available asset for every digest
EvidenceAvailable ==
  \A n \in DOMAIN Blobs["scoring"] :
    \E i \in DOMAIN assets : assets[i].blob = Blobs["scoring"][n] /\ Available(i)

\* Faulty variant of LookUpKey: a key that is taken is a conflict.
LookUpKeyRefused(s) ==
  /\ request[s].kind = "score"
  /\ IF records = << >> THEN request' = [request EXCEPT ![s].kind = "new_score"]
     ELSE Answer(s, Refused("conflict"))
  /\ UNCHANGED <<job, worker, Server, Content, faults>>

\* write_score, before any lock: the record of the idempotency key
LookUpKey(s) ==
  /\ request[s].kind = "score"
  /\ IF records = << >>
     THEN request' = [request EXCEPT ![s].kind = "new_score"]
     ELSE IF song = "deleted" THEN Answer(s, Refused("deleted"))
     ELSE IF ~EvidenceAvailable THEN Answer(s, Refused("evidence"))
     ELSE Answer(s, Accepted(1, "written"))
  /\ UNCHANGED <<job, worker, Server, Content, faults>>

\* the rest of it, with the song, the session and the phrase locked: the key's
\* uniqueness is checked by the database
WriteScore(s) ==
  /\ request[s].kind = "new_score"
  /\ IF song = "deleted" THEN Answer(s, Refused("deleted")) /\ UNCHANGED records
     ELSE IF audio = "expired" THEN Answer(s, Refused("audio")) /\ UNCHANGED records
     ELSE IF ~EvidenceAvailable THEN Answer(s, Refused("evidence")) /\ UNCHANGED records
     ELSE IF records # << >> THEN Answer(s, Refused("conflict")) /\ UNCHANGED records
     ELSE /\ records' = Append(records, request[s].ids)
          /\ Answer(s, Accepted(1, "written"))
  /\ UNCHANGED <<job, worker, assets, Content, faults>>

DeleteSong ==
  /\ song = "live" /\ song' = "deleted"
  /\ UNCHANGED <<job, worker, request, Server, audio, file, faults>>

ExpireAudio ==
  /\ audio = "stored" /\ audio' = "expired"
  /\ UNCHANGED <<job, worker, request, Server, song, file, faults>>
-----------------------------------------------------------------------------
(* The publisher of a worker.                                              *)

Published(w) == Len(worker[w].ids)
NextBlob(w) == Blobs[job][Published(w) + 1]

Call(w, call) == request' = [request EXCEPT ![w] = call]

\* publish_artifact, _archive: the next artifact is reserved
SendReservation(w) ==
  /\ worker[w].at = "publish" /\ request[w] = NoCall
  /\ Published(w) < Len(Blobs[job])
  /\ Call(w, [kind |-> "reserve", blob |-> NextBlob(w)])
  /\ UNCHANGED <<job, worker, Server, Content, faults>>

\* and uploaded, if the control plane has only reserved it
SendContent(w) ==
  /\ request[w].kind = "accepted" /\ request[w].state = "pending"
  /\ Call(w, [kind |-> "put", id |-> request[w].id])
  /\ UNCHANGED <<job, worker, Server, Content, faults>>

\* Faulty variant of ArtifactPublished: the answer is kept and taken again.
ArtifactPublishedAgain(w) ==
  /\ request[w].kind = "accepted" /\ request[w].state = "stored"
  /\ Step(w, [worker[w] EXCEPT !.ids = Append(@, request[w].id)])
  /\ UNCHANGED <<job, request, Server, Content, faults>>

ArtifactPublished(w) ==
  /\ request[w].kind = "accepted" /\ request[w].state = "stored"
  /\ Step(w, [worker[w] EXCEPT !.ids = Append(@, request[w].id)])
  /\ Call(w, NoCall)
  /\ UNCHANGED <<job, Server, Content, faults>>

\* publish_manifest, publish: the manifest names the assets, the score their digests
SendRecord(w) ==
  /\ worker[w].at = "publish" /\ request[w] = NoCall
  /\ Published(w) = Len(Blobs[job])
  /\ Call(w, [kind |-> IF job = "ingest" THEN "manifest" ELSE "score", ids |-> worker[w].ids])
  /\ UNCHANGED <<job, worker, Server, Content, faults>>

Acknowledged(w) ==
  /\ request[w].kind = "accepted" /\ request[w].state \in {"published", "written"}
  /\ Step(w, [worker[w] EXCEPT !.at = "done", !.record = request[w].id])
  /\ Call(w, NoCall)
  /\ UNCHANGED <<job, Server, Content, faults>>

\* an answer that is not a success ends the run
RunRefused(w) ==
  /\ request[w].kind = "refused"
  /\ Step(w, Run("failed", request[w].code))
  /\ Call(w, NoCall)
  /\ UNCHANGED <<job, Server, Content, faults>>

\* a timeout or a crash of the worker: its request is lost or left behind
GiveUp(w) ==
  /\ worker[w].at = "publish" /\ request[w] # NoCall /\ faults < MaxFaults
  /\ Step(w, Run("failed", "network"))
  /\ \/ Call(w, NoCall)
     \/ \E l \in Late :
          /\ request[l] = NoCall /\ request[w].kind \notin {"accepted", "refused"}
          /\ request' = [request EXCEPT ![w] = NoCall, ![l] = request[w]]
  /\ faults' = faults + 1
  /\ UNCHANGED <<job, Server, Content>>
-----------------------------------------------------------------------------
Serve(s) == ReserveAsset(s) \/ UploadAsset(s) \/ PublishManifest(s) \/ LookUpKey(s) \/ WriteScore(s)
Work(w) == \/ Begin(w) \/ ReadChunk(w) \/ Authorize(w)
           \/ SendReservation(w) \/ SendContent(w) \/ ArtifactPublished(w)
           \/ SendRecord(w) \/ Acknowledged(w) \/ RunRefused(w)
Disturb == \/ Overwrite \/ DeleteSong \/ ExpireAudio
           \/ \E s \in Slots : UploadCrashes(s)
           \/ \E w \in Workers : GiveUp(w)

Next == (\E s \in Slots : Serve(s)) \/ (\E w \in Workers : Work(w)) \/ Disturb

\* calls are answered, a worker goes on, and a job that failed is delivered again
Fairness == /\ \A s \in Slots : WF_vars(Serve(s))
            /\ \A w \in Workers : WF_vars(Work(w))

Spec == Init /\ [][Next]_vars /\ Fairness
-----------------------------------------------------------------------------
(* Properties.                                                             *)

Calls ==
  [kind : {"none"}] \cup [kind : {"reserve"}, blob : Range(Blobs[job])]
  \cup [kind : {"put"}, id : DOMAIN assets]
  \cup [kind : {"manifest", "score", "new_score"}, ids : Seq(DOMAIN assets)]
  \cup [kind : {"accepted"}, id : DOMAIN assets, state : {"pending", "stored"}]
  \cup [kind : {"accepted"}, id : DOMAIN records, state : {"published", "written"}]
  \cup [kind : {"refused"},
        code : {"deleted", "network", "artifacts", "evidence", "audio", "conflict"}]

\* Requests and answers name rows that exist, and a run has published what it
\* has identifiers of.  (the publishers' checks of the responses)
TypeOK ==
  /\ job \in Jobs /\ song \in {"live", "deleted"} /\ audio \in {"stored", "expired"}
  /\ assets \in Seq([blob : Range(Blobs[job]), state : {"pending", "stored"}, object : BOOLEAN])
  /\ records \in Seq(Seq(DOMAIN assets))
  /\ request \in [Slots -> Calls]
  /\ \A w \in Workers : worker[w].ids \in Seq(DOMAIN assets) /\ Published(w) <= Len(Blobs[job])

\* However often a job is run, and whatever was left behind by runs that failed,
\* all runs that succeed name the same record, of the same assets; it is there,
\* and it is the only one.  (ADR 0005: identical jobs must converge)
IdenticalRunsConverge ==
  /\ Len(records) <= 1
  /\ \A i, k \in DOMAIN assets : assets[i].blob = assets[k].blob => i = k
  /\ \A w \in Workers :
       worker[w].at = "done" => worker[w].record = 1 /\ records = <<worker[w].ids>>

\* A run is refused only for a reason outside of it: what a crash, a timeout or a
\* late request has left never makes the artifacts of a later run unavailable.
\* (upload_asset, _validate_manifest_artifacts, _require_score_evidence)
RefusalsAreJustified ==
  \A w \in Workers :
    LET code == worker[w].code
    IN  /\ code \notin {"artifacts", "evidence"}
        /\ code = "deleted" => song = "deleted"
        /\ code = "audio" => audio = "expired"
        /\ code = "conflict" => records # << >>

\* When a model is authorized its file is, at that moment, the registered one,
\* although it was read piece by piece while others could write it.
\* (ModelAuthorizer.authorize)
AuthorizedModelIntact ==
  [][\A w \in Workers :
       worker[w].at = "hash" /\ worker'[w].at = "publish" => file.chunks = Registered]_vars

\* If calls fail finitely often, every run comes to the record, unless the song is
\* deleted, the audio expires or the model's file is changed.  (ADR 0005)
RunsComeThrough ==
  <>(\/ song = "deleted" \/ audio = "expired" \/ file.stamp > 0
     \/ \A w \in Workers : worker[w].at = "done")
================================================================================
