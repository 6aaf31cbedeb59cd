-------------------------- MODULE SnapshotIngestion --------------------------
(***************************************************************************)
(* Scans that an agent uploads: POST /scans/ingest (and /scans/upload-url) *)
(* stores a pending_ingestions row and answers with a presigned URL; the   *)
(* agent puts the scan into S3, where the pending object raises an event;  *)
(* snapshot_processor takes the event from its queue, moves the object and *)
(* writes the scan's artifact and findings.                                *)
(*                                                                         *)
(* All uploads here are of one scan: the retries of an agent that had no   *)
(* answer, say.  Nothing in the tables makes the artifact of a scan        *)
(* unique.  What does is that a transaction marks the agent's key as used, *)
(* which the session flushes before its first query: the row of the key is *)
(* locked from there to the end of the transaction.                        *)
(***************************************************************************)
EXTENDS Naturals, FiniteSets

CONSTANTS
  Uploads,      \* upload_ids, all of one scan and one agent key
  Copies,       \* the copies of an upload's event in the queue
  MaxReceives,  \* maxReceiveCount of the queue, 5
  MaxFaults     \* bound: calls that fail and Lambdas that die, per upload

ASSUME IngestionAssumption ==
  /\ Copies # {} /\ IsFiniteSet(Copies) /\ "no" \notin Uploads
  /\ MaxReceives \in Nat \ {0} /\ MaxFaults \in Nat

Messages == Uploads \X Copies

NoArtifact == <<"no", "artifact">>
Free == <<"no", "transaction">>

VARIABLES
  row,        \* the status of each pending_ingestions row
  content,    \* what the agent has put, "none" before that
  pending,    \* uploads whose object is at its pending key,
  quarantine, \* in quarantine,
  product,    \* or at a key of its own for the scan
  message,    \* where each copy of the event, and the processor on it, is
  keyLock,    \* whose transaction has locked the row of the agent key
  found,      \* the artifact of the scan that a transaction has found
  artifacts,  \* artifact rows of the scan, named for the message that made
              \* them, with the upload whose payload they point to
  findings,   \* finding rows: of which artifact, and from which upload
  faults      \* what has gone wrong with each upload

ingestVars == <<row, content, pending, quarantine, product, message, keyLock,
                found, artifacts, findings, faults>>

Statuses == {"accepted", "processing", "completed", "failed_validation",
             "failed_retryable"}
Transaction == {"copy", "delete", "commit"}
Processing == {"claim", "read", "begin", "reject", "fail"} \cup Transaction

\* The type invariant.
IngestTypeOK ==
  /\ row \in [Uploads -> Statuses \cup {"none"}]
  /\ content \in [Uploads -> {"none", "scan", "invalid", "garbled"}]
  /\ pending \subseteq Uploads /\ quarantine \subseteq Uploads
  /\ product \subseteq Uploads
  /\ message \in [Messages -> [at : {"none", "queued", "acked", "dead"}
                                       \cup Processing,
                               receives : 0..MaxReceives]]
  /\ keyLock \in Messages \cup {Free}
  /\ found \in [Messages -> Messages \cup {NoArtifact}]
  /\ artifacts \subseteq Messages \X Uploads
  /\ findings \subseteq Messages \X Uploads
  /\ faults \in [Uploads -> 0..MaxFaults]

IngestInit ==
  /\ row = [u \in Uploads |-> "none"]
  /\ content = [u \in Uploads |-> "none"]
  /\ pending = {} /\ quarantine = {} /\ product = {}
  /\ message = [m \in Messages |-> [at |-> "none", receives |-> 0]]
  /\ keyLock = Free
  /\ found = [m \in Messages |-> NoArtifact]
  /\ artifacts = {} /\ findings = {}
  /\ faults = [u \in Uploads |-> 0]

Upload(m) == m[1]
At(m) == message[m].at
Goes(m, at) == message' = [message EXCEPT ![m].at = at]
RowBecomes(u, status) == row' = [row EXCEPT ![u] = status]

Fault(u) == faults[u] < MaxFaults /\ faults' = [faults EXCEPT ![u] = @ + 1]

-----------------------------------------------------------------------------
(* The agent.                                                              *)

RequestUpload(u) ==
  /\ row[u] = "none"
  /\ RowBecomes(u, "accepted")
  /\ UNCHANGED <<content, pending, quarantine, product, message, keyLock,
                 found, artifacts, findings, faults>>

\* A scan, JSON without a scan_id, or no JSON.  S3 and SQS deliver the event
\* once or more often.
Put(u) ==
  /\ row[u] # "none" /\ content[u] = "none"
  /\ \E what \in {"scan", "invalid", "garbled"} :
       content' = [content EXCEPT ![u] = what]
  /\ pending' = pending \cup {u}
  /\ \E some \in (SUBSET Copies) \ {{}} :
       message' = [m \in Messages |->
                     IF m[1] = u /\ m[2] \in some
                       THEN [message[m] EXCEPT !.at = "queued"] ELSE message[m]]
  /\ UNCHANGED <<row, quarantine, product, keyLock, found, artifacts,
                 findings, faults>>

-----------------------------------------------------------------------------
(* snapshot_processor, on one copy of the event.                           *)

\* Mutant: the processor takes nothing but retries.
RetriesOnly == {"failed_retryable"}

Claimable == {"accepted", "failed_retryable"}

Receive(m) ==
  /\ At(m) = "queued"
  /\ message' = [message EXCEPT ![m] =
                   [at |-> IF row[Upload(m)] \in Claimable THEN "claim" ELSE "acked",
                    receives |-> @.receives + 1]]
  /\ UNCHANGED <<row, content, pending, quarantine, product, keyLock, found,
                 artifacts, findings, faults>>

\* _claim_pending_ingestion: session.get answers with the row that was read
\* before, so that the condition is not evaluated again.
Claim(m) ==
  /\ At(m) = "claim"
  /\ RowBecomes(Upload(m), "processing")
  /\ Goes(m, "read")
  /\ UNCHANGED <<content, pending, quarantine, product, keyLock, found,
                 artifacts, findings, faults>>

Read(m) ==
  /\ At(m) = "read"
  /\ Goes(m, IF Upload(m) \notin pending THEN "fail"
             ELSE CASE content[Upload(m)] = "garbled" -> "fail"
                    [] content[Upload(m)] = "invalid" -> "reject"
                    [] OTHER                          -> "begin")
  /\ UNCHANGED <<row, content, pending, quarantine, product, keyLock, found,
                 artifacts, findings, faults>>

\* Mutant: nothing is written to the key's row.
KeyUnused == TRUE

KeyLockFree == keyLock = Free

\* Mutant: the object is deleted before it is copied.
DeletedFirst == [begin |-> "delete", delete |-> "copy", copy |-> "commit",
                 commit |-> "acked"]

\* What follows each step of the transaction.
After == [begin |-> "copy", copy |-> "delete", delete |-> "commit",
          commit |-> "acked"]

\* The key's last_used_at is written, and the transaction sees the artifact
\* that others have committed.
Begin(m) ==
  /\ At(m) = "begin" /\ KeyLockFree
  /\ keyLock' = m
  /\ found' = [found EXCEPT ![m] =
       IF artifacts = {} THEN NoArtifact ELSE (CHOOSE a \in artifacts : TRUE)[1]]
  /\ Goes(m, After.begin)
  /\ UNCHANGED <<row, content, pending, quarantine, product, artifacts,
                 findings, faults>>

\* Its commit or its rollback.
EndTransaction(m) ==
  /\ keyLock' = IF keyLock = m THEN Free ELSE keyLock
  /\ found' = [found EXCEPT ![m] = NoArtifact]

\* _move_s3_object, before the SQL of the transaction is committed.
Copy(m) ==
  /\ At(m) = "copy"
  /\ IF Upload(m) \in pending
       THEN /\ product' = product \cup {Upload(m)}
            /\ Goes(m, After.copy) /\ UNCHANGED <<keyLock, found>>
       ELSE Goes(m, "fail") /\ EndTransaction(m) /\ UNCHANGED product
  /\ UNCHANGED <<row, content, pending, quarantine, artifacts, findings, faults>>

Delete(m) ==
  /\ At(m) = "delete"
  /\ pending' = pending \ {Upload(m)}
  /\ Goes(m, After.delete)
  /\ UNCHANGED <<row, content, quarantine, product, keyLock, found, artifacts,
                 findings, faults>>

\* The artifact that was found is pointed to the new payload and its findings
\* replaced; or there is a new one.  The row is completed with it.
Stored(m) ==
  LET a == IF found[m] = NoArtifact THEN m ELSE found[m] IN
  /\ artifacts' = {b \in artifacts : b[1] # a} \cup {<<a, Upload(m)>>}
  /\ findings'  = {f \in findings : f[1] # a} \cup {<<a, Upload(m)>>}
  /\ RowBecomes(Upload(m), "completed")

Commit(m) ==
  /\ At(m) = "commit"
  /\ Stored(m) /\ EndTransaction(m) /\ Goes(m, After.commit)
  /\ UNCHANGED <<content, pending, quarantine, product, faults>>

\* The commit took effect, and its answer is lost.
CommitUnknown(m) ==
  /\ At(m) = "commit" /\ Fault(Upload(m))
  /\ Stored(m) /\ EndTransaction(m) /\ Goes(m, "fail")
  /\ UNCHANGED <<content, pending, quarantine, product>>

\* ValidationIngestionError: to quarantine, if the object is still there.
Reject(m) ==
  LET there == {Upload(m)} \cap pending IN
  /\ At(m) = "reject"
  /\ quarantine' = quarantine \cup there
  /\ pending' = pending \ there
  /\ RowBecomes(Upload(m), "failed_validation")
  /\ Goes(m, "acked")
  /\ UNCHANGED <<content, product, keyLock, found, artifacts, findings, faults>>

\* The move or the mark fails: the message is acknowledged all the same.
RejectFails(m) ==
  LET there == {Upload(m)} \cap pending IN
  /\ At(m) = "reject" /\ Fault(Upload(m))
  /\ \E copied \in SUBSET there, deleted \in SUBSET there :
       /\ deleted \subseteq copied
       /\ quarantine' = quarantine \cup copied /\ pending' = pending \ deleted
  /\ UNCHANGED row \/ RowBecomes(Upload(m), "failed_validation")
  /\ Goes(m, "acked")
  /\ UNCHANGED <<content, product, keyLock, found, artifacts, findings>>

\* A message whose Lambda failed is visible again, or dead-lettered.
AfterFailure(m) == IF message[m].receives < MaxReceives THEN "queued" ELSE "dead"

\* After the rollback of any other exception: failed_retryable, and the
\* message again.
Fail(m) ==
  /\ At(m) = "fail"
  /\ RowBecomes(Upload(m), "failed_retryable")
  /\ Goes(m, AfterFailure(m))
  /\ UNCHANGED <<content, pending, quarantine, product, keyLock, found,
                 artifacts, findings, faults>>

\* A call of S3 or the database raises, of S3 perhaps after it took effect.
CallFails(m) ==
  /\ At(m) \in {"read", "begin"} \cup Transaction /\ Fault(Upload(m))
  /\ Goes(m, "fail") /\ EndTransaction(m)
  /\ \/ At(m) = "delete" /\ pending' = pending \ {Upload(m)} /\ UNCHANGED product
     \/ At(m) = "copy" /\ product' = product \cup ({Upload(m)} \cap pending)
          /\ UNCHANGED pending
     \/ UNCHANGED <<pending, product>>
  /\ UNCHANGED <<row, content, quarantine, artifacts, findings>>

\* The Lambda dies or times out, or cannot mark the failure either.  The row
\* stays as it is.
ProcessorDies(m) ==
  /\ At(m) \in Processing /\ Fault(Upload(m))
  /\ Goes(m, AfterFailure(m)) /\ EndTransaction(m)
  /\ UNCHANGED <<row, content, pending, quarantine, product, artifacts, findings>>

-----------------------------------------------------------------------------
IngestNext ==
  \/ \E u \in Uploads : RequestUpload(u) \/ Put(u)
  \/ \E m \in Messages :
       \/ Receive(m) \/ Claim(m) \/ Read(m) \/ Begin(m) \/ Copy(m) \/ Delete(m)
       \/ Commit(m) \/ CommitUnknown(m) \/ Reject(m) \/ RejectFails(m) \/ Fail(m)
       \/ CallFails(m) \/ ProcessorDies(m)

IngestSpec == IngestInit /\ [][IngestNext]_ingestVars

-----------------------------------------------------------------------------
(* Properties.                                                             *)

\* However often a scan is uploaded and its events are delivered, it has one
\* artifact, all its findings are from the payload the artifact points to, and
\* that payload is in S3.
OneArtifactPerScan ==
  /\ Cardinality(artifacts) <= 1
  /\ findings = artifacts
  /\ \A a \in artifacts : a[2] \in product

\* A payload that was put is never lost: it is somewhere in the bucket.
PayloadKept ==
  \A u \in Uploads :
    content[u] # "none" => u \in pending \cup quarantine \cup product

\* The messages of u that S3 raised, and that nothing works on any more.
Delivered(u) == {c \in Copies : At(<<u, c>>) # "none"}
Quiet(u) ==
  content[u] # "none" /\ \A c \in Delivered(u) : At(<<u, c>>) \in {"acked", "dead"}

\* An upload whose event was delivered once, and of which nothing failed, ends
\* as what its content deserves.
SettlesAlone ==
  \A u \in Uploads :
    Quiet(u) /\ faults[u] = 0 /\ Cardinality(Delivered(u)) = 1 =>
      row[u] = CASE content[u] = "scan"    -> "completed"
                 [] content[u] = "invalid" -> "failed_validation"
                 [] OTHER                  -> "failed_retryable"

\* No upload is lost, neither its payload nor what becomes of it.
UploadsEnd == PayloadKept /\ SettlesAlone

\* Whatever was uploaded comes to one artifact and to an end.
UploadsSettle == OneArtifactPerScan /\ UploadsEnd

=============================================================================
