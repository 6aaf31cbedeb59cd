---------------------- MODULE IngestionAndBoardsProofs ----------------------
(***************************************************************************)
(* Theorems about SnapshotIngestion for any number of uploads, of copies   *)
(* of their events, of receives and of faults: the uploads of a scan come  *)
(* to one artifact, no payload is lost, and an upload that nothing         *)
(* disturbed ends as its content deserves.  And about Dashboards for every *)
(* set of rows and of bodies of the preferences: the views of a tenant's   *)
(* data agree, and count all of it.                                        *)
(***************************************************************************)
EXTENDS IngestionAndBoards, SumTheorems

Places == {"none", "queued", "acked", "dead"} \cup Processing
MessageType == [Messages -> [at : Places, receives : 0..MaxReceives]]

\* An upload without content has no event; a message that waits may be
\* received once more.
Early ==
  /\ \A m \in Messages : At(m) = "none" => message[m].receives = 0
  /\ \A m \in Messages : At(m) = "queued" => message[m].receives < MaxReceives
  /\ \A u \in Uploads : content[u] = "none" =>
       /\ row[u] \in {"none", "accepted"}
       /\ \A c \in Copies : At(<<u, c>>) = "none"

\* Whoever is in its transaction, and nobody else, has the key's row; it has
\* found the artifact that there is, and moves its payload before it ends.
Locked ==
  /\ \A m \in Messages : At(m) \in Transaction <=> keyLock = m
  /\ \A m \in Messages : At(m) \in Transaction =>
       \/ artifacts = {} /\ found[m] = NoArtifact
       \/ \E u \in Uploads : artifacts = {<<found[m], u>>}
  /\ \A m \in Messages : At(m) \in {"delete", "commit"} => Upload(m) \in product

\* OneArtifactPerScan, without the count.
OneAtMost ==
  /\ artifacts = {} \/ \E a \in Messages \X Uploads : artifacts = {a} /\ a[2] \in product
  /\ findings = artifacts

Deserved(u) ==
  CASE content[u] = "scan"    -> "completed"
    [] content[u] = "invalid" -> "failed_validation"
    [] OTHER                  -> "failed_retryable"

\* Where the only event of an upload of which nothing failed may be.
Course(m) ==
  LET u == Upload(m) IN
  /\ At(m) \in {"queued", "claim"} => row[u] \in Claimable
  /\ At(m) \in {"queued", "claim", "read", "begin", "copy", "fail", "reject"} => u \in pending
  /\ At(m) = "reject" => content[u] = "invalid"
  /\ At(m) \in {"begin"} \cup Transaction => content[u] = "scan"
  /\ At(m) = "fail" => content[u] = "garbled"
  /\ At(m) \in {"acked", "dead"} => row[u] = Deserved(u)

Alone(m) ==
  /\ At(m) # "none" /\ faults[Upload(m)] = 0
  /\ \A c \in Copies : At(<<Upload(m), c>>) # "none" => c = m[2]

OnCourse == \A m \in Messages : Alone(m) => Course(m)

IngestInv ==
  IngestTypeOK /\ Early /\ Locked /\ OneAtMost /\ PayloadKept /\ OnCourse

-----------------------------------------------------------------------------
(* The shape of a step.                                                    *)

\* The message m goes on to `at'; the other messages, and the rows and
\* objects of the other uploads, stay as they are.
Moves(m, at) ==
  /\ message' \in MessageType
  /\ message'[m].at = at
  /\ at = "queued" => message'[m].receives < MaxReceives
  /\ \A k \in Messages \ {m} : message'[k] = message[k]

Works(m, at) ==
  /\ At(m) # "none" /\ at # "none"
  /\ Moves(m, at)
  /\ content' = content
  /\ row' \in [Uploads -> Statuses \cup {"none"}]
  /\ faults' \in [Uploads -> 0..MaxFaults]
  /\ pending' \subseteq Uploads /\ quarantine' \subseteq Uploads /\ product' \subseteq Uploads
  /\ \A u \in Uploads \ {Upload(m)} :
       row'[u] = row[u] /\ faults'[u] = faults[u] /\ (u \in pending' <=> u \in pending)
  /\ product \subseteq product' /\ quarantine \subseteq quarantine'
  /\ Upload(m) \in pending => Upload(m) \in pending' \cup quarantine' \cup product'

\* What a step of m has to do with the transactions.
Apart(m, at) ==
  /\ At(m) \notin Transaction /\ at \notin Transaction
  /\ keyLock' = keyLock /\ artifacts' = artifacts /\ findings' = findings
  /\ found' \in [Messages -> Messages \cup {NoArtifact}]
  /\ \A k \in Messages \ {m} : found'[k] = found[k]

Inside(m, at) ==
  /\ At(m) \in Transaction /\ at \in Transaction
  /\ at \in {"delete", "commit"} => Upload(m) \in product'
  /\ UNCHANGED <<keyLock, found, artifacts, findings>>

Ends(m, at) ==
  /\ At(m) \in Transaction /\ at \notin Transaction
  /\ EndTransaction(m)
  /\ \/ UNCHANGED <<artifacts, findings>>
     \/ Stored(m) /\ At(m) = "commit"

Locks(m, at) ==
  /\ At(m) = "begin" /\ at = "copy"
  /\ keyLock = Free /\ keyLock' = m
  /\ found' \in [Messages -> Messages \cup {NoArtifact}]
  /\ \A k \in Messages \ {m} : found'[k] = found[k]
  /\ \/ artifacts = {} /\ found'[m] = NoArtifact
     \/ \E u \in Uploads : artifacts = {<<found'[m], u>>}
  /\ UNCHANGED <<artifacts, findings>>

Transacts(m, at) == Apart(m, at) \/ Locks(m, at) \/ Inside(m, at) \/ Ends(m, at)

\* Without a fault the only event of an upload goes on with its course.
Orderly(m) == faults'[Upload(m)] = 0 => faults[Upload(m)] = 0 /\ (Course(m) => Course(m)')

-----------------------------------------------------------------------------
(* Tuples and records.                                                     *)

LEMMA Names ==
  ASSUME NEW m \in Messages
  PROVE  /\ Upload(m) \in Uploads /\ m[2] \in Copies /\ m = <<Upload(m), m[2]>>
         /\ m # Free /\ m # NoArtifact
<1>1. Upload(m) \in Uploads /\ m[2] \in Copies /\ m = <<Upload(m), m[2]>>
  BY DEF Messages, Upload
<1>2. Upload(m) # "no"
  BY <1>1, IngestionAssumption
<1> QED
  BY <1>1, <1>2 DEF Free, NoArtifact, Upload

LEMMA PlacesAre ==
  /\ Transaction \subseteq Processing /\ Processing \subseteq Places
  /\ {"none", "queued", "acked", "dead"} \subseteq Places
  /\ Transaction = {"copy", "delete", "commit"}
  /\ Processing = {"claim", "read", "begin", "reject", "fail", "copy", "delete", "commit"}
BY DEF Transaction, Processing, Places

LEMMA MessagesAreTyped ==
  ASSUME IngestTypeOK
  PROVE  /\ message \in MessageType
         /\ \A m \in Messages : At(m) \in Places /\ message[m].receives \in 0..MaxReceives
<1>1. message \in MessageType
  BY DEF IngestTypeOK, MessageType, Places
<1> QED
  BY <1>1 DEF MessageType, At

\* A message that goes on with its receives.
LEMMA GoesMoves ==
  ASSUME IngestTypeOK, NEW m \in Messages, NEW at \in Places, Goes(m, at),
         at = "queued" => message[m].receives < MaxReceives
  PROVE  Moves(m, at)
<1> DEFINE q == [message[m] EXCEPT !.at = at]
<1>1. message \in MessageType /\ message[m] \in [at : Places, receives : 0..MaxReceives]
  BY MessagesAreTyped DEF MessageType
<1>2. q \in [at : Places, receives : 0..MaxReceives] /\ q.at = at /\ q.receives = message[m].receives
  BY <1>1
<1>3. message' = [message EXCEPT ![m] = q]
  BY DEF Goes
<1> HIDE DEF q
<1>4. message' \in MessageType /\ message'[m] = q /\ \A k \in Messages \ {m} : message'[k] = message[k]
  BY <1>1, <1>2, <1>3 DEF MessageType
<1> QED
  BY <1>2, <1>4 DEF Moves

\* The row of an upload takes a status, or a fault is counted for it.
LEMMA RowChanges ==
  ASSUME IngestTypeOK, NEW u \in Uploads, NEW status \in Statuses, RowBecomes(u, status)
  PROVE  /\ row' \in [Uploads -> Statuses \cup {"none"}] /\ row'[u] = status
         /\ \A w \in Uploads \ {u} : row'[w] = row[w]
BY DEF RowBecomes, IngestTypeOK

LEMMA FaultCounts ==
  ASSUME IngestTypeOK, NEW u \in Uploads, Fault(u)
  PROVE  /\ faults' \in [Uploads -> 0..MaxFaults] /\ faults'[u] # 0
         /\ \A w \in Uploads \ {u} : faults'[w] = faults[w]
<1>1. faults \in [Uploads -> 0..MaxFaults] /\ MaxFaults \in Nat
  BY IngestionAssumption DEF IngestTypeOK
<1>2. faults[u] \in 0..MaxFaults /\ faults[u] + 1 \in 0..MaxFaults /\ faults[u] + 1 # 0
  BY <1>1 DEF Fault
<1>3. faults' = [faults EXCEPT ![u] = faults[u] + 1]
  BY DEF Fault
<1> QED
  BY <1>1, <1>2, <1>3

-----------------------------------------------------------------------------
(* The invariant, for a step of that shape.                                *)

LEMMA EarlyKeeps ==
  ASSUME IngestInv, NEW m \in Messages, NEW at, Works(m, at)
  PROVE  Early'
<1>1. /\ message'[m].at = at /\ at # "none" /\ At(m) # "none"
      /\ at = "queued" => message'[m].receives < MaxReceives
      /\ \A k \in Messages \ {m} : message'[k] = message[k]
      /\ content' = content
      /\ \A u \in Uploads \ {Upload(m)} : row'[u] = row[u]
  BY DEF Works, Moves
<1>2. \A k \in Messages : At(k)' = "none" => message'[k].receives = 0
  BY <1>1 DEF IngestInv, Early, At
<1>3. \A k \in Messages : At(k)' = "queued" => message'[k].receives < MaxReceives
  BY <1>1 DEF IngestInv, Early, At
<1>4. ASSUME NEW u \in Uploads, content'[u] = "none"
      PROVE  row'[u] \in {"none", "accepted"} /\ \A c \in Copies : At(<<u, c>>)' = "none"
  <2>1. row[u] \in {"none", "accepted"} /\ \A c \in Copies : At(<<u, c>>) = "none"
    BY <1>1, <1>4 DEF IngestInv, Early
  <2>2. u # Upload(m)
    BY <1>1, <2>1, Names
  <2>3. \A c \in Copies : <<u, c>> \in Messages \ {m}
    BY <2>2 DEF Messages, Upload
  <2> QED
    BY <1>1, <2>1, <2>2, <2>3 DEF At
<1> QED
  BY <1>2, <1>3, <1>4 DEF Early

LEMMA PayloadKeeps ==
  ASSUME IngestInv, NEW m \in Messages, NEW at, Works(m, at)
  PROVE  PayloadKept'
<1> SUFFICES ASSUME NEW u \in Uploads, content'[u] # "none"
             PROVE  u \in pending' \cup quarantine' \cup product'
  BY DEF PayloadKept
<1>1. u \in pending \cup quarantine \cup product
  BY DEF Works, IngestInv, PayloadKept
<1> QED
  BY <1>1 DEF Works

LEMMA CourseKeeps ==
  ASSUME IngestInv, NEW m \in Messages, NEW at, Works(m, at), Orderly(m)
  PROVE  OnCourse'
<1>1. /\ message'[m].at = at /\ at # "none" /\ At(m) # "none"
      /\ \A k \in Messages \ {m} : message'[k] = message[k]
      /\ content' = content
      /\ \A u \in Uploads \ {Upload(m)} :
           row'[u] = row[u] /\ faults'[u] = faults[u] /\ (u \in pending' <=> u \in pending)
  BY DEF Works, Moves
<1>2. \A k \in Messages : At(k)' # "none" <=> At(k) # "none"
  BY <1>1 DEF At
<1>3. ASSUME NEW k \in Messages, Alone(k)' PROVE Course(k)'
  <2>1. Upload(k) \in Uploads /\ k[2] \in Copies /\ k = <<Upload(k), k[2]>>
    BY Names
  <2>2. Upload(m) \in Uploads /\ m[2] \in Copies /\ m = <<Upload(m), m[2]>>
    BY Names
  <2>3. /\ At(k) # "none" /\ faults'[Upload(k)] = 0
        /\ \A c \in Copies : At(<<Upload(k), c>>) # "none" => c = k[2]
    <3>1. \A c \in Copies : <<Upload(k), c>> \in Messages
      BY <2>1 DEF Messages
    <3> QED
      BY <1>2, <1>3, <3>1 DEF Alone, Upload
  <2>4. CASE Upload(k) = Upload(m)
    <3>1. k = m
      BY <1>1, <2>1, <2>2, <2>3, <2>4
    <3>2. faults[Upload(m)] = 0 /\ (Course(m) => Course(m)')
      BY <2>3, <3>1 DEF Orderly
    <3>3. Alone(m)
      BY <2>3, <3>1, <3>2 DEF Alone
    <3> QED
      BY <3>1, <3>2, <3>3 DEF IngestInv, OnCourse
  <2>5. CASE Upload(k) # Upload(m)
    <3>1. /\ message'[k] = message[k]
          /\ row'[Upload(k)] = row[Upload(k)] /\ faults'[Upload(k)] = faults[Upload(k)]
          /\ (Upload(k) \in pending' <=> Upload(k) \in pending)
      BY <1>1, <2>1, <2>5
    <3>2. Alone(k)
      BY <2>3, <3>1 DEF Alone
    <3>3. Course(k)
      BY <3>2 DEF IngestInv, OnCourse
    <3> QED
      BY <1>1, <3>1, <3>3 DEF Course, At, Upload, Deserved
  <2> QED
    BY <2>4, <2>5
<1> QED
  BY <1>3 DEF OnCourse

LEMMA LockKeeps ==
  ASSUME IngestInv, NEW m \in Messages, NEW at, Works(m, at), Transacts(m, at)
  PROVE  Locked' /\ OneAtMost'
<1>1. /\ message'[m].at = at /\ \A k \in Messages \ {m} : message'[k] = message[k]
      /\ product \subseteq product'
  BY DEF Works, Moves
<1>2. At(m)' = at /\ \A k \in Messages \ {m} : At(k)' = At(k)
  BY <1>1 DEF At
<1>3. m \in Messages /\ m # Free /\ m # NoArtifact /\ Upload(m) \in Uploads
  BY Names
<1>4. Locked /\ OneAtMost
  BY DEF IngestInv
<1>5. "delete" \in Transaction /\ "commit" \in Transaction /\ "copy" \in Transaction /\ "begin" \notin Transaction
  BY DEF Transaction
<1>6. artifacts' = artifacts /\ findings' = findings => OneAtMost'
  BY <1>1, <1>4 DEF OneAtMost
<1>7. CASE Apart(m, at)
  <2>1. \A k \in Messages : At(k)' \in Transaction <=> keyLock' = k
    BY <1>2, <1>4, <1>7 DEF Apart, Locked
  <2>2. \A k \in Messages : At(k)' \in Transaction =>
          \/ artifacts' = {} /\ found'[k] = NoArtifact
          \/ \E u \in Uploads : artifacts' = {<<found'[k], u>>}
    BY <1>2, <1>4, <1>7 DEF Apart, Locked
  <2>3. \A k \in Messages : At(k)' \in {"delete", "commit"} => Upload(k) \in product'
    BY <1>1, <1>2, <1>4, <1>5, <1>7 DEF Apart, Locked
  <2> QED
    BY <1>6, <1>7, <2>1, <2>2, <2>3 DEF Apart, Locked, Upload
<1>8. CASE Locks(m, at)
  <2>1. \A k \in Messages : At(k) \notin Transaction
    BY <1>4, <1>8, Names DEF Locks, Locked
  <2>2. \A k \in Messages : At(k)' \in Transaction <=> keyLock' = k
    BY <1>2, <1>5, <1>8, <2>1 DEF Locks
  <2>3. \A k \in Messages : At(k)' \in Transaction =>
          \/ artifacts' = {} /\ found'[k] = NoArtifact
          \/ \E u \in Uploads : artifacts' = {<<found'[k], u>>}
    BY <1>2, <1>8, <2>1 DEF Locks
  <2>4. \A k \in Messages : At(k)' \in {"delete", "commit"} => Upload(k) \in product'
    BY <1>2, <1>5, <1>8, <2>1 DEF Locks
  <2> QED
    BY <1>6, <1>8, <2>2, <2>3, <2>4 DEF Locks, Locked, Upload
<1>9. CASE Inside(m, at)
  <2>1. \A k \in Messages : At(k)' \in Transaction <=> keyLock' = k
    BY <1>2, <1>4, <1>9 DEF Inside, Locked
  <2>2. \A k \in Messages : At(k)' \in Transaction =>
          \/ artifacts' = {} /\ found'[k] = NoArtifact
          \/ \E u \in Uploads : artifacts' = {<<found'[k], u>>}
    BY <1>2, <1>4, <1>9 DEF Inside, Locked
  <2>3. \A k \in Messages : At(k)' \in {"delete", "commit"} => Upload(k) \in product'
    BY <1>1, <1>2, <1>4, <1>9 DEF Inside, Locked
  <2> QED
    BY <1>6, <1>9, <2>1, <2>2, <2>3 DEF Inside, Locked, Upload
<1>10. CASE Ends(m, at)
  <2>1. keyLock = m /\ keyLock' = Free /\ at \notin Transaction
    BY <1>4, <1>10 DEF Ends, EndTransaction, Locked
  <2>2. \A k \in Messages : At(k)' \notin Transaction
    BY <1>2, <1>4, <2>1 DEF Locked
  <2>3. Locked'
    BY <1>5, <2>1, <2>2, Names DEF Locked
  <2>4. CASE UNCHANGED <<artifacts, findings>>
    BY <1>6, <2>3, <2>4
  <2>5. CASE Stored(m) /\ At(m) = "commit"
    <3> DEFINE a == IF found[m] = NoArtifact THEN m ELSE found[m]
    <3>1. /\ artifacts' = {b \in artifacts : b[1] # a} \cup {<<a, Upload(m)>>}
          /\ findings' = {f \in findings : f[1] # a} \cup {<<a, Upload(m)>>}
      BY <2>5 DEF Stored
    <3>2. \/ artifacts = {} /\ found[m] = NoArtifact
          \/ \E u \in Uploads : artifacts = {<<found[m], u>>}
      BY <1>4, <1>10 DEF Ends, Locked
    <3>3. a \in Messages
      BY <1>3, <3>2 DEF IngestInv, IngestTypeOK
    <3>4. \A b \in artifacts : b[1] = a
      <4>1. CASE artifacts = {}
        BY <4>1
      <4>2. CASE \E u \in Uploads : artifacts = {<<found[m], u>>}
        <5>1. PICK u \in Uploads : artifacts = {<<found[m], u>>}
          BY <4>2
        <5>2. <<found[m], u>> \in Messages \X Uploads
          BY <5>1 DEF IngestInv, IngestTypeOK
        <5>3. found[m] \in Messages
          BY <5>2
        <5>4. found[m] # NoArtifact
          BY <5>3, Names
        <5> QED
          BY <5>1, <5>4
      <4> QED
        BY <3>2, <4>1, <4>2
    <3>5. artifacts' = {<<a, Upload(m)>>} /\ findings' = artifacts'
      BY <1>4, <3>1, <3>4 DEF OneAtMost
    <3>6. Upload(m) \in product'
      BY <1>1, <1>4, <2>5 DEF Locked
    <3> HIDE DEF a
    <3>7. PICK x : x = <<a, Upload(m)>>
      OBVIOUS
    <3>8. x \in Messages \X Uploads /\ x[2] = Upload(m) /\ artifacts' = {x}
      BY <1>3, <3>3, <3>5, <3>7
    <3> QED
      BY <2>3, <3>5, <3>6, <3>8 DEF OneAtMost
  <2> QED
    BY <1>10, <2>4, <2>5 DEF Ends
<1> QED
  BY <1>7, <1>8, <1>9, <1>10 DEF Transacts

LEMMA TypeKeeps ==
  ASSUME IngestInv, NEW m \in Messages, NEW at, Works(m, at), Transacts(m, at)
  PROVE  IngestTypeOK'
<1>1. /\ row' \in [Uploads -> Statuses \cup {"none"}]
      /\ content' \in [Uploads -> {"none", "scan", "invalid", "garbled"}]
      /\ pending' \subseteq Uploads /\ quarantine' \subseteq Uploads /\ product' \subseteq Uploads
      /\ message' \in [Messages -> [at : {"none", "queued", "acked", "dead"} \cup Processing,
                                    receives : 0..MaxReceives]]
      /\ faults' \in [Uploads -> 0..MaxFaults]
  BY DEF Works, Moves, MessageType, Places, IngestInv, IngestTypeOK
<1>2. keyLock' \in Messages \cup {Free} /\ found' \in [Messages -> Messages \cup {NoArtifact}]
  BY DEF Transacts, Apart, Locks, Inside, Ends, EndTransaction, IngestInv, IngestTypeOK
<1>3. OneAtMost'
  BY LockKeeps
<1>4. artifacts' \subseteq Messages \X Uploads /\ findings' \subseteq Messages \X Uploads
  BY <1>3 DEF OneAtMost
<1> QED
  BY <1>1, <1>2, <1>4 DEF IngestTypeOK

LEMMA WorkKeeps ==
  ASSUME IngestInv, NEW m \in Messages, NEW at, Works(m, at), Transacts(m, at), Orderly(m)
  PROVE  IngestInv'
<1> QED
  BY EarlyKeeps, PayloadKeeps, CourseKeeps, LockKeeps, TypeKeeps DEF IngestInv

-----------------------------------------------------------------------------
(* The processor's steps are of that shape.                                *)

\* What a step may do to the rows, the objects and the count of faults of its
\* upload; of nothing it does to them is the rest a consequence.
LEMMA WorksFrom ==
  ASSUME IngestInv, NEW m \in Messages, NEW at \in Places, Goes(m, at),
         At(m) # "none", at # "none",
         at = "queued" => message[m].receives < MaxReceives,
         content' = content,
         UNCHANGED row \/ \E status \in Statuses : RowBecomes(Upload(m), status),
         UNCHANGED faults \/ Fault(Upload(m)),
         pending' \in {pending, pending \ {Upload(m)}},
         quarantine' \in {quarantine, quarantine \cup {Upload(m)}},
         product' \in {product, product \cup {Upload(m)}},
         Upload(m) \in pending => Upload(m) \in pending' \cup quarantine' \cup product'
  PROVE  Works(m, at)
<1>1. IngestTypeOK /\ Upload(m) \in Uploads
  BY Names DEF IngestInv
<1>2. Moves(m, at)
  BY <1>1, GoesMoves
<1>3. /\ row' \in [Uploads -> Statuses \cup {"none"}]
      /\ \A u \in Uploads \ {Upload(m)} : row'[u] = row[u]
  <2>1. CASE UNCHANGED row
    BY <1>1, <2>1 DEF IngestTypeOK
  <2>2. CASE \E status \in Statuses : RowBecomes(Upload(m), status)
    BY <1>1, <2>2, RowChanges
  <2> QED
    BY <2>1, <2>2
<1>4. /\ faults' \in [Uploads -> 0..MaxFaults]
      /\ \A u \in Uploads \ {Upload(m)} : faults'[u] = faults[u]
  <2>1. CASE UNCHANGED faults
    BY <1>1, <2>1 DEF IngestTypeOK
  <2>2. CASE Fault(Upload(m))
    BY <1>1, <2>2, FaultCounts
  <2> QED
    BY <2>1, <2>2
<1>5. /\ pending' \subseteq Uploads /\ quarantine' \subseteq Uploads /\ product' \subseteq Uploads
      /\ product \subseteq product' /\ quarantine \subseteq quarantine'
      /\ \A u \in Uploads \ {Upload(m)} : u \in pending' <=> u \in pending
  BY <1>1 DEF IngestTypeOK
<1> QED
  BY <1>2, <1>3, <1>4, <1>5 DEF Works

\* A faulty step owes nothing to the course.
LEMMA FaultIsOrderly ==
  ASSUME IngestInv, NEW m \in Messages, Fault(Upload(m))
  PROVE  Orderly(m)
BY Names, FaultCounts DEF Orderly, IngestInv

\* The transaction of a message that is given up: none, or its own.
LEMMA EndingTransacts ==
  ASSUME IngestInv, NEW m \in Messages, NEW at, EndTransaction(m), at \notin Transaction,
         UNCHANGED <<artifacts, findings>>
  PROVE  Transacts(m, at)
<1>1. CASE At(m) \in Transaction
  BY <1>1 DEF Transacts, Ends
<1>2. CASE At(m) \notin Transaction
  <2>1. keyLock' = keyLock
    BY <1>2 DEF EndTransaction, IngestInv, Locked
  <2>2. found' \in [Messages -> Messages \cup {NoArtifact}] /\ \A k \in Messages \ {m} : found'[k] = found[k]
    BY DEF EndTransaction, IngestInv, IngestTypeOK
  <2> QED
    BY <1>2, <2>1, <2>2 DEF Transacts, Apart
<1> QED
  BY <1>1, <1>2

LEMMA ApartTransacts ==
  ASSUME IngestInv, NEW m \in Messages, NEW at, At(m) \notin Transaction, at \notin Transaction,
         UNCHANGED <<keyLock, found, artifacts, findings>>
  PROVE  Transacts(m, at)
BY DEF Transacts, Apart, IngestInv, IngestTypeOK

LEMMA ReceiveKeeps ==
  ASSUME IngestInv, NEW m \in Messages, Receive(m)
  PROVE  IngestInv'
<1> DEFINE at == IF row[Upload(m)] \in Claimable THEN "claim" ELSE "acked"
           q == [at |-> at, receives |-> message[m].receives + 1]
<1>1. /\ At(m) = "queued" /\ message' = [message EXCEPT ![m] = q]
      /\ UNCHANGED <<row, content, pending, quarantine, product, keyLock, found,
                     artifacts, findings, faults>>
  BY DEF Receive
<1>2. /\ message \in MessageType /\ message[m].receives \in 0..MaxReceives
      /\ message[m].receives < MaxReceives
  BY <1>1, MessagesAreTyped DEF IngestInv, Early
<1>3. message[m].receives + 1 \in 0..MaxReceives
  BY <1>2, IngestionAssumption
<1>4. at \in {"claim", "acked"} /\ at \in Places /\ at \notin Transaction
  BY PlacesAre
<1>5. Moves(m, at)
  <2>1. q \in [at : Places, receives : 0..MaxReceives] /\ q.at = at
    BY <1>3, <1>4
  <2> HIDE DEF q
  <2>2. message' \in MessageType /\ message'[m] = q /\ \A k \in Messages \ {m} : message'[k] = message[k]
    BY <1>1, <1>2, <2>1 DEF MessageType
  <2> QED
    BY <1>4, <2>1, <2>2 DEF Moves
<1>6. Works(m, at)
  BY <1>1, <1>4, <1>5 DEF Works, IngestInv, IngestTypeOK
<1>7. Transacts(m, at)
  BY <1>1, <1>4, ApartTransacts DEF Transaction
<1>8. Orderly(m)
  <2>1. at' = at /\ At(m)' = at
    BY <1>1, <1>5 DEF Moves, At, Upload
  <2>2. Course(m) => at = "claim"
    BY <1>1 DEF Course
  <2> QED
    BY <1>1, <2>1, <2>2 DEF Orderly, Course, Upload, Deserved, Transaction
<1> QED
  BY <1>6, <1>7, <1>8, WorkKeeps

LEMMA ClaimKeeps ==
  ASSUME IngestInv, NEW m \in Messages, Claim(m)
  PROVE  IngestInv'
<1>1. /\ At(m) = "claim" /\ RowBecomes(Upload(m), "processing") /\ Goes(m, "read")
      /\ UNCHANGED <<content, pending, quarantine, product, keyLock, found,
                     artifacts, findings, faults>>
  BY DEF Claim
<1>2. Works(m, "read")
  BY <1>1, WorksFrom, PlacesAre DEF Statuses
<1>3. Transacts(m, "read")
  BY <1>1, ApartTransacts DEF Transaction
<1>4. At(m)' = "read"
  BY <1>2 DEF Works, Moves, At
<1>5. Orderly(m)
  BY <1>1, <1>4 DEF Orderly, Course, Upload, Transaction
<1> QED
  BY <1>2, <1>3, <1>5, WorkKeeps

LEMMA ReadKeeps ==
  ASSUME IngestInv, NEW m \in Messages, Read(m)
  PROVE  IngestInv'
<1>1. PICK at \in {"fail", "reject", "begin"} :
        /\ Goes(m, at)
        /\ Upload(m) \in pending =>
             at = CASE content[Upload(m)] = "garbled" -> "fail"
                    [] content[Upload(m)] = "invalid" -> "reject"
                    [] OTHER                          -> "begin"
  BY DEF Read
<1>2. /\ At(m) = "read"
      /\ UNCHANGED <<row, content, pending, quarantine, product, keyLock, found,
                     artifacts, findings, faults>>
  BY DEF Read
<1>3. Works(m, at)
  BY <1>1, <1>2, WorksFrom, PlacesAre
<1>4. Transacts(m, at)
  BY <1>1, <1>2, ApartTransacts DEF Transaction
<1>5. At(m)' = at
  BY <1>3 DEF Works, Moves, At
<1>6. content[Upload(m)] \in {"scan", "invalid", "garbled"}
  <2>1. content[Upload(m)] # "none"
    BY <1>2, Names DEF IngestInv, Early
  <2> QED
    BY <2>1, Names DEF IngestInv, IngestTypeOK
<1>7. Orderly(m)
  BY <1>1, <1>2, <1>5, <1>6 DEF Orderly, Course, Upload, Transaction
<1> QED
  BY <1>3, <1>4, <1>7, WorkKeeps

LEMMA BeginKeeps ==
  ASSUME IngestInv, NEW m \in Messages, Begin(m)
  PROVE  IngestInv'
<1>1. /\ At(m) = "begin" /\ keyLock = Free /\ keyLock' = m /\ Goes(m, "copy")
      /\ found' = [found EXCEPT ![m] =
           IF artifacts = {} THEN NoArtifact ELSE (CHOOSE a \in artifacts : TRUE)[1]]
      /\ UNCHANGED <<row, content, pending, quarantine, product, artifacts, findings, faults>>
  BY DEF Begin, KeyLockFree, After
<1>2. Works(m, "copy")
  BY <1>1, WorksFrom, PlacesAre
<1>3. found \in [Messages -> Messages \cup {NoArtifact}]
  BY DEF IngestInv, IngestTypeOK
<1>5. /\ found' \in [Messages -> Messages \cup {NoArtifact}]
      /\ \A k \in Messages \ {m} : found'[k] = found[k]
      /\ \/ artifacts = {} /\ found'[m] = NoArtifact
         \/ \E u \in Uploads : artifacts = {<<found'[m], u>>}
  <2>1. CASE artifacts = {}
    BY <1>1, <1>3, <2>1
  <2>2. CASE artifacts # {}
    <3>1. PICK a \in Messages \X Uploads : artifacts = {a}
      BY <2>2 DEF IngestInv, OneAtMost
    <3>2. (CHOOSE b \in artifacts : TRUE) = a
      BY <3>1
    <3>3. a = <<a[1], a[2]>> /\ a[1] \in Messages /\ a[2] \in Uploads
      OBVIOUS
    <3>4. found' = [found EXCEPT ![m] = a[1]]
      BY <1>1, <2>2, <3>2
    <3> QED
      BY <1>3, <3>1, <3>3, <3>4
  <2> QED
    BY <2>1, <2>2
<1>6. Transacts(m, "copy")
  BY <1>1, <1>5 DEF Transacts, Locks
<1>7. At(m)' = "copy"
  BY <1>2 DEF Works, Moves, At
<1>8. Orderly(m)
  BY <1>1, <1>7 DEF Orderly, Course, Upload, Transaction
<1> QED
  BY <1>2, <1>6, <1>8, WorkKeeps

LEMMA CopyKeeps ==
  ASSUME IngestInv, NEW m \in Messages, Copy(m)
  PROVE  IngestInv'
<1>1. At(m) = "copy" /\ UNCHANGED <<row, content, pending, quarantine, artifacts, findings, faults>>
  BY DEF Copy
<1>2. CASE Upload(m) \in pending
  <2>1. /\ product' = product \cup {Upload(m)} /\ Goes(m, "delete")
        /\ UNCHANGED <<keyLock, found>>
    BY <1>2 DEF Copy, After
  <2>2. Works(m, "delete")
    BY <1>1, <2>1, WorksFrom, PlacesAre
  <2>3. Transacts(m, "delete")
    BY <1>1, <2>1 DEF Transacts, Inside, Transaction
  <2>4. At(m)' = "delete"
    BY <2>2 DEF Works, Moves, At
  <2>5. Orderly(m)
    BY <1>1, <2>4 DEF Orderly, Course, Upload, Transaction
  <2> QED
    BY <2>2, <2>3, <2>5, WorkKeeps
<1>3. CASE Upload(m) \notin pending
  <2>1. Goes(m, "fail") /\ EndTransaction(m) /\ UNCHANGED product
    BY <1>3 DEF Copy
  <2>2. Works(m, "fail")
    BY <1>1, <2>1, WorksFrom, PlacesAre
  <2>3. Transacts(m, "fail")
    BY <1>1, <2>1, EndingTransacts DEF Transaction
  <2>4. Orderly(m)
    BY <1>1, <1>3 DEF Orderly, Course
  <2> QED
    BY <2>2, <2>3, <2>4, WorkKeeps
<1> QED
  BY <1>2, <1>3

LEMMA DeleteKeeps ==
  ASSUME IngestInv, NEW m \in Messages, Delete(m)
  PROVE  IngestInv'
<1>1. /\ At(m) = "delete" /\ pending' = pending \ {Upload(m)} /\ Goes(m, "commit")
      /\ UNCHANGED <<row, content, quarantine, product, keyLock, found,
                     artifacts, findings, faults>>
  BY DEF Delete, After
<1>2. Upload(m) \in product
  BY <1>1 DEF IngestInv, Locked
<1>3. Works(m, "commit")
  BY <1>1, <1>2, WorksFrom, PlacesAre
<1>4. Transacts(m, "commit")
  BY <1>1, <1>2 DEF Transacts, Inside, Transaction
<1>5. At(m)' = "commit"
  BY <1>3 DEF Works, Moves, At
<1>6. Orderly(m)
  BY <1>1, <1>5 DEF Orderly, Course, Upload, Transaction
<1> QED
  BY <1>3, <1>4, <1>6, WorkKeeps

LEMMA CommitKeeps ==
  ASSUME IngestInv, NEW m \in Messages, Commit(m) \/ CommitUnknown(m)
  PROVE  IngestInv'
<1>1. PICK at \in {"acked", "fail"} :
        /\ Goes(m, at) /\ (at = "fail" => Fault(Upload(m))) /\ (at = "acked" => UNCHANGED faults)
  BY DEF Commit, CommitUnknown, After
<1>2. /\ At(m) = "commit" /\ Stored(m) /\ EndTransaction(m)
      /\ UNCHANGED <<content, pending, quarantine, product>>
  BY DEF Commit, CommitUnknown
<1>3. RowBecomes(Upload(m), "completed")
  BY <1>2 DEF Stored
<1>4. Works(m, at)
  BY <1>1, <1>2, <1>3, WorksFrom, PlacesAre DEF Statuses
<1>5. Transacts(m, at)
  BY <1>1, <1>2 DEF Transacts, Ends, Transaction
<1>6. At(m)' = at
  BY <1>4 DEF Works, Moves, At
<1>7. Orderly(m)
  <2>1. CASE at = "fail"
    BY <1>1, <2>1, FaultIsOrderly
  <2>2. CASE at = "acked"
    <3>1. row'[Upload(m)] = "completed"
      BY <1>3, Names, RowChanges DEF Statuses, IngestInv
    <3> QED
      BY <1>1, <1>2, <1>6, <2>2, <3>1 DEF Orderly, Course, Upload, Transaction, Deserved
  <2> QED
    BY <2>1, <2>2
<1> QED
  BY <1>4, <1>5, <1>7, WorkKeeps

LEMMA RejectKeeps ==
  ASSUME IngestInv, NEW m \in Messages, Reject(m) \/ RejectFails(m)
  PROVE  IngestInv'
<1>1. /\ At(m) = "reject" /\ Goes(m, "acked")
      /\ UNCHANGED <<content, product, keyLock, found, artifacts, findings>>
      /\ UNCHANGED faults \/ Fault(Upload(m))
      /\ UNCHANGED row \/ RowBecomes(Upload(m), "failed_validation")
  BY DEF Reject, RejectFails
<1>2. /\ pending' \in {pending, pending \ {Upload(m)}}
      /\ quarantine' \in {quarantine, quarantine \cup {Upload(m)}}
      /\ Upload(m) \in pending => Upload(m) \in pending' \cup quarantine'
  <2> DEFINE there == {Upload(m)} \cap pending
  <2>1. CASE Reject(m)
    <3>1. quarantine' = quarantine \cup there /\ pending' = pending \ there
      BY <2>1 DEF Reject
    <3>2. there = {} \/ there = {Upload(m)}
      OBVIOUS
    <3> QED
      BY <3>1, <3>2
  <2>2. CASE RejectFails(m)
    <3>1. PICK copied \in SUBSET there, deleted \in SUBSET there :
            /\ deleted \subseteq copied
            /\ quarantine' = quarantine \cup copied /\ pending' = pending \ deleted
      BY <2>2 DEF RejectFails
    <3>2. copied \in {{}, {Upload(m)}} /\ deleted \in {{}, {Upload(m)}}
      OBVIOUS
    <3>3. deleted = {Upload(m)} => copied = {Upload(m)}
      BY <3>1, <3>2
    <3>4. CASE deleted = {}
      BY <3>1, <3>2, <3>4
    <3>5. CASE deleted = {Upload(m)}
      BY <3>1, <3>3, <3>5
    <3> QED
      BY <3>2, <3>4, <3>5
  <2> QED
    BY <2>1, <2>2
<1>3. Works(m, "acked")
  BY <1>1, <1>2, WorksFrom, PlacesAre DEF Statuses
<1>4. Transacts(m, "acked")
  BY <1>1, ApartTransacts DEF Transaction
<1>5. At(m)' = "acked"
  BY <1>3 DEF Works, Moves, At
<1>6. Orderly(m)
  <2>1. CASE RejectFails(m)
    BY <2>1, FaultIsOrderly DEF RejectFails
  <2>2. CASE Reject(m)
    <3>1. row'[Upload(m)] = "failed_validation" /\ faults' = faults
      BY <2>2, Names, RowChanges DEF Reject, Statuses, IngestInv
    <3> QED
      BY <1>1, <1>5, <3>1 DEF Orderly, Course, Upload, Transaction, Deserved
  <2> QED
    BY <2>1, <2>2
<1> QED
  BY <1>3, <1>4, <1>6, WorkKeeps

\* A message that is visible again has receives left.
LEMMA AfterFailureIs ==
  ASSUME NEW m \in Messages
  PROVE  /\ AfterFailure(m) \in {"queued", "dead"}
         /\ AfterFailure(m) = "queued" => message[m].receives < MaxReceives
BY DEF AfterFailure

LEMMA FailKeeps ==
  ASSUME IngestInv, NEW m \in Messages, Fail(m)
  PROVE  IngestInv'
<1>1. PICK at : at = AfterFailure(m)
  OBVIOUS
<1>2. /\ At(m) = "fail" /\ RowBecomes(Upload(m), "failed_retryable") /\ Goes(m, at)
      /\ UNCHANGED <<content, pending, quarantine, product, keyLock, found,
                     artifacts, findings, faults>>
  BY <1>1 DEF Fail
<1>3. at \in {"queued", "dead"} /\ (at = "queued" => message[m].receives < MaxReceives)
  BY <1>1, AfterFailureIs
<1>4. Works(m, at)
  BY <1>2, <1>3, WorksFrom, PlacesAre DEF Statuses
<1>5. Transacts(m, at)
  BY <1>2, <1>3, ApartTransacts DEF Transaction
<1>6. At(m)' = at
  BY <1>4 DEF Works, Moves, At
<1>7. row'[Upload(m)] = "failed_retryable"
  BY <1>2, Names, RowChanges DEF Statuses, IngestInv
<1>8. Orderly(m)
  BY <1>2, <1>3, <1>6, <1>7 DEF Orderly, Course, Upload, Transaction, Deserved, Claimable
<1> QED
  BY <1>4, <1>5, <1>8, WorkKeeps

LEMMA CallFailsKeeps ==
  ASSUME IngestInv, NEW m \in Messages, CallFails(m)
  PROVE  IngestInv'
<1>1. /\ At(m) \in {"read", "begin"} \cup Transaction /\ Fault(Upload(m))
      /\ Goes(m, "fail") /\ EndTransaction(m)
      /\ \/ At(m) = "delete" /\ pending' = pending \ {Upload(m)} /\ UNCHANGED product
         \/ product' = product \cup ({Upload(m)} \cap pending) /\ UNCHANGED pending
         \/ UNCHANGED <<pending, product>>
      /\ UNCHANGED <<row, content, quarantine, artifacts, findings>>
  BY DEF CallFails
<1>2. /\ pending' \in {pending, pending \ {Upload(m)}}
      /\ product' \in {product, product \cup {Upload(m)}}
      /\ Upload(m) \in pending => Upload(m) \in pending' \cup product'
  <2>1. At(m) = "delete" => Upload(m) \in product
    BY DEF IngestInv, Locked
  <2>2. {Upload(m)} \cap pending \in {{}, {Upload(m)}}
    OBVIOUS
  <2> QED
    BY <1>1, <2>1, <2>2
<1>3. Works(m, "fail")
  BY <1>1, <1>2, WorksFrom, PlacesAre
<1>4. Transacts(m, "fail")
  BY <1>1, EndingTransacts DEF Transaction
<1> QED
  BY <1>1, <1>3, <1>4, FaultIsOrderly, WorkKeeps

LEMMA DiesKeeps ==
  ASSUME IngestInv, NEW m \in Messages, ProcessorDies(m)
  PROVE  IngestInv'
<1>1. PICK at : at = AfterFailure(m)
  OBVIOUS
<1>2. /\ At(m) \in Processing /\ Fault(Upload(m)) /\ Goes(m, at) /\ EndTransaction(m)
      /\ UNCHANGED <<row, content, pending, quarantine, product, artifacts, findings>>
  BY <1>1 DEF ProcessorDies
<1>3. at \in {"queued", "dead"} /\ (at = "queued" => message[m].receives < MaxReceives)
  BY <1>1, AfterFailureIs
<1>4. Works(m, at)
  BY <1>2, <1>3, WorksFrom, PlacesAre
<1>5. Transacts(m, at)
  BY <1>2, <1>3, EndingTransacts DEF Transaction
<1> QED
  BY <1>2, <1>4, <1>5, FaultIsOrderly, WorkKeeps

-----------------------------------------------------------------------------
(* The agent's steps, and the beginning.                                   *)

LEMMA RequestKeeps ==
  ASSUME IngestInv, NEW u \in Uploads, RequestUpload(u)
  PROVE  IngestInv'
<1>1. /\ row[u] = "none" /\ RowBecomes(u, "accepted")
      /\ UNCHANGED <<content, pending, quarantine, product, message, keyLock,
                     found, artifacts, findings, faults>>
  BY DEF RequestUpload
<1>2. /\ row' \in [Uploads -> Statuses \cup {"none"}] /\ row'[u] = "accepted"
      /\ \A w \in Uploads \ {u} : row'[w] = row[w]
  BY <1>1, RowChanges DEF Statuses, IngestInv
<1>3. IngestTypeOK'
  BY <1>1, <1>2 DEF IngestInv, IngestTypeOK
<1>4. Early'
  BY <1>1, <1>2 DEF IngestInv, Early, At
<1>5. Locked' /\ OneAtMost' /\ PayloadKept'
  BY <1>1 DEF IngestInv, Locked, OneAtMost, PayloadKept, At, Upload
<1>6. ASSUME NEW m \in Messages, Alone(m)' PROVE Course(m)'
  <2>1. Alone(m)
    BY <1>1, <1>6 DEF Alone, At, Upload
  <2>2. Course(m)
    BY <2>1 DEF IngestInv, OnCourse
  <2>3. CASE Upload(m) # u
    BY <1>1, <1>2, <2>2, <2>3, Names DEF Course, At, Upload, Deserved
  <2>4. CASE Upload(m) = u
    <3>1. At(m) \notin {"acked", "dead", "queued", "claim"}
      BY <1>1, <2>2, <2>4 DEF Course, Deserved, Claimable
    <3> QED
      BY <1>1, <2>2, <3>1 DEF Course, At, Upload, Deserved
  <2> QED
    BY <2>3, <2>4
<1> QED
  BY <1>3, <1>4, <1>5, <1>6 DEF IngestInv, OnCourse

LEMMA PutKeeps ==
  ASSUME IngestInv, NEW u \in Uploads, Put(u)
  PROVE  IngestInv'
<1>1. /\ row[u] # "none" /\ content[u] = "none" /\ pending' = pending \cup {u}
      /\ UNCHANGED <<row, quarantine, product, keyLock, found, artifacts, findings, faults>>
  BY DEF Put
<1>2. PICK what \in {"scan", "invalid", "garbled"} : content' = [content EXCEPT ![u] = what]
  BY DEF Put
<1>3. PICK some \in (SUBSET Copies) \ {{}} :
        message' = [m \in Messages |->
                      IF m[1] = u /\ m[2] \in some
                        THEN [message[m] EXCEPT !.at = "queued"] ELSE message[m]]
  BY DEF Put
<1>4. row[u] = "accepted" /\ \A c \in Copies : At(<<u, c>>) = "none"
  BY <1>1 DEF IngestInv, Early
<1>5. \A m \in Messages : Upload(m) = u => At(m) = "none" /\ message[m].receives = 0
  BY <1>4, Names DEF IngestInv, Early
<1>6. /\ content' \in [Uploads -> {"none", "scan", "invalid", "garbled"}]
      /\ content'[u] = what /\ \A w \in Uploads \ {u} : content'[w] = content[w]
  BY <1>2 DEF IngestInv, IngestTypeOK
<1>7. /\ 0 \in 0..MaxReceives /\ 0 < MaxReceives
      /\ message \in MessageType /\ "queued" \in Places
  BY IngestionAssumption, MessagesAreTyped, PlacesAre DEF IngestInv
<1>8. ASSUME NEW m \in Messages
      PROVE  IF Upload(m) = u /\ m[2] \in some
             THEN message'[m] = [at |-> "queued", receives |-> 0]
             ELSE message'[m] = message[m]
  <2>1. CASE Upload(m) = u /\ m[2] \in some
    <3>1. message[m] \in [at : Places, receives : 0..MaxReceives] /\ message[m].receives = 0
      BY <1>5, <1>7, <2>1 DEF MessageType
    <3>2. [message[m] EXCEPT !.at = "queued"] = [at |-> "queued", receives |-> 0]
      BY <3>1
    <3> QED
      BY <1>3, <2>1, <3>2 DEF Upload
  <2>2. CASE ~(Upload(m) = u /\ m[2] \in some)
    BY <1>3, <2>2 DEF Upload
  <2> QED
    BY <2>1, <2>2
<1>9. message' \in MessageType
  <2>1. message' = [m \in Messages |-> message'[m]]
    BY <1>3
  <2>2. \A m \in Messages : message'[m] \in [at : Places, receives : 0..MaxReceives]
    BY <1>7, <1>8 DEF MessageType
  <2> QED
    BY <2>1, <2>2 DEF MessageType
<1>10. IngestTypeOK'
  <2>1. message' \in [Messages -> [at : {"none", "queued", "acked", "dead"} \cup Processing,
                                   receives : 0..MaxReceives]]
    BY <1>9 DEF MessageType, Places
  <2> QED
    BY <1>1, <1>6, <2>1 DEF IngestInv, IngestTypeOK
<1>11. \A m \in Messages :
         \/ Upload(m) = u /\ At(m) = "none" /\ At(m)' \in {"none", "queued"}
         \/ Upload(m) # u /\ At(m)' = At(m)
  BY <1>5, <1>8 DEF At, Upload
<1>12. Early'
  <2>1. \A m \in Messages :
          /\ At(m)' = "none" => message'[m].receives = 0
          /\ At(m)' = "queued" => message'[m].receives < MaxReceives
    BY <1>7, <1>8 DEF IngestInv, Early, At
  <2>2. ASSUME NEW w \in Uploads, content'[w] = "none"
        PROVE  row'[w] \in {"none", "accepted"} /\ \A c \in Copies : At(<<w, c>>)' = "none"
    <3>1. w # u /\ content[w] = "none"
      BY <1>2, <1>6, <2>2
    <3>2. row[w] \in {"none", "accepted"} /\ \A c \in Copies : At(<<w, c>>) = "none"
      BY <3>1 DEF IngestInv, Early
    <3>3. \A c \in Copies : <<w, c>> \in Messages /\ Upload(<<w, c>>) = w
      BY DEF Messages, Upload
    <3> QED
      BY <1>1, <1>11, <3>1, <3>2, <3>3
  <2> QED
    BY <2>1, <2>2 DEF Early
<1>13. \A m \in Messages : At(m)' \in Transaction <=> At(m) \in Transaction
  BY <1>11 DEF Transaction
<1>14. Locked'
  <2>1. \A m \in Messages : At(m)' \in {"delete", "commit"} => At(m) \in {"delete", "commit"}
    BY <1>11
  <2> QED
    BY <1>1, <1>13, <2>1 DEF IngestInv, Locked, Upload
<1>15. OneAtMost' /\ PayloadKept'
  BY <1>1, <1>6 DEF IngestInv, OneAtMost, PayloadKept
<1>16. ASSUME NEW m \in Messages, Alone(m)' PROVE Course(m)'
  <2>1. CASE Upload(m) = u
    <3>1. At(m)' = "queued"
      BY <1>11, <1>16, <2>1 DEF Alone
    <3> QED
      BY <1>1, <1>4, <2>1, <3>1 DEF Course, Upload, Claimable, Transaction
  <2>2. CASE Upload(m) # u
    <3>1. \A c \in Copies : <<Upload(m), c>> \in Messages /\ Upload(<<Upload(m), c>>) = Upload(m)
      BY Names DEF Messages, Upload
    <3>2. At(m)' = At(m) /\ \A c \in Copies : At(<<Upload(m), c>>)' = At(<<Upload(m), c>>)
      BY <1>11, <2>2, <3>1
    <3>3. Alone(m)
      BY <1>1, <1>16, <3>2 DEF Alone, Upload
    <3>4. Course(m)
      BY <3>3 DEF IngestInv, OnCourse
    <3>5. content'[Upload(m)] = content[Upload(m)] /\ (Upload(m) \in pending' <=> Upload(m) \in pending)
      BY <1>1, <1>6, <2>2, Names
    <3> QED
      BY <1>1, <3>2, <3>4, <3>5 DEF Course, Upload, Deserved
  <2> QED
    BY <2>1, <2>2
<1> QED
  BY <1>10, <1>12, <1>14, <1>15, <1>16 DEF IngestInv, OnCourse

LEMMA IngestBeginnings == IngestInit => IngestInv
<1> SUFFICES ASSUME IngestInit PROVE IngestInv
  OBVIOUS
<1>1. 0 \in 0..MaxReceives /\ 0 \in 0..MaxFaults
  BY IngestionAssumption
<1>2. IngestTypeOK
  BY <1>1 DEF IngestInit, IngestTypeOK
<1>3. \A m \in Messages : At(m) = "none" /\ message[m].receives = 0
  BY DEF IngestInit, At
<1>4. Early
  <2>1. \A u \in Uploads, c \in Copies : <<u, c>> \in Messages
    BY DEF Messages
  <2> QED
    BY <1>3, <2>1 DEF IngestInit, Early
<1>5. Locked
  BY <1>3, Names DEF IngestInit, Locked, Transaction
<1>6. OneAtMost /\ PayloadKept
  BY DEF IngestInit, OneAtMost, PayloadKept
<1>7. OnCourse
  BY <1>3 DEF OnCourse, Alone
<1> QED
  BY <1>2, <1>4, <1>5, <1>6, <1>7 DEF IngestInv

LEMMA IngestStep ==
  ASSUME IngestInv, [IngestNext]_ingestVars
  PROVE  IngestInv'
<1>1. CASE \E u \in Uploads : RequestUpload(u) \/ Put(u)
  BY <1>1, RequestKeeps, PutKeeps
<1>2. ASSUME NEW m \in Messages,
             \/ Receive(m) \/ Claim(m) \/ Read(m) \/ Begin(m) \/ Copy(m) \/ Delete(m)
             \/ Commit(m) \/ CommitUnknown(m) \/ Reject(m) \/ RejectFails(m) \/ Fail(m)
             \/ CallFails(m) \/ ProcessorDies(m)
      PROVE  IngestInv'
  BY <1>2, ReceiveKeeps, ClaimKeeps, ReadKeeps, BeginKeeps, CopyKeeps, DeleteKeeps,
     CommitKeeps, RejectKeeps, FailKeeps, CallFailsKeeps, DiesKeeps
<1>3. CASE UNCHANGED ingestVars
  BY <1>3 DEF ingestVars, IngestInv, IngestTypeOK, Early, Locked, OneAtMost, PayloadKept,
     OnCourse, Alone, Course, At, Upload, Deserved
<1> QED
  BY <1>1, <1>2, <1>3 DEF IngestNext

-----------------------------------------------------------------------------
(* The theorems.                                                           *)

THEOREM IngestSound == IngestSpec => []IngestInv
<1> QED
  BY IngestBeginnings, IngestStep, PTL DEF IngestSpec

\* Every variable keeps its type.
THEOREM IngestTyped == IngestSpec => []IngestTypeOK
<1>1. IngestInv => IngestTypeOK
  BY DEF IngestInv
<1> QED
  BY <1>1, IngestSound, PTL

LEMMA OneOfAScan == IngestInv => OneArtifactPerScan
<1> SUFFICES ASSUME IngestInv PROVE OneArtifactPerScan
  OBVIOUS
<1>1. CASE artifacts = {}
  BY <1>1, FS_EmptySet DEF IngestInv, OneAtMost, OneArtifactPerScan
<1>2. CASE \E a \in Messages \X Uploads : artifacts = {a} /\ a[2] \in product
  BY <1>2, FS_Singleton DEF IngestInv, OneAtMost, OneArtifactPerScan
<1> QED
  BY <1>1, <1>2 DEF IngestInv, OneAtMost

LEMMA CourseSettles == IngestInv => SettlesAlone
<1> SUFFICES ASSUME IngestInv, NEW u \in Uploads, Quiet(u), faults[u] = 0,
                    Cardinality(Delivered(u)) = 1
             PROVE  row[u] = Deserved(u)
  BY DEF SettlesAlone, Deserved
<1>1. IsFiniteSet(Delivered(u))
  BY FS_Subset, IngestionAssumption DEF Delivered
<1>2. PICK c : Delivered(u) = {c}
  BY <1>1, FS_Singleton
<1>3. c \in Copies /\ <<u, c>> \in Messages /\ Upload(<<u, c>>) = u /\ At(<<u, c>>) \in {"acked", "dead"}
  BY <1>2 DEF Delivered, Quiet, Messages, Upload
<1>4. Alone(<<u, c>>)
  BY <1>2, <1>3 DEF Alone, Delivered
<1> QED
  BY <1>3, <1>4 DEF IngestInv, OnCourse, Course

\* However often a scan is uploaded and its events are delivered, whatever
\* fails in between: it has one artifact, with the findings and the payload
\* that belong together; no payload that was put is lost; and an upload that
\* was delivered once and of which nothing failed ends as it deserves.
THEOREM UploadsComeToAnEnd == IngestSpec => []UploadsSettle
<1>1. IngestInv => UploadsSettle
  BY OneOfAScan, CourseSettles DEF UploadsSettle, UploadsEnd, IngestInv
<1> QED
  BY <1>1, IngestSound, PTL
-----------------------------------------------------------------------------
(* Dashboards: rows and preferences are what the views expect.             *)

BoardsInv == BoardsTypeOK /\ IsFiniteSet(rows)

\* A body that is accepted makes preferences of preferences.
LEMMA MergedIsWhole ==
  ASSUME NEW base \in Preferences \cup {Unset}, NEW patch \in Patches
  PROVE  Merged(base, patch) \in Preferences
<1> DEFINE whole == IF base = Unset THEN DefaultPreferences ELSE base
           field(f) == IF f \in DOMAIN patch THEN patch[f] ELSE whole[f]
<1>1. /\ whole["severities"] \subseteq SeverityNames
      /\ whole["preventions"] \subseteq HomeProviders
      /\ whole["integrations"] \subseteq HomeProviders
      /\ whole["hide"] \in BOOLEAN
  BY DEF DefaultPreferences, Preferences
<1>2. /\ field("severities") \subseteq Severities \cup SeverityNames
      /\ field("preventions") \subseteq HomeProviders
      /\ field("integrations") \subseteq HomeProviders
      /\ field("hide") \in BOOLEAN
  BY <1>1, BoardsAssumption
<1> HIDE DEF field
<1>3. {Named(s) : s \in field("severities")} \subseteq SeverityNames
  BY <1>2 DEF Named, SeverityNames, Severities
<1>4. Merged(base, patch) =
        [severities |-> {Named(s) : s \in field("severities")},
         preventions |-> field("preventions"),
         integrations |-> field("integrations"), hide |-> field("hide")]
  BY DEF Merged, field
<1> QED
  BY <1>2, <1>3, <1>4 DEF Preferences

LEMMA BoardsStart == BoardsInit => BoardsInv
  BY FS_EmptySet, BoardsAssumption DEF BoardsInit, BoardsInv, BoardsTypeOK, Supported, HomeProviders

\* Every step keeps them.
LEMMA BoardsStep == BoardsInv /\ [BoardsNext]_boardVars => BoardsInv'
<1> SUFFICES ASSUME BoardsInv, [BoardsNext]_boardVars PROVE BoardsInv'
  OBVIOUS
<1> USE DEF BoardsInv, BoardsTypeOK
<1>1. ASSUME NEW r \in ScanRows, ScanArrives(r) PROVE BoardsInv'
  BY <1>1, FS_AddElement, BoardsAssumption DEF ScanArrives, Changing
<1>2. ASSUME NEW p \in Connectable, Connect(p) PROVE BoardsInv'
  BY <1>2, BoardsAssumption DEF Connect, Changing, SymDiff
<1>3. ASSUME NEW p \in Supported, ToggleKey(p) PROVE BoardsInv'
  BY <1>3, BoardsAssumption DEF ToggleKey, Changing, SymDiff
<1>4. ASSUME NEW s \in Savers, NEW b \in Patches, BeginSave(s, b) PROVE BoardsInv'
  <2>1. Merged(saved, b) \in Preferences
    BY MergedIsWhole
  <2> QED
    BY <1>4, <2>1, BoardsAssumption DEF BeginSave, Changing
<1>5. ASSUME NEW s \in Savers, CommitSave(s) PROVE BoardsInv'
  BY <1>5 DEF CommitSave
<1>6. ASSUME NEW s \in Savers, FailSave(s) PROVE BoardsInv'
  BY <1>6 DEF FailSave
<1>7. CASE UNCHANGED boardVars
  BY <1>7 DEF boardVars
<1> QED
  BY <1>1, <1>2, <1>3, <1>4, <1>5, <1>6, <1>7 DEF BoardsNext

-----------------------------------------------------------------------------
(* What there is to show.                                                  *)

\* The sums of the views are those of SumTheorems.
LEMMA TotalIsSum == ASSUME NEW c, NEW s PROVE Total(c, s) = SumOf(c, s)
  BY DEF Total, SumOf

LEMMA SeveritiesFinite == IsFiniteSet(Severities) /\ IsFiniteSet(SeverityNames) /\ IsFiniteSet(HomeProviders)
<1>1. IsFiniteSet(Severities)
  BY FiveFinite DEF Severities
<1>2. IsFiniteSet(SeverityNames)
  <2>1. SeverityNames = {"critical", "high", "medium", "low", "informational"}
    BY DEF Severities, SeverityNames
  <2> QED
    BY <2>1, FiveFinite
<1>3. IsFiniteSet(HomeProviders)
  <2>1. IsFiniteSet({"openvas", "insightvm", "nessus", "wazuh", "zabbix"})
    BY FiveFinite
  <2>2. HomeProviders = {"openvas", "insightvm", "nessus", "wazuh", "zabbix"} \cup {"uptime_kuma"}
    BY DEF HomeProviders
  <2> QED
    BY <2>1, <2>2, FS_AddElement
<1> QED
  BY <1>1, <1>2, <1>3

\* In every finite set of rows one is the newest.
LEMMA NewestExists ==
  ASSUME NEW S, IsFiniteSet(S), S # {}, \A r \in S : r.at \in Int
  PROVE  \E r \in S : \A o \in S : o.at <= r.at
<1> DEFINE Q == {T \in SUBSET S : T = {} \/ \E r \in T : \A o \in T : o.at <= r.at}
<1>1. {} \in Q
  OBVIOUS
<1>2. ASSUME NEW T \in SUBSET S, NEW x \in S \ T, T \in Q PROVE T \cup {x} \in Q
  <2>1. CASE T = {}
    BY <2>1
  <2>2. CASE T # {}
    <3>1. PICK r \in T : \A o \in T : o.at <= r.at
      BY <1>2, <2>2
    <3>2. CASE x.at <= r.at
      BY <3>1, <3>2
    <3>3. CASE ~(x.at <= r.at)
      <4>1. \A o \in T \cup {x} : o.at <= x.at
        BY <3>1, <3>3
      <4> QED
        BY <4>1
    <3> QED
      BY <3>2, <3>3
  <2> QED
    BY <2>1, <2>2
<1> HIDE DEF Q
<1>3. S \in Q
  BY <1>1, <1>2, GrowingFamily
<1> QED
  BY <1>3 DEF Q

\* What the views read of a provider.
LEMMA RowsToShow ==
  ASSUME BoardsInv, NEW p
  PROVE  /\ IsFiniteSet(Scans(p))
         /\ Scans(p) \subseteq rows /\ Scans(p) \subseteq ScanRows
         /\ \A r \in Scans(p) : r.at \in Nat /\ r.counts \in [Severities -> Nat] /\ r.down \in Nat
<1>1. Scans(p) \in SUBSET rows /\ rows \subseteq ScanRows /\ IsFiniteSet(rows)
  BY DEF Scans, BoardsInv, BoardsTypeOK
<1>2. IsFiniteSet(Scans(p))
  BY <1>1, FS_Subset
<1> QED
  BY <1>1, <1>2, BoardsAssumption

\* The scan whose counts are shown is the newest there is.
LEMMA LatestIsNewest ==
  ASSUME BoardsInv, NEW p
  PROVE  IF Scans(p) = {} THEN LatestScan(p) = Unset
         ELSE /\ LatestScan(p) \in Scans(p) /\ LatestScan(p) # Unset
              /\ \A o \in Scans(p) : o.at <= LatestScan(p).at
<1>1. CASE Scans(p) = {}
  BY <1>1 DEF LatestScan
<1>2. CASE Scans(p) # {}
  <2> DEFINE S == Scans(p)
  <2>1. IsFiniteSet(S) /\ S # {} /\ S \subseteq ScanRows /\ \A r \in S : r.at \in Int
    BY <1>2, RowsToShow
  <2>2. LatestScan(p) = CHOOSE r \in S : \A o \in S : o.at <= r.at
    BY <1>2 DEF LatestScan
  <2> HIDE DEF S
  <2>3. \E r \in S : \A o \in S : o.at <= r.at
    BY <2>1, NewestExists
  <2>4. LatestScan(p) \in S /\ \A o \in S : o.at <= LatestScan(p).at
    BY <2>2, <2>3
  <2> QED
    BY <1>2, <2>1, <2>4, BoardsAssumption DEF S
<1> QED
  BY <1>1, <1>2

LEMMA CountsToShow ==
  ASSUME BoardsInv, NEW p
  PROVE  /\ ScanCounts(LatestScan(p)) \in [Severities -> Nat]
         /\ Down(LatestScan(p)) \in Nat
  BY LatestIsNewest, RowsToShow DEF ScanCounts, Down, NoCounts

\* What the tenant has chosen to see.
LEMMA Chosen ==
  ASSUME BoardsInv
  PROVE  /\ Current \in Preferences
         /\ VisibleProviders \subseteq HomeProviders /\ VisibleSeverities \subseteq SeverityNames
         /\ IsFiniteSet(VisibleProviders) /\ IsFiniteSet(VisibleSeverities)
<1>1. Current \in Preferences
  BY DEF Current, BoardsInv, BoardsTypeOK, Preferences, DefaultPreferences
<1>2. VisibleProviders \subseteq HomeProviders /\ VisibleSeverities \subseteq SeverityNames
  BY <1>1 DEF VisibleProviders, VisibleSeverities, OrAll, Preferences
<1> QED
  BY <1>1, <1>2, SeveritiesFinite, FS_Subset

LEMMA TotalsToShow ==
  ASSUME NEW c \in [Severities -> Nat], NEW s \in SUBSET Severities
  PROVE  Total(c, s) \in Nat
<1>1. IsFiniteSet(s) /\ Naturals(c, s)
  BY SeveritiesFinite, FS_Subset DEF Naturals
<1> QED
  BY <1>1, SumIsNatural, TotalIsSum
LEMMA NothingToShow == Total(NoCounts, Severities) = 0
<1>1. IsFiniteSet(Severities) /\ \A s \in Severities : NoCounts[s] = 0
  BY SeveritiesFinite DEF NoCounts
<1> QED
  BY <1>1, SumOfZeros, TotalIsSum

\* The providers home knows, by the kind of their pages.
Scanners == {"openvas", "insightvm", "nessus"}

\* Which provider is shown by which code.
LEMMA Kinds ==
  /\ HomeProviders = Scanners \cup {"wazuh", "zabbix", "uptime_kuma"}
  /\ Vulnerability = Scanners \cup {"tenable"}
  /\ \A p \in Scanners : p \in Vulnerability /\ p \notin {"wazuh", "zabbix", "uptime_kuma"}
  /\ "wazuh" \notin Vulnerability /\ "zabbix" \notin Vulnerability /\ "uptime_kuma" \notin Vulnerability
  BY DEF HomeProviders, Scanners, Vulnerability

\* The entry of the summary and the page of a provider, by its kind.
LEMMA EntryOfScanner ==
  ASSUME BoardsInv, NEW p \in Scanners
  PROVE  /\ Entry(p) = IF Configured(p) THEN VulnerabilitySummary(p) ELSE NotConfigured
         /\ Page(p) = IF Configured(p) THEN VulnerabilityPage(p) ELSE NotConfigured
         /\ Entry(p).counts = Page(p).counts
         /\ Entry(p).counts \in [Severities -> Nat]
         /\ Page(p).alerts = Total(Entry(p).counts, Severities)
         /\ Entry(p).configured = Page(p).configured
         /\ Entry(p).active = Page(p).active
         /\ Entry(p).has_data = Page(p).has_data
         /\ Entry(p).scans = Page(p).scans
         /\ Entry(p).running = Page(p).running
         /\ Entry(p).running <= Entry(p).scans
<1>1. /\ Entry(p) = IF Configured(p) THEN VulnerabilitySummary(p) ELSE NotConfigured
      /\ Page(p) = IF Configured(p) THEN VulnerabilityPage(p) ELSE NotConfigured
  BY Kinds DEF Entry, Page
<1>2. ScanCounts(LatestScan(p)) \in [Severities -> Nat] /\ NoCounts \in [Severities -> Nat]
  BY CountsToShow DEF NoCounts
<1>3. Running(Scans(p)) \subseteq Scans(p) /\ IsFiniteSet(Scans(p))
  BY RowsToShow DEF Running
<1>4. Cardinality(Running(Scans(p))) <= Cardinality(Scans(p))
  BY <1>3, FS_Subset
<1>5. CASE Configured(p)
  BY <1>1, <1>2, <1>4, <1>5 DEF VulnerabilitySummary, VulnerabilityPage, Shown, NotConfigured
<1>6. CASE ~Configured(p)
  BY <1>1, <1>2, <1>6, NothingToShow DEF NotConfigured
<1> QED
  BY <1>1, <1>5, <1>6

LEMMA EntryOfWazuh ==
  ASSUME BoardsInv
  PROVE  /\ Entry("wazuh") = Page("wazuh")
         /\ Entry("wazuh").counts \in [Severities -> Nat]
         /\ Entry("wazuh").alerts = Total(Entry("wazuh").counts, Severities)
         /\ Entry("wazuh").scans = 0 /\ Entry("wazuh").running = 0
<1>1. /\ Entry("wazuh") = IF Configured("wazuh") THEN WazuhSummary ELSE NotConfigured
      /\ Page("wazuh") = IF Configured("wazuh") THEN WazuhPage ELSE NotConfigured
  BY DEF Entry, Page
<1>2. ScanCounts(LatestScan("wazuh")) \in [Severities -> Nat] /\ NoCounts \in [Severities -> Nat]
  BY CountsToShow DEF NoCounts
<1>3. CASE Configured("wazuh")
  BY <1>1, <1>2, <1>3 DEF WazuhSummary, WazuhPage, Shown, NotConfigured
<1>4. CASE ~Configured("wazuh")
  <2>1. Entry("wazuh") = NotConfigured /\ Page("wazuh") = NotConfigured
    BY <1>1, <1>4
  <2>2. /\ NotConfigured.counts = NoCounts /\ NotConfigured.alerts = 0
        /\ NotConfigured.scans = 0 /\ NotConfigured.running = 0
    BY DEF NotConfigured
  <2> QED
    BY <1>2, <2>1, <2>2, NothingToShow
<1> QED
  BY <1>3, <1>4

LEMMA EntryOfMonitors ==
  ASSUME BoardsInv
  PROVE  /\ Entry("zabbix") = Page("zabbix") /\ Entry("uptime_kuma") = Page("uptime_kuma")
         /\ Entry("zabbix").alerts \in Nat /\ Entry("uptime_kuma").down \in Nat
         /\ Entry("zabbix").scans = 0 /\ Entry("zabbix").running = 0
         /\ Entry("uptime_kuma").scans = 0 /\ Entry("uptime_kuma").running = 0
<1>1. /\ Entry("zabbix") = IF Configured("zabbix") THEN ZabbixSummary ELSE NotConfigured
      /\ Page("zabbix") = IF Configured("zabbix") THEN ZabbixPage ELSE NotConfigured
      /\ Entry("uptime_kuma") = IF Configured("uptime_kuma") THEN UptimeSummary ELSE NotConfigured
      /\ Page("uptime_kuma") = IF Configured("uptime_kuma") THEN UptimePage ELSE NotConfigured
  BY DEF Entry, Page
<1>2. ZabbixSummary = ZabbixPage /\ UptimeSummary = UptimePage
  BY DEF ZabbixSummary, ZabbixPage, UptimeSummary, UptimePage
<1>3. Total(ScanCounts(LatestScan("zabbix")), Severities) \in Nat
  BY CountsToShow, TotalsToShow
<1>4. /\ ZabbixSummary.alerts \in Nat /\ ZabbixSummary.scans = 0 /\ ZabbixSummary.running = 0
      /\ UptimeSummary.down \in Nat /\ UptimeSummary.scans = 0 /\ UptimeSummary.running = 0
      /\ NotConfigured.alerts = 0 /\ NotConfigured.down = 0
      /\ NotConfigured.scans = 0 /\ NotConfigured.running = 0
  BY <1>3, CountsToShow DEF ZabbixSummary, UptimeSummary, Shown, NotConfigured
<1> QED
  BY <1>1, <1>2, <1>4

\* A card opens a page that says the same.
LEMMA CardsLead == BoardsInv => CardsMatchPages
<1> SUFFICES ASSUME BoardsInv, NEW p \in Cards
             PROVE  /\ PageOpens(p)
                    /\ Card(p).configured = Page(p).configured
                    /\ Card(p).active = Page(p).active /\ Card(p).has_data = Page(p).has_data
                    /\ Entry(p).scans = Page(p).scans /\ Entry(p).running = Page(p).running
                    /\ Entry(p).running <= Entry(p).scans
                    /\ Card(p).slot.total = CASE p = "uptime_kuma" -> Page(p).down
                                              [] p = "wazuh" -> Page(p).alerts - Page(p).counts["info"]
                                              [] OTHER -> Page(p).alerts
  BY DEF CardsMatchPages
<1>1. PageOpens(p) /\ p \in HomeProviders
  BY DEF Cards, PageOpens
<1>2. /\ Card(p).configured = Entry(p).configured /\ Card(p).active = Entry(p).active
      /\ Card(p).has_data = Entry(p).has_data /\ Card(p).slot.total = Slot(p, Entry(p)).total
  BY DEF Card
<1>3. CASE p \in Scanners
  <2>1. Slot(p, Entry(p)).total = Total(Entry(p).counts, Severities)
    BY <1>3, Kinds DEF Slot
  <2>2. p # "uptime_kuma" /\ p # "wazuh"
    BY <1>3, Kinds
  <2> QED
    BY <1>1, <1>2, <1>3, <2>1, <2>2, EntryOfScanner
<1>4. CASE p = "wazuh"
  <2> DEFINE c == Entry("wazuh").counts
             k == c["info"]
             rest == Severities \ {"info"}
  <2>1. Slot(p, Entry(p)).total = Total(c, rest)
    BY <1>4, Kinds DEF Slot
  <2>2. c \in [Severities -> Nat] /\ Page(p) = Entry(p) /\ Page(p).alerts = Total(c, Severities)
        /\ Page(p).scans = 0 /\ Page(p).running = 0
    BY <1>4, EntryOfWazuh
  <2>3. Total(c, Severities) = k + Total(c, rest) /\ k \in Nat /\ Total(c, rest) \in Nat
    <3>1. IsFiniteSet(Severities) /\ Naturals(c, Severities) /\ "info" \in Severities /\ k \in Nat
      BY <2>2, SeveritiesFinite DEF Naturals, Severities
    <3> HIDE DEF c
    <3>2. SumOf(c, Severities) = c["info"] + SumOf(c, Severities \ {"info"})
      BY <3>1, SumWithout
    <3>3. Total(c, rest) \in Nat
      BY <2>2, TotalsToShow
    <3> QED
      BY <3>1, <3>2, <3>3, TotalIsSum
  <2> HIDE DEF c
  <2>4. Total(c, rest) = Page(p).alerts - k
    BY <2>2, <2>3
  <2>5. k = Page(p).counts["info"]
    BY <1>4, <2>2 DEF c
  <2> QED
    BY <1>1, <1>2, <1>4, <2>1, <2>2, <2>4, <2>5
<1>5. CASE p = "zabbix"
  BY <1>1, <1>2, <1>5, EntryOfMonitors, Kinds DEF Slot
<1>6. CASE p = "uptime_kuma"
  BY <1>1, <1>2, <1>6, EntryOfMonitors, Kinds DEF Slot
<1> QED
  BY <1>1, <1>3, <1>4, <1>5, <1>6, Kinds

\* The operators see what the cards show as configured and down.
LEMMA OperatorsSee == BoardsInv => OperatorsAgree
<1> SUFFICES ASSUME BoardsInv, NEW p \in Cards
             PROVE  Configured(p) /\ ~Card(p).active <=> p \in Degraded
  BY DEF OperatorsAgree
<1>1. Card(p).active = Entry(p).active /\ p \in HomeProviders
  BY DEF Card, Cards
<1>2. Configured(p) => Entry(p).active = Active(p)
  <2>1. CASE p \in Scanners
    BY <2>1, EntryOfScanner DEF VulnerabilitySummary, Shown, NotConfigured
  <2>2. CASE p = "wazuh"
    BY <2>2 DEF Entry, WazuhSummary, Shown, NotConfigured
  <2>3. CASE p = "zabbix"
    BY <2>3 DEF Entry, ZabbixSummary, Shown, NotConfigured
  <2>4. CASE p = "uptime_kuma"
    BY <2>4 DEF Entry, UptimeSummary, Shown, NotConfigured
  <2> QED
    BY <1>1, <2>1, <2>2, <2>3, <2>4, Kinds
<1> QED
  BY <1>1, <1>2 DEF Configured, Active, Degraded

LEMMA LeastOfTwo ==
  ASSUME NEW a \in Int, NEW b \in Int
  PROVE  /\ Min({a, b}) = IF a <= b THEN a ELSE b
         /\ Max({a, b}) = IF a <= b THEN b ELSE a
  BY DEF Min, Max

\* The range that analytics accepts is the range of the page.
LEMMA RangesFit == BoardsInv => RangesAgree
<1> SUFFICES ASSUME BoardsInv, NEW a \in Values(rows, "at") \cup {Now},
                    NEW b \in Values(rows, "at") \cup {Now}
             PROVE  AnalyticsRange(Custom(a, b)) \in {Unset, ParseRange(Custom(a, b))}
  BY DEF RangesAgree
<1>1. a \in Nat /\ b \in Nat
  BY BoardsAssumption DEF Values, BoardsInv, BoardsTypeOK, Now
<1>2. CASE a > b \/ b - a > 180
  BY <1>2 DEF AnalyticsRange, Custom
<1>3. CASE ~(a > b \/ b - a > 180)
  <2>1. AnalyticsRange(Custom(a, b)) = [start |-> a, end |-> b]
    BY <1>3 DEF AnalyticsRange, Custom
  <2>2. Min({a, b}) = a /\ Max({a, b}) = b /\ Min({b, a + 180}) = b
    BY <1>1, <1>3, LeastOfTwo
  <2>3. ParseRange(Custom(a, b)) = [start |-> Min({a, b}), end |-> Min({Max({a, b}), Min({a, b}) + 180})]
    BY DEF ParseRange, Custom
  <2> QED
    BY <2>1, <2>2, <2>3
<1> QED
  BY <1>2, <1>3
\* What a vulnerability page counts under the severities chosen, by either of
\* their names.
LEMMA EitherName ==
  ASSUME BoardsInv, NEW p \in Scanners, NEW entry,
         \A name \in VisibleSeverities : entry[name] = CountOf(Entry(p), name)
  PROVE  /\ SumOf(entry, VisibleSeverities) =
              Total(Page(p).counts, {s \in Severities : Named(s) \in VisibleSeverities})
         /\ Naturals(entry, VisibleSeverities)
<1> DEFINE chosen == {s \in Severities : Named(s) \in VisibleSeverities}
           c == Page(p).counts
           b == [s \in chosen |-> Named(s)]
<1>1. c \in [Severities -> Nat] /\ c = Entry(p).counts /\ IsFiniteSet(chosen)
  BY EntryOfScanner, SeveritiesFinite, FS_Subset
<1>2. VisibleSeverities \subseteq SeverityNames
  BY Chosen
<1>3. \A s, t \in chosen : b[s] = b[t] => s = t
  BY DEF Named, Severities
<1>4. {b[s] : s \in chosen} = VisibleSeverities
  <2>1. \A s \in chosen : b[s] \in VisibleSeverities
    OBVIOUS
  <2>2. ASSUME NEW name \in VisibleSeverities PROVE \E s \in chosen : b[s] = name
    <3>1. CASE name = "informational"
      <4>1. "info" \in chosen /\ b["info"] = name
        BY <3>1 DEF Named, Severities
      <4> QED
        BY <4>1
    <3>2. CASE name # "informational"
      <4>1. name \in chosen /\ b[name] = name
        BY <1>2, <3>2 DEF Named, Severities, SeverityNames
      <4> QED
        BY <4>1
    <3> QED
      BY <3>1, <3>2
  <2> QED
    BY <2>1, <2>2
<1>5. \A s \in chosen : c[s] = entry[b[s]]
  BY <1>1 DEF CountOf, Named, Severities
<1>6. Naturals(c, chosen)
  BY <1>1 DEF Naturals
<1>7. Naturals(entry, VisibleSeverities)
  BY <1>1, <1>2 DEF Naturals, CountOf, Severities, SeverityNames
<1>8. SumOf(c, chosen) = SumOf(entry, {b[s] : s \in chosen})
  <2>1. Renamed(c, entry, b, chosen)
    BY <1>3, <1>5 DEF Renamed
  <2> HIDE DEF b, c, chosen
  <2> QED
    BY <1>1, <1>6, <2>1, SumOfImage
<1> QED
  BY <1>4, <1>7, <1>8, TotalIsSum

\* The rows of the preventions add up to their footer and to the cards.
LEMMA PreventionsSum == BoardsInv => PreventionsAddUp
<1> SUFFICES ASSUME BoardsInv PROVE PreventionsAddUp
  OBVIOUS
<1> DEFINE V == VisibleProviders \cap {"nessus", "openvas", "insightvm"}
           W == VisibleProviders \cap {"wazuh", "zabbix", "uptime_kuma"}
           N == VisibleSeverities
           entry == [p \in V |-> [name \in N |-> CountOf(Entry(p), name)]]
           col == [name \in N |-> [p \in V |-> CountOf(Entry(p), name)]]
           told(p) == IF p \in Vulnerability
                      THEN Total(Page(p).counts, {s \in Severities : Named(s) \in N})
                      ELSE Operational(p, Page(p))
           f == [p \in VisibleProviders |-> told(p)]
           g == [p \in W |-> Operational(p, Entry(p))]
<1>1. /\ IsFiniteSet(V) /\ IsFiniteSet(W) /\ IsFiniteSet(N)
      /\ V \cap W = {} /\ VisibleProviders = V \cup W /\ V \subseteq Scanners
      /\ N \subseteq SeverityNames
  <2>1. V \cup W = VisibleProviders /\ V \cap W = {} /\ V \subseteq Scanners
    BY Chosen, Kinds DEF Scanners
  <2>2. V \in SUBSET VisibleProviders /\ W \in SUBSET VisibleProviders
    OBVIOUS
  <2>3. IsFiniteSet(V) /\ IsFiniteSet(W)
    <3> HIDE DEF V, W
    <3> QED
      BY <2>2, Chosen, FS_Subset
  <2> QED
    BY <2>1, <2>3, Chosen
<1>2. \A p \in V : /\ SumOf(entry[p], N) = f[p] /\ Naturals(entry[p], N)
  <2> SUFFICES ASSUME NEW p \in V PROVE SumOf(entry[p], N) = f[p] /\ Naturals(entry[p], N)
    OBVIOUS
  <2> DEFINE r == entry[p]
  <2>1. p \in Scanners /\ \A name \in N : r[name] = CountOf(Entry(p), name)
    BY <1>1
  <2>2. f[p] = Total(Page(p).counts, {s \in Severities : Named(s) \in N})
    BY <1>1, <2>1, Kinds
  <2> HIDE DEF r
  <2>3. /\ SumOf(r, N) = Total(Page(p).counts, {s \in Severities : Named(s) \in N})
        /\ Naturals(r, N)
    BY <2>1, EitherName
  <2> QED
    BY <2>2, <2>3 DEF r
<1>3. \A p \in W : f[p] = g[p] /\ g[p] \in Nat
  <2>1. /\ Entry("wazuh") = Page("wazuh") /\ Entry("zabbix") = Page("zabbix")
        /\ Entry("uptime_kuma") = Page("uptime_kuma")
        /\ Entry("wazuh").alerts \in Nat /\ Entry("zabbix").alerts \in Nat
        /\ Entry("uptime_kuma").down \in Nat
    BY EntryOfWazuh, EntryOfMonitors, TotalsToShow
  <2> QED
    BY <2>1, Kinds DEF Operational
<1>4. \A name \in N : VulnerabilityCounts[name] = SumOf(col[name], V)
  <2> SUFFICES ASSUME NEW name \in N PROVE VulnerabilityCounts[name] = SumOf(col[name], V)
    OBVIOUS
  <2>1. VulnerabilityCounts[name] = MapThenSumSet(LAMBDA p : CountOf(Entry(p), name), V)
    BY <1>1 DEF VulnerabilityCounts
  <2>2. MapThenSumSet(LAMBDA p : CountOf(Entry(p), name), V) = SumOf([p \in V |-> CountOf(Entry(p), name)], V)
    BY ZenonT(60) DEF SumOf, MapThenSumSet, MapThenFoldSet
  <2> QED
    BY <2>1, <2>2
<1>5. SumOf(f, V) = SumOf(VulnerabilityCounts, N)
  <2>1. Tabled(entry, col, V, N)
    BY <1>2 DEF Naturals, Tabled
  <2>2. Sums(f, entry, V, N)
    BY <1>2 DEF Sums
  <2>3. IsFiniteSet(V) /\ IsFiniteSet(N)
    BY <1>1
  <2> DEFINE vc == VulnerabilityCounts
  <2>4. Sums(vc, col, N, V)
    BY <1>4 DEF Sums
  <2> HIDE DEF f, entry, col, V, N, vc
  <2>5. SumOf(f, V) = SumOf(vc, N)
    BY <2>1, <2>2, <2>3, <2>4, SumExchange
  <2> QED
    BY <2>5 DEF vc
<1>6. Naturals(f, V \cup W)
  <2>1. \A p \in V : f[p] \in Nat
    <3> SUFFICES ASSUME NEW p \in V PROVE SumOf(entry[p], N) \in Nat
      BY <1>2
    <3> HIDE DEF entry, N
    <3> QED
      BY <1>1, <1>2, SumIsNatural
  <2> QED
    BY <1>3, <2>1 DEF Naturals
<1>7. SumOf(f, V \cup W) = SumOf(f, V) + SumOf(f, W)
  <2> HIDE DEF f, V, W
  <2> QED
    BY <1>1, <1>6, SumOfUnion
<1>8. SumOf(f, W) = SumOf(g, W)
  <2>1. Naturals(f, W)
    BY <1>3 DEF Naturals
  <2> HIDE DEF f, g, W
  <2> QED
    BY <1>1, <1>3, <2>1, SumSame
<1>9. MapThenSumSet(told, VisibleProviders) = SumOf(f, VisibleProviders)
  BY ZenonT(60) DEF SumOf, MapThenSumSet, MapThenFoldSet
<1>10. MapThenSumSet(LAMBDA p : Operational(p, Entry(p)), W) = SumOf(g, W)
  BY ZenonT(60) DEF SumOf, MapThenSumSet, MapThenFoldSet
<1>11. PreventionsTotal = SumOf(VulnerabilityCounts, N) + SumOf(g, W)
  BY <1>10, TotalIsSum DEF PreventionsTotal
<1>12. PreventionsTotal = SumOf(f, VisibleProviders)
  BY <1>1, <1>5, <1>7, <1>8, <1>11
<1> QED
  BY <1>9, <1>12 DEF PreventionsAddUp

\* All of it together.
LEMMA BoardsAgree == BoardsInv => DashboardsAgree
  BY CardsLead, PreventionsSum, OperatorsSee, RangesFit DEF DashboardsAgree
-----------------------------------------------------------------------------
(* What the views count is all there is.                                   *)

\* The newest scan is the newest of its target.
LEMMA LatestListed == BoardsInv => LatestAgrees
<1> SUFFICES ASSUME BoardsInv, NEW p \in Scanned, Within(LatestScan(p), Ago(30))
             PROVE  LatestScan(p) \in LatestPerTarget(p, Ago(30))
  BY DEF LatestAgrees
<1> QED
  BY LatestIsNewest DEF LatestPerTarget, Scanned

\* An agent sees the scans and findings that its tenant sees.
LEMMA AgentSees == BoardsInv => AgentSeesTheSame
<1> SUFFICES ASSUME BoardsInv, NEW p \in Scanned, NEW q \in Queries
             PROVE  /\ AgentScans(p, Domain(p), q) = ScanList(p, Unset, q)
                    /\ AgentScans(p, Unset, q) =
                         IF Domain(p) = "soc" THEN AgentScans(p, Domain(p), q) ELSE {}
                    /\ \A s \in {Unset, "high"} :
                         AgentFindings(p, Domain(p), q, s) =
                           UNION {AgentScanFindings(r, Domain(p), s) \X {r}
                                    : r \in AgentScans(p, Domain(p), q)}
  BY DEF AgentSeesTheSame
<1>1. p # Unset /\ Unset # "soc" /\ Unset # "noc" /\ Domain(p) \in {"soc", "noc"}
  BY BoardsAssumption DEF Scanned, Domain
<1>2. AgentDomain(Domain(p)) = Domain(p) /\ AgentDomain(Unset) = "soc" /\ RequestedDomain(p, Unset) = Domain(p)
  BY <1>1 DEF AgentDomain, RequestedDomain
<1>3. \A r \in Selected(p, "soc", q) : Domain(p) = "soc"
  BY <1>1 DEF Selected
<1>4. ASSUME NEW s \in {Unset, "high"}
      PROVE  AgentFindings(p, Domain(p), q, s) =
               UNION {AgentScanFindings(r, Domain(p), s) \X {r} : r \in AgentScans(p, Domain(p), q)}
  <2> DEFINE R == Selected(p, Domain(p), q)
  <2>1. AgentFindings(p, Domain(p), q, s) =
          {x \in UNION {r.findings \X {r} : r \in R} : s # Unset => x[1].severity = s}
    BY <1>2 DEF AgentFindings
  <2>2. \A r \in R : AgentScanFindings(r, Domain(p), s) = {f \in r.findings : s # Unset => f.severity = s}
    BY <1>2 DEF Selected, AgentScanFindings, ScanFindings
  <2>3. AgentScans(p, Domain(p), q) = R
    BY <1>2 DEF AgentScans
  <2> HIDE DEF R
  <2> QED
    BY <2>1, <2>2, <2>3
<1> QED
  BY <1>1, <1>2, <1>3, <1>4 DEF AgentScans, ScanList

\* Scan by scan or severity by severity.
LEMMA CountsByRow ==
  ASSUME NEW S, IsFiniteSet(S), \A r \in S : r.counts \in [Severities -> Nat]
  PROVE  Total(CountsOf(S), Severities) = SumOf([r \in S |-> Total(r.counts, Severities)], S)
<1> DEFINE entry == [r \in S |-> r.counts]
           col == [s \in Severities |-> [r \in S |-> r.counts[s]]]
           f == [r \in S |-> Total(r.counts, Severities)]
           g == CountsOf(S)
<1>1. \A s \in Severities : g[s] = SumOf(col[s], S)
  <2> SUFFICES ASSUME NEW s \in Severities PROVE g[s] = SumOf(col[s], S)
    OBVIOUS
  <2>1. g[s] = MapThenSumSet(LAMBDA r : r.counts[s], S)
    BY DEF CountsOf
  <2>2. MapThenSumSet(LAMBDA r : r.counts[s], S) = SumOf([r \in S |-> r.counts[s]], S)
    BY ZenonT(60) DEF SumOf, MapThenSumSet, MapThenFoldSet
  <2> QED
    BY <2>1, <2>2
<1>2. \A r \in S : f[r] = SumOf(entry[r], Severities)
  BY TotalIsSum
<1>3. \A r \in S : \A s \in Severities : entry[r][s] \in Nat /\ col[s][r] = entry[r][s]
  OBVIOUS
<1> DEFINE U == Severities
<1>4. IsFiniteSet(S) /\ IsFiniteSet(U)
  BY SeveritiesFinite
<1>a. Tabled(entry, col, S, U) /\ Sums(f, entry, S, U) /\ Sums(g, col, U, S)
  BY <1>1, <1>2, <1>3 DEF Tabled, Sums
<1> HIDE DEF entry, col, f, g, U
<1>b. SumOf(f, S) = SumOf(g, U)
  BY <1>4, <1>a, SumExchange
<1>5. SumOf(f, S) = SumOf(g, Severities)
  BY <1>b DEF U
<1> QED
  BY <1>5, TotalIsSum DEF f, g

LEMMA CompletedRows ==
  ASSUME BoardsInv, NEW S \in SUBSET rows
  PROVE  /\ IsFiniteSet(S) /\ IsFiniteSet(Completed(S)) /\ Completed(S) \subseteq S
         /\ \A r \in S : r.counts \in [Severities -> Nat] /\ r.at \in Nat
<1>1. IsFiniteSet(rows) /\ rows \subseteq ScanRows /\ Completed(S) \in SUBSET S
  BY DEF BoardsInv, BoardsTypeOK, Completed
<1> QED
  BY <1>1, FS_Subset, BoardsAssumption

\* Ranges and days.
LEMMA RangeInOrder ==
  ASSUME BoardsInv, NEW q \in Queries
  PROVE  /\ ParseRange(q).start \in Nat /\ ParseRange(q).end \in Nat
         /\ ParseRange(q).start <= ParseRange(q).end
<1>1. CASE q \in {[preset |-> x] : x \in {"today", "yesterday", "7d", "30d"}}
  BY <1>1 DEF ParseRange, Ago, Midnight, Day, Now
<1>2. ASSUME NEW a \in Values(rows, "at"), NEW b \in Values(rows, "at") \cup {Now}, q = Custom(a, b)
      PROVE  /\ ParseRange(q).start \in Nat /\ ParseRange(q).end \in Nat
             /\ ParseRange(q).start <= ParseRange(q).end
  <2>1. a \in Nat /\ b \in Nat
    BY BoardsAssumption DEF Values, BoardsInv, BoardsTypeOK, Now
  <2> DEFINE first == Min({a, b})
             last == Max({a, b})
  <2>2. first \in Nat /\ last \in Nat /\ first <= last
    BY <2>1, LeastOfTwo
  <2>3. ParseRange(q) = [start |-> first, end |-> Min({last, first + 180})]
    BY <1>2 DEF ParseRange, Custom
  <2> HIDE DEF first, last
  <2>4. Min({last, first + 180}) \in Nat /\ first <= Min({last, first + 180})
    BY <2>2, LeastOfTwo
  <2> QED
    BY <2>2, <2>3, <2>4
<1> QED
  BY <1>1, <1>2 DEF Queries

LEMMA DaysOf ==
  ASSUME NEW t \in Nat, NEW u \in Nat
  PROVE  /\ Day(t) \in Nat /\ 2 * Day(t) <= t /\ t < 2 * Day(t) + 2
         /\ t <= u => Day(t) <= Day(u)
  BY DEF Day

\* Day by day or all at once: each completed scan has one day in the trend.
LEMMA TrendAddsUp ==
  ASSUME BoardsInv, NEW p, NEW q \in Queries
  PROVE  LET range == ParseRange(q) trend == Trend(p, range)
         IN /\ MapThenSumSet(LAMBDA i : Total(trend[i], Severities), DOMAIN trend) =
                 Total(CountsOf(Completed({r \in Scans(p) :
                   Day(r.at) >= Day(range.start) /\ Day(r.at) <= Day(range.end)})), Severities)
            /\ \A r \in Completed(Scans(p)) :
                 Within(r, range) => Day(r.at) - Day(range.start) \in DOMAIN trend
<1> DEFINE range == ParseRange(q)
           trend == Trend(p, range)
           from == Day(range.start)
           to == Day(range.end)
           D == Completed({r \in Scans(p) : Day(r.at) >= from /\ Day(r.at) <= to})
           K == 0..(to - from)
           key == [r \in D |-> Day(r.at) - from]
           f == [r \in D |-> Total(r.counts, Severities)]
           g == [i \in K |-> Total(trend[i], Severities)]
<1>1. from \in Nat /\ to \in Nat /\ from <= to
  BY RangeInOrder, DaysOf
<1>2. DOMAIN trend = K /\ \A i \in K : trend[i] = DayCounts(p, from + i)
  <2>1. Max({1, to - from + 1}) = to - from + 1
    <3> HIDE DEF from, to
    <3> QED
      BY <1>1, LeastOfTwo
  <2>2. Max({1, to - from + 1}) - 1 = to - from
    <3> HIDE DEF from, to
    <3> QED
      BY <1>1, <2>1
  <2> QED
    BY <2>2 DEF Trend
<1>3. /\ IsFiniteSet(D) /\ D \subseteq Scans(p)
      /\ \A r \in D : r.counts \in [Severities -> Nat] /\ r.at \in Nat /\ Day(r.at) \in Nat
  <2> DEFINE R == {r \in Scans(p) : Day(r.at) >= from /\ Day(r.at) <= to}
  <2>1. R \in SUBSET rows /\ R \subseteq Scans(p)
    BY RowsToShow
  <2> HIDE DEF R, from, to
  <2>2. IsFiniteSet(Completed(R)) /\ Completed(R) \subseteq R
        /\ \A r \in R : r.counts \in [Severities -> Nat] /\ r.at \in Nat
    BY <2>1, CompletedRows
  <2> QED
    BY <2>1, <2>2, DaysOf DEF R
<1>4. Keyed(key, D, K)
  <2> SUFFICES ASSUME NEW r \in D PROVE Day(r.at) - from \in K
    BY DEF Keyed
  <2>1. Day(r.at) >= from /\ Day(r.at) <= to
    BY DEF Completed
  <2> HIDE DEF from, to, D
  <2> QED
    BY <1>1, <1>3, <2>1
<1>5. Naturals(f, D)
  BY <1>3, TotalsToShow DEF Naturals
<1>6. SumsByKey(g, f, key, D, K)
  <2> SUFFICES ASSUME NEW i \in K PROVE Total(trend[i], Severities) = SumOf(f, {r \in D : key[r] = i})
    BY DEF SumsByKey, WithKey
  <2> DEFINE A == {r \in D : key[r] = i}
             B == Completed({r \in Scans(p) : r.at >= 2 * (from + i) /\ r.at < 2 * (from + i) + 2})
             h == [r \in A |-> Total(r.counts, Severities)]
  <2>1. A = B
    <3>1. ASSUME NEW r \in Scans(p)
          PROVE  (Day(r.at) >= from /\ Day(r.at) <= to /\ Day(r.at) - from = i)
                   <=> (r.at >= 2 * (from + i) /\ r.at < 2 * (from + i) + 2)
      <4>1. r.at \in Nat
        BY RowsToShow
      <4>2. Day(r.at) \in Nat /\ 2 * Day(r.at) <= r.at /\ r.at < 2 * Day(r.at) + 2
        BY <4>1, DaysOf
      <4> HIDE DEF from, to
      <4> QED
        BY <1>1, <4>1, <4>2
    <3> HIDE DEF from, to, K
    <3> QED
      BY <3>1 DEF Completed
  <2>2. trend[i] = CountsOf(A)
    BY <1>2, <2>1 DEF DayCounts
  <2>3. IsFiniteSet(A) /\ \A r \in A : r.counts \in [Severities -> Nat]
    BY <1>3, FS_Subset
  <2>4. Naturals(f, A) /\ \A r \in A : f[r] = h[r]
    BY <1>5 DEF Naturals
  <2>5. SumOf(f, A) = SumOf(h, A)
    <3> HIDE DEF f, h, A
    <3> QED
      BY <2>3, <2>4, SumSame
  <2>6. Total(CountsOf(A), Severities) = SumOf(h, A)
    <3> HIDE DEF A
    <3> QED
      BY <2>3, CountsByRow
  <2> QED
    BY <2>2, <2>5, <2>6
<1>7. SumOf(f, D) = SumOf(g, K)
  <2>1. IsFiniteSet(K)
    <3> HIDE DEF from, to
    <3> QED
      BY <1>1, FS_Interval
  <2>2. IsFiniteSet(D)
    BY <1>3
  <2> HIDE DEF f, g, D, K, key
  <2> QED
    BY <1>4, <1>5, <1>6, <2>1, <2>2, SumByKey
<1>8. MapThenSumSet(LAMBDA i : Total(trend[i], Severities), DOMAIN trend) = SumOf(g, K)
  <2>1. MapThenSumSet(LAMBDA i : Total(trend[i], Severities), K) = SumOf([i \in K |-> Total(trend[i], Severities)], K)
    <3> HIDE DEF trend, K
    <3> QED
      BY ZenonT(60) DEF SumOf, MapThenSumSet, MapThenFoldSet
  <2> QED
    BY <1>2, <2>1
<1>9. Total(CountsOf(D), Severities) = SumOf(f, D)
  <2> HIDE DEF D
  <2> QED
    BY <1>3, CountsByRow
<1>10. ASSUME NEW r \in Completed(Scans(p)), Within(r, range) PROVE Day(r.at) - from \in K
  <2>1. r \in Scans(p) /\ r.at \in Nat
    BY RowsToShow DEF Completed
  <2>2. r.at >= range.start /\ r.at <= range.end /\ range.start \in Nat /\ range.end \in Nat
    BY <1>10, RangeInOrder DEF Within
  <2>3. Day(r.at) \in Nat /\ from <= Day(r.at) /\ Day(r.at) <= to
    <3> HIDE DEF range
    <3> QED
      BY <2>1, <2>2, DaysOf
  <2> HIDE DEF from, to
  <2> QED
    BY <1>1, <2>3
<1> QED
  BY <1>2, <1>7, <1>8, <1>9, <1>10

\* The days of the week of the summary are apart, and within its seven days.
LEMMA WeekFits ==
  ASSUME BoardsInv, NEW s \in Severities
  PROVE  MapThenSumSet(LAMBDA i : WeekTrend[i][s], 0..6) <= SummaryTotals(7)[s]
<1> DEFINE K == 0..6
           D == Completed({r \in rows : r.tenant = Me /\ r.at >= Now - 14})
           W == {r \in D : r.at >= Midnight(Now) - 12 /\ r.at < Midnight(Now) + 2}
           piece(i) == Completed({r \in rows : /\ r.tenant = Me /\ r.at >= Midnight(Now) - 2 * i
                                              /\ r.at < Midnight(Now) - 2 * i + 2})
           f == [r \in D |-> r.counts[s]]
           key == [r \in W |-> Day(Now) - Day(r.at)]
           g == [i \in K |-> WeekTrend[i][s]]
<1>1. /\ IsFiniteSet(D) /\ D \subseteq rows
      /\ \A r \in D : r.counts \in [Severities -> Nat] /\ r.at \in Nat
  <2> DEFINE R == {r \in rows : r.tenant = Me /\ r.at >= Now - 14}
  <2>1. R \in SUBSET rows
    OBVIOUS
  <2> HIDE DEF R
  <2> QED
    BY <2>1, CompletedRows DEF R
<1>2. Naturals(f, D) /\ W \in SUBSET D /\ IsFiniteSet(W) /\ Naturals(f, W)
  <2>1. W \in SUBSET D /\ Naturals(f, D) /\ Naturals(f, W)
    BY <1>1 DEF Naturals
  <2> HIDE DEF D, W
  <2> QED
    BY <1>1, <2>1, FS_Subset
<1>3. \A r \in D : /\ Day(r.at) \in Nat /\ 2 * Day(r.at) <= r.at /\ r.at < 2 * Day(r.at) + 2
  BY <1>1, DaysOf
<1>4. Day(Now) = 200 /\ Midnight(Now) = 400 /\ Now - 14 = 387
  BY DEF Day, Midnight, Now
<1>5. Keyed(key, W, K)
  <2> SUFFICES ASSUME NEW r \in W PROVE Day(Now) - Day(r.at) \in K
    BY DEF Keyed
  <2>1. r.at \in Nat /\ r.at >= 388 /\ r.at < 402 /\ r \in D
    BY <1>1, <1>4
  <2> QED
    BY <1>3, <1>4, <2>1
<1>6. SumsByKey(g, f, key, W, K)
  <2> SUFFICES ASSUME NEW i \in K PROVE WeekTrend[i][s] = SumOf(f, WithKey(key, W, i))
    BY DEF SumsByKey
  <2> DEFINE A == WithKey(key, W, i)
             h == [r \in A |-> r.counts[s]]
  <2>1. A = piece(i)
    <3>1. ASSUME NEW r \in A PROVE r \in piece(i)
      <4>1. r \in W /\ Day(Now) - Day(r.at) = i /\ r \in D
        BY DEF WithKey
      <4>2. r.at >= 400 - 2 * i /\ r.at < 400 - 2 * i + 2
        BY <1>1, <1>3, <1>4, <4>1
      <4> QED
        BY <1>4, <4>1, <4>2 DEF Completed
    <3>2. ASSUME NEW r \in piece(i) PROVE r \in A
      <4>1. r \in rows /\ r.tenant = Me /\ r.status = "completed"
            /\ r.at >= 400 - 2 * i /\ r.at < 400 - 2 * i + 2 /\ r.at \in Nat
        <5>1. /\ r \in rows /\ r.tenant = Me /\ r.status = "completed"
              /\ r.at >= Midnight(Now) - 2 * i /\ r.at < Midnight(Now) - 2 * i + 2
          BY DEF Completed
        <5> QED
          BY <1>4, <5>1, CompletedRows
      <4>2. r \in D /\ r \in W
        BY <1>4, <4>1 DEF Completed
      <4>3. Day(Now) - Day(r.at) = i
        BY <1>3, <1>4, <4>1, <4>2
      <4> QED
        BY <4>2, <4>3 DEF WithKey
    <3> QED
      BY <3>1, <3>2
  <2>2. WeekTrend[i][s] = MapThenSumSet(LAMBDA r : r.counts[s], piece(i))
    BY DEF WeekTrend, CountsOf
  <2>3. MapThenSumSet(LAMBDA r : r.counts[s], A) = SumOf(h, A)
    <3> HIDE DEF A
    <3> QED
      BY ZenonT(60) DEF SumOf, MapThenSumSet, MapThenFoldSet
  <2>4. IsFiniteSet(A) /\ Naturals(f, A) /\ \A r \in A : f[r] = h[r]
    <3>1. A \in SUBSET W
      BY DEF WithKey
    <3> HIDE DEF A, W, D
    <3>2. IsFiniteSet(A)
      BY <1>2, <3>1, FS_Subset
    <3> QED
      BY <1>2, <3>1, <3>2 DEF Naturals
  <2>5. SumOf(f, A) = SumOf(h, A)
    <3> HIDE DEF f, h, A
    <3> QED
      BY <2>4, SumSame
  <2> QED
    BY <2>1, <2>2, <2>3, <2>5
<1>7. SumOf(f, W) = SumOf(g, K)
  <2>1. IsFiniteSet(K)
    <3> DEFINE last == 6
    <3>1. last \in Nat /\ K = 0..last
      OBVIOUS
    <3> HIDE DEF last, K
    <3> QED
      BY <3>1, FS_Interval
  <2> HIDE DEF f, g, W, K, key
  <2> QED
    BY <1>2, <1>5, <1>6, <2>1, SumByKey
<1>8. SumOf(f, W) <= SumOf(f, D)
  <2> HIDE DEF f, W, D
  <2> QED
    BY <1>1, <1>2, SumOfPart
<1>9. MapThenSumSet(LAMBDA i : WeekTrend[i][s], 0..6) = SumOf(g, K)
  BY ZenonT(60) DEF SumOf, MapThenSumSet, MapThenFoldSet
<1>10. SummaryTotals(7)[s] = SumOf(f, D)
  <2>1. SummaryTotals(7)[s] = MapThenSumSet(LAMBDA r : r.counts[s], D)
    BY DEF SummaryTotals, CountsOf
  <2>2. MapThenSumSet(LAMBDA r : r.counts[s], D) = SumOf(f, D)
    <3> HIDE DEF D
    <3> QED
      BY ZenonT(60) DEF SumOf, MapThenSumSet, MapThenFoldSet
  <2> QED
    BY <2>1, <2>2
<1> QED
  BY <1>7, <1>8, <1>9, <1>10

LEMMA TrendsAdd == BoardsInv => TrendsAreComplete
  BY TrendAddsUp, WeekFits DEF TrendsAreComplete

-----------------------------------------------------------------------------
(* Hosts and CVEs.                                                         *)

LEMMA TrendsUseValues ==
  ASSUME NEW S, IsFiniteSet(S), NEW field
  PROVE  IsFiniteSet(Values(S, field))
<1> DEFINE b == [x \in S |-> x[field]]
<1>1. Values(S, field) = {b[x] : x \in S}
  BY DEF Values
<1> HIDE DEF b
<1> QED
  BY <1>1, ImageIsFinite

\* Rows with a number for each severity, as GROUP BY makes them of findings.
GroupOf(its, s) == [severity |-> s, n |-> Cardinality({f \in its : f.severity = s})]

\* The groups of some severities add up to the findings of these severities.
LEMMA GroupsAddUp ==
  ASSUME NEW its, IsFiniteSet(its), NEW some \in SUBSET Values(its, "severity")
  PROVE  MapThenSumSet(LAMBDA g : g.n, {GroupOf(its, s) : s \in some}) =
           Cardinality({f \in its : f.severity \in some})
<1> DEFINE G == {GroupOf(its, s) : s \in some}
           S == {f \in its : f.severity \in some}
           b == [s \in some |-> GroupOf(its, s)]
           f0 == [s \in some |-> Cardinality({f \in its : f.severity = s})]
           g0 == [g \in G |-> g.n]
           key == [f \in S |-> f.severity]
<1>1. IsFiniteSet(some) /\ IsFiniteSet(S)
  <2>1. IsFiniteSet(Values(its, "severity"))
    BY TrendsUseValues
  <2>2. S \in SUBSET its
    OBVIOUS
  <2> HIDE DEF S
  <2> QED
    BY <2>1, <2>2, FS_Subset
<1>2. Naturals(f0, some)
  <2> SUFFICES ASSUME NEW s \in some PROVE Cardinality({f \in its : f.severity = s}) \in Nat
    BY DEF Naturals
  <2> DEFINE T == {f \in its : f.severity = s}
  <2>1. T \in SUBSET its
    OBVIOUS
  <2> HIDE DEF T
  <2>2. Cardinality(T) \in Nat
    BY <2>1, FS_Subset, FS_CardinalityType
  <2> QED
    BY <2>2 DEF T
<1>3. Renamed(f0, g0, b, some)
  <2>1. \A s, t \in some : b[s] = b[t] => s = t
    BY DEF GroupOf
  <2>2. \A s \in some : f0[s] = g0[b[s]]
    BY DEF GroupOf
  <2> QED
    BY <2>1, <2>2 DEF Renamed
<1>4. SumOf(f0, some) = SumOf(g0, G)
  <2>1. {b[s] : s \in some} = G
    OBVIOUS
  <2> HIDE DEF f0, g0, b, G
  <2> QED
    BY <1>1, <1>2, <1>3, <2>1, SumOfImage
<1>5. Keyed(key, S, some) /\ NumbersByKey(f0, key, S, some)
  <2>1. \A s \in some : WithKey(key, S, s) = {f \in its : f.severity = s}
    BY DEF WithKey
  <2> QED
    BY <2>1 DEF Keyed, NumbersByKey
<1>6. Cardinality(S) = SumOf(f0, some)
  <2> HIDE DEF f0, S, key
  <2> QED
    BY <1>1, <1>5, CountByKey
<1>7. MapThenSumSet(LAMBDA g : g.n, G) = SumOf(g0, G)
  <2> HIDE DEF G
  <2> QED
    BY ZenonT(60) DEF SumOf, MapThenSumSet, MapThenFoldSet
<1> QED
  BY <1>4, <1>6, <1>7

\* A host's exposure from groups or from its findings.
LEMMA ExposureOfHost ==
  ASSUME NEW these, IsFiniteSet(these), NEW h
  PROVE  LET its == {f \in these : f.host = h}
             groups == {[severity |-> s, n |-> Cardinality({f \in these : f.host = h /\ f.severity = s})]
                          : s \in Values(its, "severity")}
         IN /\ \A s \in Severities : Added(groups, s) = Cardinality({f \in its : KeyOf(f.severity) = s})
            /\ MapThenSumSet(LAMBDA g : g.n, groups) = Cardinality(its)
<1> DEFINE its == {f \in these : f.host = h}
           all == Values(its, "severity")
           groups == {[severity |-> s, n |-> Cardinality({f \in these : f.host = h /\ f.severity = s})]
                        : s \in all}
<1>1. its \in SUBSET these /\ IsFiniteSet(its)
  <2>1. its \in SUBSET these
    OBVIOUS
  <2> HIDE DEF its
  <2> QED
    BY <2>1, FS_Subset
<1>2. groups = {GroupOf(its, s) : s \in all}
  <2>1. \A s : {f \in these : f.host = h /\ f.severity = s} = {f \in its : f.severity = s}
    OBVIOUS
  <2> HIDE DEF all
  <2> QED
    BY <2>1 DEF GroupOf
<1>3. {f \in its : f.severity \in all} = its
  BY DEF Values
<1>4. MapThenSumSet(LAMBDA g : g.n, groups) = Cardinality(its)
  <2>1. all \in SUBSET Values(its, "severity")
    OBVIOUS
  <2> HIDE DEF its, all, groups
  <2>2. MapThenSumSet(LAMBDA g : g.n, {GroupOf(its, s) : s \in all}) =
          Cardinality({f \in its : f.severity \in all})
    BY <1>1, <2>1, GroupsAddUp
  <2> QED
    BY <1>2, <1>3, <2>2
<1>5. ASSUME NEW s \in Severities
      PROVE  Added(groups, s) = Cardinality({f \in its : KeyOf(f.severity) = s})
  <2> DEFINE some == {t \in all : KeyOf(t) = s}
  <2>1. {g \in groups : KeyOf(g.severity) = s} = {GroupOf(its, t) : t \in some}
    <3> HIDE DEF all, groups
    <3>1. \A t : GroupOf(its, t).severity = t
      BY DEF GroupOf
    <3>2. ASSUME NEW g \in groups, KeyOf(g.severity) = s PROVE g \in {GroupOf(its, t) : t \in some}
      <4>1. PICK t \in all : g = GroupOf(its, t)
        BY <1>2, <3>2
      <4> QED
        BY <3>1, <3>2, <4>1
    <3>3. ASSUME NEW t \in some PROVE GroupOf(its, t) \in {g \in groups : KeyOf(g.severity) = s}
      BY <1>2, <3>1
    <3> QED
      BY <3>2, <3>3
  <2>2. {f \in its : f.severity \in some} = {f \in its : KeyOf(f.severity) = s}
    BY DEF Values
  <2>3. some \in SUBSET Values(its, "severity")
    OBVIOUS
  <2> HIDE DEF its, all, groups, some
  <2>4. MapThenSumSet(LAMBDA g : g.n, {GroupOf(its, t) : t \in some}) =
          Cardinality({f \in its : f.severity \in some})
    BY <1>1, <2>3, GroupsAddUp
  <2>5. Added(groups, s) = MapThenSumSet(LAMBDA g : g.n, {g \in groups : KeyOf(g.severity) = s})
    BY DEF Added
  <2> QED
    BY <2>1, <2>2, <2>4, <2>5
<1> QED
  BY <1>4, <1>5

LEMMA HostsAgree ==
  ASSUME NEW these, IsFiniteSet(these)
  PROVE  HostExposure(these) = ExposureFromFindings(these)
<1> DEFINE its(h) == {f \in these : f.host = h}
           groups(h) ==
             {[severity |-> s, n |-> Cardinality({f \in these : f.host = h /\ f.severity = s})]
                : s \in Values(its(h), "severity")}
           byGroup(h) ==
             [host |-> h, counts |-> [s \in Severities |-> Added(groups(h), s)],
              total |-> MapThenSumSet(LAMBDA g : g.n, groups(h)), cvss |-> Max(Values(its(h), "cvss"))]
           byFinding(h) ==
             [host |-> h,
              counts |-> [s \in Severities |-> Cardinality({f \in its(h) : KeyOf(f.severity) = s})],
              total |-> Cardinality(its(h)), cvss |-> Max(Values(its(h), "cvss"))]
<1>1. ASSUME NEW h PROVE byGroup(h) = byFinding(h)
  <2>1. /\ \A s \in Severities : Added(groups(h), s) = Cardinality({f \in its(h) : KeyOf(f.severity) = s})
        /\ MapThenSumSet(LAMBDA g : g.n, groups(h)) = Cardinality(its(h))
    BY ExposureOfHost
  <2> HIDE DEF its, groups
  <2> QED
    BY <2>1
<1>2. HostExposure(these) = {byGroup(h) : h \in Values(these, "host")}
  BY DEF HostExposure
<1>3. ExposureFromFindings(these) = {byFinding(h) : h \in Values(these, "host")}
  BY DEF ExposureFromFindings
<1> HIDE DEF byGroup, byFinding
<1> QED
  BY <1>1, <1>2, <1>3

\* The row of a CVE from groups or from its findings.
LEMMA CvesAgree ==
  ASSUME NEW these, IsFiniteSet(these), \A f \in these : f.cvss \in Nat,
         NEW c \in CvesFromFindings(these)
  PROVE  LET its == {t \in TopCves(these) : t.cve = c.cve}
         IN /\ c.cvss = Max(Values(its, "cvss"))
            /\ c.hosts >= Max(Values(its, "hosts"))
            /\ c.hosts <= MapThenSumSet(LAMBDA t : t.hosts, its)
<1> DEFINE v == c.cve
           F == {f \in these : f.cve = v}
           K == Values(F, "severity")
           Fs(s) == {f \in F : f.severity = s}
           entry(s) == [cve |-> v, severity |-> s, hosts |-> Cardinality(Values(Fs(s), "host")),
                      cvss |-> Max(Values(Fs(s), "cvss"))]
           its == {t \in TopCves(these) : t.cve = v}
           b == [s \in K |-> entry(s)]
           piece == [s \in K |-> Values(Fs(s), "host")]
           g0 == [s \in K |-> Cardinality(Values(Fs(s), "host"))]
           h0 == [t \in its |-> t.hosts]
<1>1. /\ v \in Values(these, "cve")
      /\ c.hosts = Cardinality(Values(F, "host")) /\ c.cvss = Max(Values(F, "cvss"))
  <2>1. PICK w \in Values(these, "cve") :
          c = [cve |-> w, hosts |-> Cardinality(Values({f \in these : f.cve = w}, "host")),
               cvss |-> Max(Values({f \in these : f.cve = w}, "cvss"))]
    BY DEF CvesFromFindings
  <2> QED
    BY <2>1
<1>2. F # {} /\ IsFiniteSet(F) /\ K # {} /\ IsFiniteSet(K)
  <2>1. F \in SUBSET these /\ F # {}
    BY <1>1 DEF Values
  <2> HIDE DEF F
  <2>2. IsFiniteSet(F) /\ Values(F, "severity") # {}
    BY <2>1, FS_Subset DEF Values
  <2> QED
    BY <2>1, <2>2, TrendsUseValues
<1>3. its = {entry(s) : s \in K}
  <2> DEFINE all(w) == {f \in these : f.cve = w}
             some(w, s) == {f \in all(w) : f.severity = s}
             line(w, s) == [cve |-> w, severity |-> s, hosts |-> Cardinality(Values(some(w, s), "host")),
                            cvss |-> Max(Values(some(w, s), "cvss"))]
  <2>1. TopCves(these) = UNION {{line(w, s) : s \in Values(all(w), "severity")} : w \in Values(these, "cve")}
    BY DEF TopCves
  <2>2. \A w, s : line(w, s).cve = w
    OBVIOUS
  <2>3. \A s : line(v, s) = entry(s)
    OBVIOUS
  <2>4. K = Values(all(v), "severity")
    OBVIOUS
  <2> HIDE DEF line, entry, K, all, v
  <2> QED
    BY <1>1, <2>1, <2>2, <2>3, <2>4
<1>4. ASSUME NEW s \in K
      PROVE  /\ IsFiniteSet(Fs(s)) /\ Fs(s) # {} /\ Fs(s) \subseteq F
             /\ IsFiniteSet(Values(Fs(s), "host"))
             /\ Values(Fs(s), "cvss") \in SUBSET Nat
             /\ Max(Values(Fs(s), "cvss")) \in Values(Fs(s), "cvss")
             /\ \A x \in Values(Fs(s), "cvss") : x <= Max(Values(Fs(s), "cvss"))
  <2> DEFINE T == Fs(s)
  <2>1. T \in SUBSET F /\ T # {} /\ \A f \in T : f.cvss \in Nat
    BY DEF Values
  <2> HIDE DEF T, F
  <2>2. IsFiniteSet(T)
    BY <1>2, <2>1, FS_Subset
  <2>3. IsFiniteSet(Values(T, "host")) /\ IsFiniteSet(Values(T, "cvss"))
    BY <2>2, TrendsUseValues
  <2>4. Values(T, "cvss") \in SUBSET Nat /\ Values(T, "cvss") # {}
    BY <2>1 DEF Values
  <2>5. Max(Values(T, "cvss")) \in Values(T, "cvss") /\ \A x \in Values(T, "cvss") : x <= Max(Values(T, "cvss"))
    BY <2>3, <2>4, MaxIsThere
  <2> QED
    BY <2>1, <2>2, <2>3, <2>4, <2>5 DEF T
<1>5. Max(Values(its, "cvss")) = Max(Values(F, "cvss"))
  <2> DEFINE M == Values(F, "cvss")
             m == Max(M)
  <2>1. M \in SUBSET Nat /\ M # {} /\ IsFiniteSet(M)
    BY <1>2, TrendsUseValues DEF Values
  <2>2. m \in M /\ \A x \in M : x <= m
    <3> HIDE DEF M
    <3> QED
      BY <2>1, MaxIsThere
  <2>3. \A s \in K : Values(Fs(s), "cvss") \subseteq M
    BY DEF Values
  <2>4. Values(its, "cvss") = {Max(Values(Fs(s), "cvss")) : s \in K}
    <3>1. \A s : entry(s)["cvss"] = Max(Values(Fs(s), "cvss"))
      OBVIOUS
    <3> HIDE DEF entry, its, K, Fs
    <3>2. Values(its, "cvss") = {entry(s)["cvss"] : s \in K}
      BY <1>3 DEF Values
    <3> QED
      BY <3>1, <3>2
  <2>5. PICK f \in F : f.cvss = m
    <3> HIDE DEF m, F
    <3> QED
      BY <2>2 DEF Values
  <2>6. f.severity \in K /\ m \in Values(Fs(f.severity), "cvss")
    <3>1. f \in Fs(f.severity) /\ f.severity \in K
      BY DEF Values
    <3> HIDE DEF F, K, Fs, m
    <3> QED
      BY <2>5, <3>1 DEF Values
  <2> DEFINE k == Max(Values(Fs(f.severity), "cvss"))
  <2>7. k \in M /\ m <= k
    BY <1>4, <2>3, <2>6
  <2>8. k = m
    <3> HIDE DEF k, m, M
    <3> QED
      BY <2>1, <2>2, <2>7
  <2>9. m \in Values(its, "cvss")
    BY <2>4, <2>6, <2>8
  <2>10. \A x \in Values(its, "cvss") : x \in Nat /\ x <= m
    <3> SUFFICES ASSUME NEW s \in K
                 PROVE  Max(Values(Fs(s), "cvss")) \in Nat /\ Max(Values(Fs(s), "cvss")) <= m
      BY <2>4
    <3>1. Max(Values(Fs(s), "cvss")) \in M
      BY <1>4, <2>3
    <3> HIDE DEF M, m, Fs
    <3> QED
      BY <2>1, <2>2, <3>1
  <2> HIDE DEF m, M, its
  <2>11. Max(Values(its, "cvss")) = m
    BY <2>9, <2>10, MaxIs
  <2> QED
    BY <2>11 DEF m, M
<1>6. IsFiniteSet(Values(F, "host")) /\ c.hosts \in Nat
  <2>1. IsFiniteSet(Values(F, "host"))
    BY <1>2, TrendsUseValues
  <2> QED
    BY <1>1, <2>1, FS_CardinalityType
<1>7. \A s \in K : g0[s] \in Nat /\ g0[s] <= c.hosts
  <2> SUFFICES ASSUME NEW s \in K
               PROVE  Cardinality(Values(Fs(s), "host")) \in Nat /\ Cardinality(Values(Fs(s), "host")) <= c.hosts
    OBVIOUS
  <2> DEFINE A == Values(F, "host")
             B == Values(Fs(s), "host")
  <2>1. B \in SUBSET A
    BY DEF Values
  <2>2. IsFiniteSet(A) /\ c.hosts = Cardinality(A)
    BY <1>1, <1>6
  <2> HIDE DEF A, B
  <2>3. Cardinality(B) \in Nat /\ Cardinality(B) <= Cardinality(A)
    BY <2>1, <2>2, FS_Subset, FS_CardinalityType
  <2> QED
    BY <2>2, <2>3 DEF B
<1>8. c.hosts >= Max(Values(its, "hosts"))
  <2> DEFINE H == Values(its, "hosts")
  <2>1. H = {g0[s] : s \in K}
    <3>1. \A s \in K : entry(s)["hosts"] = g0[s]
      OBVIOUS
    <3> HIDE DEF entry, its, K, g0
    <3>2. Values(its, "hosts") = {entry(s)["hosts"] : s \in K}
      BY <1>3 DEF Values
    <3> QED
      BY <3>1, <3>2
  <2>2. H # {} /\ IsFiniteSet(H) /\ H \in SUBSET Nat
    <3> HIDE DEF g0, K
    <3>1. IsFiniteSet({g0[s] : s \in K})
      BY <1>2, ImageIsFinite
    <3> HIDE DEF H
    <3> QED
      BY <1>2, <1>7, <2>1, <3>1
  <2>3. Max(H) \in H
    <3> HIDE DEF H
    <3> QED
      BY <2>2, MaxIsThere
  <2>4. Max(H) \in Nat /\ Max(H) <= c.hosts
    <3> HIDE DEF H, g0, K
    <3> QED
      BY <1>7, <2>1, <2>3
  <2> QED
    BY <1>6, <2>4
<1>9. c.hosts <= SumOf(g0, K)
  <2>1. Sizes(g0, piece, K)
    BY <1>4 DEF Sizes
  <2>2. UNION {piece[s] : s \in K} = Values(F, "host")
    <3>1. \A s \in K : piece[s] = Values(Fs(s), "host")
      OBVIOUS
    <3>2. \A s \in K : Values(Fs(s), "host") \subseteq Values(F, "host")
      BY DEF Values
    <3>3. ASSUME NEW x \in Values(F, "host") PROVE \E s \in K : x \in Values(Fs(s), "host")
      <4>1. PICK f \in F : x = f["host"]
        <5> HIDE DEF F
        <5> QED
          BY DEF Values
      <4>2. f.severity \in K /\ f \in Fs(f.severity)
        BY DEF Values
      <4> HIDE DEF F, Fs, K
      <4> QED
        BY <4>1, <4>2 DEF Values
    <3> HIDE DEF piece, K, Fs, F
    <3> QED
      BY <3>1, <3>2, <3>3
  <2> HIDE DEF g0, piece, K, F
  <2> QED
    BY <1>1, <1>2, <2>1, <2>2, UnionIsAtMost
<1>10. SumOf(g0, K) = SumOf(h0, its)
  <2>1. Renamed(g0, h0, b, K)
    <3>1. \A s \in K : entry(s) \in its /\ entry(s).severity = s /\ entry(s).hosts = g0[s]
      BY <1>3
    <3> HIDE DEF entry, its, K
    <3> QED
      BY <3>1 DEF Renamed
  <2>2. {b[s] : s \in K} = its
    BY <1>3
  <2>3. Naturals(g0, K)
    BY <1>7 DEF Naturals
  <2> HIDE DEF g0, h0, b, K, its
  <2> QED
    BY <1>2, <2>1, <2>2, <2>3, SumOfImage
<1>11. MapThenSumSet(LAMBDA t : t.hosts, its) = SumOf(h0, its)
  <2> HIDE DEF its
  <2> QED
    BY ZenonT(60) DEF SumOf, MapThenSumSet, MapThenFoldSet
<1> HIDE DEF its, g0, h0, K
<1>12. c.cvss = Max(Values(its, "cvss"))
  BY <1>1, <1>5
<1>13. c.hosts <= MapThenSumSet(LAMBDA t : t.hosts, its)
  BY <1>9, <1>10, <1>11
<1> QED
  BY <1>8, <1>12, <1>13 DEF its

\* The list of hosts, made either way, names each host once, with what its
\* findings are.
LEMMA HostsListed ==
  ASSUME NEW listed, IsFiniteSet(listed), NEW hosts \in {HostExposure(listed), ExposureFromFindings(listed)}
  PROVE  HostsTold(hosts, listed)
<1> DEFINE its(h) == {f \in listed : f.host = h}
           line(h) ==
             [host |-> h,
              counts |-> [s \in Severities |-> Cardinality({f \in its(h) : KeyOf(f.severity) = s})],
              total |-> Cardinality(its(h)), cvss |-> Max(Values(its(h), "cvss"))]
<1>1. hosts = {line(h) : h \in Values(listed, "host")}
  BY HostsAgree DEF ExposureFromFindings
<1>2. ASSUME NEW h
      PROVE  /\ line(h)["host"] = h /\ line(h).host = h
             /\ line(h).total = Cardinality(its(h)) /\ line(h).cvss = Max(Values(its(h), "cvss"))
             /\ \A s \in Severities :
                  line(h).counts[s] = Cardinality({f \in its(h) : KeyOf(f.severity) = s})
  <2>1. /\ line(h)["host"] = h /\ line(h).host = h
        /\ line(h).total = Cardinality(its(h)) /\ line(h).cvss = Max(Values(its(h), "cvss"))
    <3> HIDE DEF its
    <3> QED
      OBVIOUS
  <2>2. line(h).counts =
          [s \in Severities |-> Cardinality({f \in its(h) : KeyOf(f.severity) = s})]
    <3> HIDE DEF its
    <3> QED
      OBVIOUS
  <2> HIDE DEF line, its
  <2>3. \A s \in Severities : line(h).counts[s] = Cardinality({f \in its(h) : KeyOf(f.severity) = s})
    BY <2>2
  <2> QED
    BY <2>1, <2>3
<1> HIDE DEF line
<1>3. Values(hosts, "host") = Values(listed, "host")
  <2>1. Values(hosts, "host") = {line(h)["host"] : h \in Values(listed, "host")}
    BY <1>1 DEF Values
  <2>2. \A h : line(h)["host"] = h
    BY <1>2
  <2> DEFINE names == Values(listed, "host")
  <2> HIDE DEF names
  <2>3. {line(h)["host"] : h \in names} = names
    BY <2>2
  <2> QED
    BY <2>1, <2>3 DEF names
<1>4. ASSUME NEW h \in hosts
      PROVE  /\ h.total = Cardinality(its(h.host)) /\ h.cvss = Max(Values(its(h.host), "cvss"))
             /\ \A s \in Severities :
                  h.counts[s] = Cardinality({f \in its(h.host) : KeyOf(f.severity) = s})
  <2>1. PICK k : h = line(k)
    BY <1>1
  <2> HIDE DEF its
  <2> QED
    BY <1>2, <2>1
<1> QED
  BY <1>3, <1>4 DEF HostsTold

\* The one line that _build_top_cves_from_findings makes of a CVE.
LEMMA OneLine ==
  ASSUME NEW listed, IsFiniteSet(listed), \A f \in listed : f.cvss \in Nat,
         NEW v \in Values(listed, "cve")
  PROVE  \E c \in CvesFromFindings(listed) :
           LET its == {f \in listed : f.cve = v}
           IN /\ {d \in CvesFromFindings(listed) : d.cve = v} = {c} /\ c.cve = v
              /\ c.hosts = Cardinality(Values(its, "host")) /\ c.hosts \in Nat
              /\ c.cvss = Max(Values(its, "cvss")) /\ c.cvss \in Nat
<1> DEFINE its(w) == {f \in listed : f.cve = w}
           line(w) == [cve |-> w, hosts |-> Cardinality(Values(its(w), "host")),
                       cvss |-> Max(Values(its(w), "cvss"))]
<1>1. CvesFromFindings(listed) = {line(w) : w \in Values(listed, "cve")}
  BY DEF CvesFromFindings
<1>2. \A w : line(w).cve = w
  OBVIOUS
<1>3. line(v).hosts = Cardinality(Values(its(v), "host")) /\ line(v).cvss = Max(Values(its(v), "cvss"))
  OBVIOUS
<1>4. {d \in CvesFromFindings(listed) : d.cve = v} = {line(v)}
  <2> HIDE DEF line
  <2> QED
    BY <1>1, <1>2
<1>5. Cardinality(Values(its(v), "host")) \in Nat /\ Max(Values(its(v), "cvss")) \in Nat
  <2> DEFINE F == its(v)
  <2>1. F \in SUBSET listed /\ F # {} /\ \A f \in F : f.cvss \in Nat
    BY DEF Values
  <2> HIDE DEF F
  <2>2. IsFiniteSet(F)
    BY <2>1, FS_Subset
  <2>3. IsFiniteSet(Values(F, "host")) /\ IsFiniteSet(Values(F, "cvss"))
    BY <2>2, TrendsUseValues
  <2>4. Values(F, "cvss") \in SUBSET Nat /\ Values(F, "cvss") # {}
    BY <2>1 DEF Values
  <2>5. Max(Values(F, "cvss")) \in Nat /\ Cardinality(Values(F, "host")) \in Nat
    BY <2>3, <2>4, MaxIsThere, FS_CardinalityType
  <2> QED
    BY <2>5 DEF F
<1> HIDE DEF its, line
<1> QED
  BY <1>1, <1>2, <1>3, <1>4, <1>5 DEF its

\* The lines of a CVE, whichever way they were made, have its worst score, and
\* count its hosts at least once and in no line twice.
LEMMA CvesListed ==
  ASSUME NEW listed, IsFiniteSet(listed), \A f \in listed : f.cvss \in Nat,
         NEW cves \in {TopCves(listed), CvesFromFindings(listed)}
  PROVE  CvesTold(cves, listed)
<1> SUFFICES ASSUME NEW v \in Values(listed, "cve")
             PROVE  LET its == {f \in listed : f.cve = v}
                        lines == {c \in cves : c.cve = v}
                        number == Cardinality(Values(its, "host"))
                    IN /\ Max(Values(lines, "cvss")) = Max(Values(its, "cvss"))
                       /\ Max(Values(lines, "hosts")) <= number
                       /\ number <= MapThenSumSet(LAMBDA c : c.hosts, lines)
  BY DEF CvesTold
<1> DEFINE its == {f \in listed : f.cve = v}
           lines == {c \in cves : c.cve = v}
           number == Cardinality(Values(its, "host"))
<1>1. PICK c \in CvesFromFindings(listed) :
        /\ {d \in CvesFromFindings(listed) : d.cve = v} = {c} /\ c.cve = v
        /\ c.hosts = number /\ c.hosts \in Nat
        /\ c.cvss = Max(Values(its, "cvss")) /\ c.cvss \in Nat
  BY OneLine
<1>2. CASE cves = TopCves(listed)
  <2>1. LET some == {t \in TopCves(listed) : t.cve = c.cve}
        IN /\ c.cvss = Max(Values(some, "cvss"))
           /\ c.hosts >= Max(Values(some, "hosts"))
           /\ c.hosts <= MapThenSumSet(LAMBDA t : t.hosts, some)
    BY CvesAgree
  <2>2. lines = {t \in TopCves(listed) : t.cve = c.cve}
    BY <1>1, <1>2
  <2>3. /\ c.cvss = Max(Values(lines, "cvss"))
        /\ c.hosts >= Max(Values(lines, "hosts"))
        /\ c.hosts <= MapThenSumSet(LAMBDA t : t.hosts, lines)
    BY <2>1, <2>2
  <2>4. \A x \in {Max(Values(lines, "hosts"))}, y \in {c.hosts} : y >= x <=> x <= y
    OBVIOUS
  <2> HIDE DEF its, lines
  <2>5. Max(Values(lines, "hosts")) <= c.hosts
    BY <2>3, <2>4
  <2> QED
    BY <1>1, <2>3, <2>5 DEF its, lines
<1>3. CASE cves = CvesFromFindings(listed)
  <2>1. lines = {c}
    BY <1>1, <1>3
  <2>2. Values(lines, "cvss") = {c.cvss} /\ Values(lines, "hosts") = {c.hosts}
    <3> HIDE DEF lines
    <3> QED
      BY <2>1 DEF Values
  <2>3. Max({c.cvss}) = c.cvss /\ Max({c.hosts}) = c.hosts
    BY <1>1, MaxIs
  <2> DEFINE g == [d \in {c} |-> d.hosts]
  <2>4. MapThenSumSet(LAMBDA d : d.hosts, {c}) = SumOf(g, {c})
    BY ZenonT(60) DEF SumOf, MapThenSumSet, MapThenFoldSet
  <2>5. SumOf(g, {c}) = c.hosts
    <3>1. Naturals(g, {} \cup {c}) /\ g[c] = c.hosts /\ {} \cup {c} = {c} /\ c \notin {}
      BY <1>1 DEF Naturals
    <3> HIDE DEF g
    <3>2. SumOf(g, {} \cup {c}) = SumOf(g, {}) + g[c]
      BY <3>1, SumWith, FS_EmptySet
    <3>3. SumOf(g, {}) = 0
      BY SumOfNone
    <3> QED
      BY <1>1, <3>1, <3>2, <3>3
  <2> HIDE DEF lines, its
  <2>6. MapThenSumSet(LAMBDA d : d.hosts, lines) = c.hosts
    BY <2>1, <2>4, <2>5
  <2>7. Max(Values(lines, "cvss")) = Max(Values(its, "cvss")) /\ Max(Values(lines, "hosts")) = number
    BY <1>1, <2>2, <2>3
  <2>8. MapThenSumSet(LAMBDA d : d.hosts, lines) = number
    BY <1>1, <2>6
  <2>9. number \in Nat
    BY <1>1
  <2> HIDE DEF number
  <2>10. /\ Max(Values(lines, "hosts")) <= number
         /\ number <= MapThenSumSet(LAMBDA d : d.hosts, lines)
    <3>1. number <= number
      BY <2>9
    <3> QED
      BY <2>7, <2>8, <3>1, Zenon
  <2> QED
    BY <2>7, <2>10 DEF lines, its, number
<1> QED
  BY <1>2, <1>3

\* What a page's lists are made of is findings of the tenant's scans.
LEMMA ListedFindings ==
  ASSUME BoardsInv, NEW p, Scans(p) # {}, NEW range, NEW listed \in Listed(p, range)
  PROVE  IsFiniteSet(listed) /\ \A f \in listed : f.cvss \in Nat
<1>1. CASE p = "insightvm"
  <2>1. LatestScan(p) \in ScanRows /\ listed \in SUBSET LatestScan(p).findings
    BY <1>1, LatestIsNewest, RowsToShow DEF Listed, Recent
  <2>2. IsFiniteSet(LatestScan(p).findings) /\ \A f \in LatestScan(p).findings : f.cvss \in Nat
    BY <2>1, BoardsAssumption
  <2> QED
    BY <2>1, <2>2, FS_Subset
<1>2. CASE p # "insightvm"
  <2> DEFINE R == {s \in Scans(p) : Within(s, range)}
             b == [r \in R |-> r.findings]
  <2>1. R \in SUBSET Scans(p) /\ Scans(p) \subseteq ScanRows /\ IsFiniteSet(Scans(p))
    BY RowsToShow
  <2>2. listed = UNION {b[r] : r \in R}
    BY <1>2 DEF Findings, Listed
  <2>3. \A r \in R : IsFiniteSet(b[r]) /\ \A f \in b[r] : f.cvss \in Nat
    BY <2>1, BoardsAssumption
  <2> HIDE DEF R, b
  <2>4. IsFiniteSet({b[r] : r \in R})
    BY <2>1, FS_Subset, ImageIsFinite
  <2> QED
    BY <2>2, <2>3, <2>4, FS_UNION
<1> QED
  BY <1>1, <1>2

LEMMA ListsSay == BoardsInv => ListsAgree
<1> SUFFICES ASSUME BoardsInv, NEW p \in Vulnerability \cap Scanned, NEW q \in Queries,
                    NEW listed \in Listed(p, ParseRange(q))
             PROVE  HostsTold(HostList(p, listed), listed) /\ CvesTold(CveList(p, listed), listed)
  BY DEF ListsAgree
<1>1. IsFiniteSet(listed) /\ \A f \in listed : f.cvss \in Nat
  BY ListedFindings DEF Scanned
<1>2. HostList(p, listed) \in {HostExposure(listed), ExposureFromFindings(listed)}
  BY DEF HostList
<1>3. CveList(p, listed) \in {TopCves(listed), CvesFromFindings(listed)}
  BY DEF CveList
<1> QED
  BY <1>1, <1>2, <1>3, HostsListed, CvesListed

-----------------------------------------------------------------------------
(* The health index.                                                       *)

\* More findings weigh more...
LEMMA WeighsMore ==
  ASSUME NEW a \in Nat, NEW b \in Nat, NEW w \in Nat, a <= b
  PROVE  a * w \in Nat /\ b * w \in Nat /\ a * w <= b * w
<1>1. b - a \in Nat /\ b = a + (b - a)
  OBVIOUS
<1> DEFINE d == b - a
<1>2. d * w \in Nat /\ a * w \in Nat
  BY <1>1
<1> HIDE DEF d
<1>3. (a + d) * w = a * w + d * w
  BY <1>1 DEF d
<1> QED
  BY <1>1, <1>2, <1>3 DEF d

LEMMA WeighedGrows ==
  ASSUME NEW some, IsFiniteSet(some), NEW c, NEW c2, NEW weight,
         Naturals(c, some), Naturals(c2, some), Naturals(weight, some),
         \A s \in some : c[s] <= c2[s]
  PROVE  /\ Weighed(c, weight, some) \in Nat /\ Weighed(c2, weight, some) \in Nat
         /\ Weighed(c, weight, some) <= Weighed(c2, weight, some)
<1> DEFINE f == [s \in some |-> c[s] * weight[s]]
           g == [s \in some |-> c2[s] * weight[s]]
<1>1. Weighed(c, weight, some) = SumOf(f, some) /\ Weighed(c2, weight, some) = SumOf(g, some)
  BY ZenonT(60) DEF Weighed, SumOf, MapThenSumSet, MapThenFoldSet
<1>2. \A s \in some : f[s] \in Nat /\ g[s] \in Nat /\ f[s] <= g[s]
  BY WeighsMore DEF Naturals
<1> HIDE DEF f, g
<1>3. Naturals(f, some) /\ Naturals(g, some)
  BY <1>2 DEF Naturals
<1>4. SumOf(f, some) <= SumOf(g, some)
  BY <1>2, <1>3, SumAtMost
<1> QED
  BY <1>1, <1>3, <1>4, SumIsNatural

\* ...in rounding as well...
LEMMA RoundedGrows ==
  ASSUME NEW x \in Nat, NEW y \in Nat, x <= y
  PROVE  Rounded(x) \in Nat /\ Rounded(x) <= Rounded(y)
<1> DEFINE a == x \div 1000
           b == y \div 1000
           r == x % 1000
           q == y % 1000
<1>1. /\ a \in Nat /\ r \in 0..999 /\ x = 1000 * a + r
      /\ b \in Nat /\ q \in 0..999 /\ y = 1000 * b + q
  OBVIOUS
<1>2. /\ Rounded(x) = IF r > 500 \/ (r = 500 /\ a % 2 = 1) THEN a + 1 ELSE a
      /\ Rounded(y) = IF q > 500 \/ (q = 500 /\ b % 2 = 1) THEN b + 1 ELSE b
  BY DEF Rounded
<1> HIDE DEF a, b, r, q
<1>3. a <= b /\ (a = b => r <= q)
  BY <1>1
<1>4. Rounded(x) \in {a, a + 1} /\ Rounded(y) \in {b, b + 1}
  BY <1>2
<1>5. CASE a < b
  BY <1>1, <1>4, <1>5
<1>6. CASE a = b
  BY <1>1, <1>2, <1>3, <1>6
<1> QED
  BY <1>1, <1>3, <1>4, <1>5, <1>6

LEMMA Capped ==
  ASSUME NEW cap \in Nat, NEW i \in Nat, NEW j \in Nat, i <= j
  PROVE  /\ Min({cap, i}) \in Nat /\ Min({cap, j}) \in Nat
         /\ Min({cap, i}) <= Min({cap, j}) /\ Min({cap, j}) <= cap
<1>1. /\ Min({cap, i}) = IF cap <= i THEN cap ELSE i
      /\ Min({cap, j}) = IF cap <= j THEN cap ELSE j
  BY LeastOfTwo
<1> QED
  BY <1>1

\* calculate_health_index from its three penalties.
Score(seen, unseen, work) ==
  Max({0, Min({100, Rounded(100000 - (Min({42000, seen}) + Min({10000, unseen}) + Min({18000, work})))})})

\* ...and so the score falls, but never below 30.
LEMMA ScoreFalls ==
  ASSUME NEW a \in Nat, NEW b \in Nat, NEW c \in Nat,
         NEW x \in Nat, NEW y \in Nat, NEW z \in Nat, a <= x, b <= y, c <= z
  PROVE  Score(x, y, z) \in Nat /\ Score(x, y, z) <= Score(a, b, c) /\ Score(x, y, z) >= 30
<1> DEFINE p(i, j, k) == Min({42000, i}) + Min({10000, j}) + Min({18000, k})
           low == 100000 - p(x, y, z)
           high == 100000 - p(a, b, c)
<1>1. low \in Nat /\ high \in Nat /\ 30000 <= low /\ low <= high /\ high <= 100000
  <2> DEFINE m(cap, i) == Min({cap, i})
  <2>1. /\ m(42000, a) \in Nat /\ m(42000, x) \in Nat
        /\ m(42000, a) <= m(42000, x) /\ m(42000, x) <= 42000
    BY Capped
  <2>2. /\ m(10000, b) \in Nat /\ m(10000, y) \in Nat
        /\ m(10000, b) <= m(10000, y) /\ m(10000, y) <= 10000
    BY Capped
  <2>3. /\ m(18000, c) \in Nat /\ m(18000, z) \in Nat
        /\ m(18000, c) <= m(18000, z) /\ m(18000, z) <= 18000
    BY Capped
  <2>4. /\ low = 100000 - (m(42000, x) + m(10000, y) + m(18000, z))
        /\ high = 100000 - (m(42000, a) + m(10000, b) + m(18000, c))
    OBVIOUS
  <2> HIDE DEF m, low, high
  <2> QED
    BY <2>1, <2>2, <2>3, <2>4
<1>2. /\ Score(x, y, z) = Max({0, Min({100, Rounded(low)})})
      /\ Score(a, b, c) = Max({0, Min({100, Rounded(high)})})
  BY DEF Score
<1> HIDE DEF low, high
<1>3. Rounded(30000) = 30
  BY DEF Rounded
<1>4. /\ Rounded(low) \in Nat /\ Rounded(high) \in Nat
      /\ 30 <= Rounded(low) /\ Rounded(low) <= Rounded(high)
  BY <1>1, <1>3, RoundedGrows
<1> DEFINE l == Rounded(low)
           h == Rounded(high)
<1>5. l \in Nat /\ h \in Nat /\ 30 <= l /\ l <= h
  BY <1>4
<1>6. Score(x, y, z) = Max({0, Min({100, l})}) /\ Score(a, b, c) = Max({0, Min({100, h})})
  BY <1>2
<1> HIDE DEF l, h
<1> DEFINE i == Min({100, l})
           j == Min({100, h})
<1>7. i \in Nat /\ j \in Nat /\ 30 <= i /\ i <= j
  BY <1>5, LeastOfTwo
<1>8. Score(x, y, z) = Max({0, i}) /\ Score(a, b, c) = Max({0, j})
  BY <1>6
<1> HIDE DEF i, j
<1>9. Max({0, i}) = i /\ Max({0, j}) = j
  BY <1>7, LeastOfTwo
<1> QED
  BY <1>7, <1>8, <1>9

LEMMA WeightsNatural ==
  /\ Naturals(VisibleWeight, SeverityNames) /\ Naturals(HiddenWeight, SeverityNames)
  /\ Naturals(WazuhWeight, Severities)
<1>1. Naturals(VisibleWeight, SeverityNames)
  BY DEF Naturals, VisibleWeight, SeverityNames, Severities
<1>2. Naturals(HiddenWeight, SeverityNames)
  BY DEF Naturals, HiddenWeight, SeverityNames, Severities
<1>3. Naturals(WazuhWeight, Severities)
  BY DEF Naturals, WazuhWeight, Severities
<1> QED
  BY <1>1, <1>2, <1>3

\* More of anything is no better, and nothing is worse than all three caps.
LEMMA IndexFalls ==
  ASSUME BoardsInv,
         NEW c \in [SeverityNames -> Nat], NEW c2 \in [SeverityNames -> Nat],
         NEW w \in [Severities -> Nat], NEW w2 \in [Severities -> Nat],
         \A s \in SeverityNames : c[s] <= c2[s], \A s \in Severities : w[s] <= w2[s]
  PROVE  Index(c2, w2) \in Nat /\ Index(c2, w2) <= Index(c, w) /\ Index(c2, w2) >= 30
<1> DEFINE V == VisibleSeverities
           H == SeverityNames \ V
           z == IF "zabbix" \in VisibleProviders THEN Operational("zabbix", Entry("zabbix")) ELSE 0
           d == IF "uptime_kuma" \in VisibleProviders THEN Entry("uptime_kuma").down ELSE 0
<1>1. z \in Nat /\ d \in Nat
  BY EntryOfMonitors DEF Operational
<1>2. /\ IsFiniteSet(V) /\ IsFiniteSet(H) /\ IsFiniteSet(Severities)
      /\ V \subseteq SeverityNames /\ H \subseteq SeverityNames
  <2>1. H \in SUBSET SeverityNames
    OBVIOUS
  <2> HIDE DEF H
  <2> QED
    BY <2>1, Chosen, SeveritiesFinite, FS_Subset
<1>3. /\ Index(c, w) = HealthIndex(c, V, w, z, d)
      /\ Index(c2, w2) = HealthIndex(c2, V, w2, z, d)
  BY DEF Index
<1> HIDE DEF V, z, d
<1>4. /\ HealthIndex(c, V, w, z, d) =
           Score(Weighed(c, VisibleWeight, V), Weighed(c, HiddenWeight, H),
                 Weighed(w, WazuhWeight, Severities) + z * 30 + d * 600)
      /\ HealthIndex(c2, V, w2, z, d) =
           Score(Weighed(c2, VisibleWeight, V), Weighed(c2, HiddenWeight, H),
                 Weighed(w2, WazuhWeight, Severities) + z * 30 + d * 600)
  BY DEF HealthIndex, Score
<1> HIDE DEF H
<1>5. /\ Weighed(c, VisibleWeight, V) \in Nat /\ Weighed(c2, VisibleWeight, V) \in Nat
      /\ Weighed(c, VisibleWeight, V) <= Weighed(c2, VisibleWeight, V)
  <2>1. /\ Naturals(c, V) /\ Naturals(c2, V) /\ Naturals(VisibleWeight, V) /\ IsFiniteSet(V)
        /\ \A s \in V : c[s] <= c2[s]
    BY <1>2, WeightsNatural DEF Naturals
  <2> QED
    BY <2>1, WeighedGrows
<1>6. /\ Weighed(c, HiddenWeight, H) \in Nat /\ Weighed(c2, HiddenWeight, H) \in Nat
      /\ Weighed(c, HiddenWeight, H) <= Weighed(c2, HiddenWeight, H)
  <2>1. /\ Naturals(c, H) /\ Naturals(c2, H) /\ Naturals(HiddenWeight, H) /\ IsFiniteSet(H)
        /\ \A s \in H : c[s] <= c2[s]
    BY <1>2, WeightsNatural DEF Naturals
  <2> QED
    BY <2>1, WeighedGrows
<1>7. /\ Weighed(w, WazuhWeight, Severities) \in Nat /\ Weighed(w2, WazuhWeight, Severities) \in Nat
      /\ Weighed(w, WazuhWeight, Severities) <= Weighed(w2, WazuhWeight, Severities)
  <2>1. Naturals(w, Severities) /\ Naturals(w2, Severities)
    BY DEF Naturals
  <2> QED
    BY <1>2, <2>1, WeightsNatural, WeighedGrows
<1> DEFINE m == Weighed(w, WazuhWeight, Severities) + z * 30 + d * 600
           m2 == Weighed(w2, WazuhWeight, Severities) + z * 30 + d * 600
<1>8. m \in Nat /\ m2 \in Nat /\ m <= m2
  BY <1>1, <1>7
<1> HIDE DEF m, m2
<1>9. /\ Score(Weighed(c2, VisibleWeight, V), Weighed(c2, HiddenWeight, H), m2) <=
           Score(Weighed(c, VisibleWeight, V), Weighed(c, HiddenWeight, H), m)
      /\ Score(Weighed(c2, VisibleWeight, V), Weighed(c2, HiddenWeight, H), m2) >= 30
      /\ Score(Weighed(c2, VisibleWeight, V), Weighed(c2, HiddenWeight, H), m2) \in Nat
  BY <1>5, <1>6, <1>8, ScoreFalls
<1> QED
  BY <1>3, <1>4, <1>9 DEF m, m2

LEMMA IndexCounts ==
  ASSUME BoardsInv
  PROVE  /\ VulnerabilityCounts \in [SeverityNames -> Nat]
         /\ Entry("wazuh").counts \in [Severities -> Nat]
<1> DEFINE V == VisibleProviders \cap {"nessus", "openvas", "insightvm"}
<1>1. ASSUME NEW name \in SeverityNames
      PROVE  MapThenSumSet(LAMBDA p : CountOf(Entry(p), name), V) \in Nat
  <2> DEFINE f == [p \in V |-> CountOf(Entry(p), name)]
  <2>1. MapThenSumSet(LAMBDA p : CountOf(Entry(p), name), V) = SumOf(f, V)
    BY ZenonT(60) DEF SumOf, MapThenSumSet, MapThenFoldSet
  <2>2. \A p \in V : f[p] \in Nat
    BY EntryOfScanner DEF CountOf, Scanners, SeverityNames, Severities
  <2>3. V \in SUBSET VisibleProviders
    OBVIOUS
  <2> HIDE DEF f, V
  <2>4. IsFiniteSet(V) /\ Naturals(f, V)
    BY <2>2, <2>3, Chosen, FS_Subset DEF Naturals
  <2> QED
    BY <2>1, <2>4, SumIsNatural
<1> QED
  BY <1>1, EntryOfWazuh DEF VulnerabilityCounts

LEMMA IndexMonotone == BoardsInv => IndexIsMonotone
<1> SUFFICES ASSUME BoardsInv PROVE IndexIsMonotone
  OBVIOUS
<1> DEFINE c == VulnerabilityCounts
           w == Entry("wazuh").counts
<1>1. c \in [SeverityNames -> Nat] /\ w \in [Severities -> Nat]
  BY IndexCounts
<1>2. /\ \A s \in SeverityNames : Index([c EXCEPT ![s] = @ + 1], w) <= Index(c, w)
      /\ \A s \in Severities : Index(c, [w EXCEPT ![s] = @ + 1]) <= Index(c, w)
      /\ Index(c, w) >= 30 /\ Index(c, w) \in Nat
  <2> HIDE DEF c, w
  <2>1. ASSUME NEW s \in SeverityNames PROVE Index([c EXCEPT ![s] = @ + 1], w) <= Index(c, w)
    <3> DEFINE c2 == [c EXCEPT ![s] = @ + 1]
    <3>1. c2 \in [SeverityNames -> Nat] /\ \A t \in SeverityNames : c[t] <= c2[t]
      BY <1>1
    <3>2. \A t \in Severities : w[t] <= w[t]
      BY <1>1
    <3> HIDE DEF c2
    <3> QED
      BY <1>1, <3>1, <3>2, IndexFalls DEF c2
  <2>2. ASSUME NEW s \in Severities PROVE Index(c, [w EXCEPT ![s] = @ + 1]) <= Index(c, w)
    <3> DEFINE w2 == [w EXCEPT ![s] = @ + 1]
    <3>1. w2 \in [Severities -> Nat] /\ \A t \in Severities : w[t] <= w2[t]
      BY <1>1
    <3>2. \A t \in SeverityNames : c[t] <= c[t]
      BY <1>1
    <3> HIDE DEF w2
    <3> QED
      BY <1>1, <3>1, <3>2, IndexFalls DEF w2
  <2>3. (\A t \in SeverityNames : c[t] <= c[t]) /\ \A t \in Severities : w[t] <= w[t]
    BY <1>1
  <2> QED
    BY <1>1, <2>1, <2>2, <2>3, IndexFalls
<1>3. ClientStatus # "critical"
  <2> DEFINE score == Index(VulnerabilityCounts, Entry("wazuh").counts)
  <2>1. score >= 30 /\ score \in Nat
    BY <1>2
  <2>2. ClientStatus = IF connected = {} /\ keys = {} THEN "inactive"
                       ELSE IF score < 30 THEN "critical"
                       ELSE IF score <= 80 THEN "warning" ELSE "healthy"
    BY DEF ClientStatus
  <2> HIDE DEF score
  <2> QED
    BY <2>1, <2>2
<1> QED
  BY <1>2, <1>3 DEF IndexIsMonotone
-----------------------------------------------------------------------------
(* The issues.                                                             *)

Buckets == {"vulnerabilities", "security_events", "monitoring"}

\* The issues are of the shown scans.
LEMMA IssuesAre ==
  ASSUME BoardsInv
  PROVE  /\ IsFiniteSet(Issues)
         /\ \A i \in Issues : /\ i.bucket \in Buckets /\ i.severity \in Severities
                              /\ i.finding \in ScanFindings(i.scan, i.domain)
<1> DEFINE b == [p \in VisibleProviders |-> LatestScan(p)]
           its == [r \in IssueScans |-> {Issue(r.provider, r, f) : f \in r.findings}]
<1>1. IsFiniteSet(IssueScans)
  <2>1. IssueScans \in SUBSET {b[p] : p \in VisibleProviders}
    BY DEF IssueScans
  <2> HIDE DEF b
  <2>2. IsFiniteSet({b[p] : p \in VisibleProviders})
    BY Chosen, ImageIsFinite
  <2> QED
    BY <2>1, <2>2, FS_Subset
<1>2. \A r \in IssueScans : r \in rows /\ r.tenant = Me /\ r \in ScanRows
  BY LatestIsNewest DEF IssueScans, Scans, BoardsInv, BoardsTypeOK
<1>3. Issues = UNION {its[r] : r \in IssueScans}
  BY DEF Issues
<1>4. ASSUME NEW r \in IssueScans PROVE IsFiniteSet(its[r])
  <2> DEFINE S == r.findings
             g == [f \in S |-> Issue(r.provider, r, f)]
  <2>1. IsFiniteSet(S) /\ its[r] = {g[f] : f \in S}
    BY <1>2, BoardsAssumption
  <2> HIDE DEF S, g
  <2> QED
    BY <2>1, ImageIsFinite
<1>5. IsFiniteSet(Issues)
  <2> HIDE DEF its
  <2>1. IsFiniteSet({its[r] : r \in IssueScans})
    BY <1>1, ImageIsFinite
  <2> QED
    BY <1>3, <1>4, <2>1, FS_UNION
<1>6. ASSUME NEW i \in Issues
      PROVE  /\ i.bucket \in Buckets /\ i.severity \in Severities
             /\ i.finding \in ScanFindings(i.scan, i.domain)
  <2>1. PICK r \in IssueScans : i \in its[r]
    BY <1>3
  <2>2. PICK f \in r.findings : i = Issue(r.provider, r, f)
    BY <2>1
  <2>3. /\ i.bucket = Bucket(r.provider) /\ i.severity = KeyOf(f.severity)
        /\ i.finding = f /\ i.scan = r /\ i.domain = Domain(r.provider)
    BY <2>2 DEF Issue
  <2>4. Bucket(r.provider) \in Buckets /\ KeyOf(f.severity) \in Severities
    BY DEF Bucket, Buckets, KeyOf, Severities
  <2>5. f \in ScanFindings(r, Domain(r.provider))
    BY <1>2 DEF ScanFindings
  <2> QED
    BY <2>3, <2>4, <2>5
<1> QED
  BY <1>5, <1>6

\* What a tab leaves, and what a filter does.
LEMMA Tabbed ==
  /\ \A i : Matches(i, <<>>)
  /\ \A i : /\ InTab(i, "all") /\ (InTab(i, "vulnerabilities") <=> i["bucket"] = "vulnerabilities")
           /\ (InTab(i, "monitoring") <=> i["bucket"] = "monitoring")
           /\ (InTab(i, "security-events") <=> i["bucket"] = "security_events")
<1>1. \A i : Matches(i, <<>>)
  BY DEF Matches
<1> QED
  BY <1>1 DEF InTab

LEMMA Filtered ==
  ASSUME NEW items
  PROVE  /\ \A tab \in {"vulnerabilities", "monitoring"} :
              IssueList(items, tab, <<>>) = {i \in items : i["bucket"] = tab}
         /\ IssueList(items, "security-events", <<>>) = {i \in items : i["bucket"] = "security_events"}
         /\ IssueList(items, "all", <<>>) = items
<1>1. \A tab \in {"vulnerabilities", "monitoring"} :
        IssueList(items, tab, <<>>) = {i \in items : i["bucket"] = tab}
  BY Tabbed DEF IssueList
<1>2. /\ IssueList(items, "security-events", <<>>) = {i \in items : i["bucket"] = "security_events"}
      /\ IssueList(items, "all", <<>>) = items
  BY Tabbed DEF IssueList
<1> QED
  BY <1>1, <1>2

LEMMA OfSeverity ==
  ASSUME NEW items, NEW v \in Severities
  PROVE  IssueList(items, "all", [severity |-> v]) = {i \in items : i["severity"] = v}
<1> DEFINE q == [severity |-> v]
<1>1. DOMAIN q = {"severity"} /\ q["severity"] = v /\ KeyOf(v) = v
  BY DEF KeyOf
<1> HIDE DEF q
<1>2. \A i : Matches(i, q) <=> i["severity"] = v
  BY <1>1 DEF Matches
<1>3. IssueList(items, "all", q) = {i \in items : i["severity"] = v}
  BY <1>2, Tabbed DEF IssueList
<1> QED
  BY <1>3 DEF q

LEMMA OfProvider ==
  ASSUME NEW items, NEW v
  PROVE  IssueList(items, "all", [provider |-> v]) = {i \in items : i["provider"] = v}
<1> DEFINE q == [provider |-> v]
<1>1. DOMAIN q = {"provider"} /\ q["provider"] = v
  OBVIOUS
<1> HIDE DEF q
<1>2. \A i : Matches(i, q) <=> i["provider"] = v
  BY <1>1 DEF Matches
<1>3. IssueList(items, "all", q) = {i \in items : i["provider"] = v}
  BY <1>2, Tabbed DEF IssueList
<1> QED
  BY <1>3 DEF q

\* The numbers by the values of a field are all of them.
LEMMA NumbersAddUp ==
  ASSUME NEW items, IsFiniteSet(items), NEW field, NEW values, IsFiniteSet(values),
         \A i \in items : i[field] \in values
  PROVE  SumOf(NumberBy(items, field, values), values) = Cardinality(items)
<1> DEFINE g == NumberBy(items, field, values)
           key == [i \in items |-> i[field]]
<1>1. Keyed(key, items, values)
  BY DEF Keyed
<1>2. NumbersByKey(g, key, items, values)
  <2>1. \A v \in values : WithKey(key, items, v) = {i \in items : i[field] = v}
    BY DEF WithKey
  <2> HIDE DEF key
  <2> QED
    BY <2>1 DEF NumbersByKey, NumberBy
<1> HIDE DEF g, key
<1>3. Cardinality(items) = SumOf(g, values)
  BY <1>1, <1>2, CountByKey
<1> QED
  BY <1>3 DEF g

\* The overview counts what the lists list.
LEMMA IssuesCount == BoardsInv => IssuesAgree
<1> SUFFICES ASSUME BoardsInv PROVE IssuesAgree
  OBVIOUS
<1> DEFINE items == Issues
           number(tab, filter) == Cardinality(IssueList(items, tab, filter))
           providers == Values(items, "provider")
           byBucket == NumberBy(items, "bucket", Buckets)
           bySeverity == NumberBy(items, "severity", Severities)
           byProvider == NumberBy(items, "provider", providers)
           overview == Overview(items)
<1>1. /\ IsFiniteSet(items)
      /\ \A i \in items : /\ i.bucket \in Buckets /\ i.severity \in Severities
                          /\ i.finding \in ScanFindings(i.scan, i.domain)
  BY IssuesAre
<1> HIDE DEF items
<1>2. /\ DOMAIN overview = {"all", "bucket", "severity", "provider"}
      /\ overview["all"] = Cardinality(items) /\ overview["bucket"] = byBucket
      /\ overview["severity"] = bySeverity /\ overview["provider"] = byProvider
  BY DEF Overview, Buckets
<1>3. /\ DOMAIN byBucket = Buckets /\ DOMAIN bySeverity = Severities /\ DOMAIN byProvider = providers
      /\ \A v \in Buckets : byBucket[v] = Cardinality({i \in items : i["bucket"] = v})
      /\ \A v \in Severities : bySeverity[v] = Cardinality({i \in items : i["severity"] = v})
      /\ \A v \in providers : byProvider[v] = Cardinality({i \in items : i["provider"] = v})
  BY DEF NumberBy
<1>4. number("all", <<>>) = Cardinality(items)
  BY Filtered
<1>5. /\ byBucket["vulnerabilities"] = number("vulnerabilities", <<>>)
      /\ byBucket["security_events"] = number("security-events", <<>>)
      /\ byBucket["monitoring"] = number("monitoring", <<>>)
  <2> HIDE DEF byBucket
  <2> QED
    BY <1>3, Filtered DEF Buckets
<1>6. byBucket = [vulnerabilities |-> number("vulnerabilities", <<>>),
                  security_events |-> number("security-events", <<>>),
                  monitoring |-> number("monitoring", <<>>)]
  <2> DEFINE a == number("vulnerabilities", <<>>)
             b == number("security-events", <<>>)
             c == number("monitoring", <<>>)
  <2>1. byBucket = [v \in Buckets |-> byBucket[v]]
    BY DEF NumberBy
  <2> HIDE DEF byBucket, number, a, b, c
  <2>2. /\ byBucket["vulnerabilities"] = a /\ byBucket["security_events"] = b /\ byBucket["monitoring"] = c
    BY <1>5 DEF a, b, c
  <2>3. byBucket = [vulnerabilities |-> a, security_events |-> b, monitoring |-> c]
    BY <2>1, <2>2 DEF Buckets
  <2> QED
    BY <2>3 DEF a, b, c
<1>7. \A s \in Severities : bySeverity[s] = number("all", [severity |-> s])
  <2> SUFFICES ASSUME NEW v \in Severities PROVE bySeverity[v] = number("all", [severity |-> v])
    OBVIOUS
  <2>1. IssueList(items, "all", [severity |-> v]) = {i \in items : i["severity"] = v}
    BY OfSeverity
  <2> HIDE DEF bySeverity
  <2> QED
    BY <1>3, <2>1
<1>8. \A p \in providers : byProvider[p] = number("all", [provider |-> p])
  <2> SUFFICES ASSUME NEW v \in providers PROVE byProvider[v] = number("all", [provider |-> v])
    OBVIOUS
  <2>1. IssueList(items, "all", [provider |-> v]) = {i \in items : i["provider"] = v}
    BY OfProvider
  <2> HIDE DEF byProvider, providers
  <2> QED
    BY <1>3, <2>1
<1>9. /\ SumOf(byBucket, Buckets) = Cardinality(items)
      /\ SumOf(bySeverity, Severities) = Cardinality(items)
      /\ SumOf(byProvider, providers) = Cardinality(items)
  <2>1. IsFiniteSet(Buckets) /\ IsFiniteSet(Severities)
    <3>1. Buckets \in SUBSET {"vulnerabilities", "security_events", "monitoring", "a", "b"}
      BY DEF Buckets
    <3>2. IsFiniteSet({"vulnerabilities", "security_events", "monitoring", "a", "b"})
      BY FiveFinite
    <3> QED
      BY <3>1, <3>2, SeveritiesFinite, FS_Subset
  <2>2. IsFiniteSet(providers)
    BY <1>1, TrendsUseValues
  <2>3. /\ \A i \in items : i["bucket"] \in Buckets
        /\ \A i \in items : i["severity"] \in Severities
        /\ \A i \in items : i["provider"] \in providers
    BY <1>1 DEF Values
  <2> HIDE DEF providers
  <2>4. SumOf(byBucket, Buckets) = Cardinality(items)
    BY <1>1, <2>1, <2>3, NumbersAddUp
  <2>5. SumOf(bySeverity, Severities) = Cardinality(items)
    BY <1>1, <2>1, <2>3, NumbersAddUp
  <2>6. SumOf(byProvider, providers) = Cardinality(items)
    BY <1>1, <2>2, <2>3, NumbersAddUp
  <2> QED
    BY <2>4, <2>5, <2>6
<1> HIDE DEF overview, byBucket, bySeverity, byProvider, providers, number
<1>10. \A f \in {"bucket", "severity", "provider"} :
         overview["all"] = SumOf(overview[f], DOMAIN overview[f])
  <2>1. overview["all"] = SumOf(overview["bucket"], DOMAIN overview["bucket"])
    BY <1>2, <1>3, <1>9
  <2>2. overview["all"] = SumOf(overview["severity"], DOMAIN overview["severity"])
    BY <1>2, <1>3, <1>9
  <2>3. overview["all"] = SumOf(overview["provider"], DOMAIN overview["provider"])
    BY <1>2, <1>3, <1>9
  <2> QED
    BY <2>1, <2>2, <2>3
<1>11. /\ overview["all"] = number("all", <<>>)
       /\ overview["bucket"] = [vulnerabilities |-> number("vulnerabilities", <<>>),
                                security_events |-> number("security-events", <<>>),
                                monitoring |-> number("monitoring", <<>>)]
       /\ \A s \in Severities : overview["severity"][s] = number("all", [severity |-> s])
       /\ \A p \in DOMAIN overview["provider"] : overview["provider"][p] = number("all", [provider |-> p])
  BY <1>2, <1>3, <1>4, <1>6, <1>7, <1>8
<1>12. \A i \in items : i.finding \in ScanFindings(i.scan, i.domain)
  BY <1>1
<1> QED
  BY <1>10, <1>11, <1>12 DEF IssuesAgree, SumOf, overview, number, items

\* All of it together.
LEMMA BoardsComplete == BoardsInv => CountsAreComplete
  BY TrendsAdd, ListsSay, LatestListed, IndexMonotone, IssuesCount, AgentSees DEF CountsAreComplete
-----------------------------------------------------------------------------
(* The theorems about both.                                                *)

THEOREM BoardsSound == BoardsSpec => []BoardsInv
<1> QED
  BY BoardsStart, BoardsStep, PTL DEF BoardsSpec

\* Rows, preferences and the PUTs under way keep their types.
THEOREM BoardsTyped == BoardsSpec => []BoardsTypeOK
<1>1. BoardsInv => BoardsTypeOK
  BY DEF BoardsInv
<1> QED
  BY <1>1, BoardsSound, PTL

\* Side by side each of the two is what it is alone.
THEOREM SideBySide == BothSpec => IngestSpec /\ BoardsSpec
<1>1. BothInit => IngestInit /\ BoardsInit
  BY DEF BothInit
<1>2. [BothNext]_bothVars => [IngestNext]_ingestVars /\ [BoardsNext]_boardVars
  BY DEF BothNext, bothVars
<1> QED
  BY <1>1, <1>2, PTL DEF BothSpec, IngestSpec, BoardsSpec

\* Whatever scans a tenant has, whatever it has connected and chosen to see: a
\* card, its page, the preventions, their footer and the operators' list show
\* the same, and a range is the same range wherever it is accepted.
THEOREM EveryViewAgrees == BothSpec => []ViewsAgree
<1>1. BoardsInv => ViewsAgree
  BY BoardsAgree DEF ViewsAgree
<1> QED
  BY <1>1, SideBySide, BoardsSound, PTL

\* And trends, lists, exposures and issues count each scan and each finding
\* of their days once, by day, host, CVE, severity or provider, but for the
\* lists of insightvm, which are of the RecentLimit newest findings of its
\* newest scan, whatever the range; the index falls with what it counts; an
\* agent sees what its tenant sees.
THEOREM EveryViewIsComplete == BothSpec => []ViewsAreComplete
<1>1. BoardsInv => ViewsAreComplete
  BY BoardsComplete DEF ViewsAreComplete
<1> QED
  BY <1>1, SideBySide, BoardsSound, PTL
=============================================================================
