--------------------- MODULE NotificationDeliveryProofs ---------------------
(***************************************************************************)
(* Theorems about NotificationDelivery for any number of copies of the     *)
(* event, of receives, of devices and of sessions.                         *)
(***************************************************************************)
EXTENDS NotificationDelivery, FiniteSetTheorems, TLAPS

-----------------------------------------------------------------------------
(* How a step changes the record of one try.                               *)

LEMMA TryParts ==
  ASSUME NEW t \in Tries
  PROVE  t[1] \in Messages /\ t[2] \in 1..MaxReceives /\ t = <<t[1], t[2]>>
  BY DEF Tries

LEMMA FreshTry ==
  ASSUME NEW pc \in Points
  PROVE  At(pc) \in TryRecords /\ At(pc).pc = pc
  BY DEF At, TryRecords

\* A try that moves changes its point and nothing else.
LEMMA Moved ==
  ASSUME try \in [Tries -> TryRecords], NEW t \in Tries, NEW pc \in Points,
         Move(t, pc)
  PROVE  /\ try' \in [Tries -> TryRecords]
         /\ try'[t].pc = pc
         /\ \A u \in Tries \ {t} : try'[u] = try[u]
  BY DEF Move, TryRecords

LEMMA EndedTry ==
  ASSUME try \in [Tries -> TryRecords], NEW t \in Tries, NEW pc \in Points,
         End(t, pc)
  PROVE  /\ try' \in [Tries -> TryRecords]
         /\ try'[t].pc = pc
         /\ \A u \in Tries \ {t} : try'[u] = try[u]
  BY FreshTry DEF End

\* Where a call may leave its try.
LEMMA RaisedIs ==
  ASSUME NEW pc \in Points
  PROVE  /\ Raised(pc) \in {"nack", "fail"}
         /\ pc \in {"claim", "look", "reclaim", "fail"} => Raised(pc) = "nack"
         /\ pc \in Owning \ {"fail"} => Raised(pc) = "fail"
  BY DEF Raised, AfterFail, Points, Owning

LEMMA CalledMoves ==
  ASSUME try \in [Tries -> TryRecords], NEW t \in Tries, NEW next \in Points,
         Called(t, next)
  PROVE  \E pc \in Points :
           /\ pc \in {next, try[t].pc, Raised(try[t].pc)}
           /\ "reply" \notin Faults => pc = next
           /\ Move(t, pc)
<1>1. try[t].pc \in Points
  BY DEF TryRecords
<1>2. Raised(try[t].pc) \in Points
  BY <1>1, RaisedIs DEF Points, Owning
<1>3. PICK pc \in Outcomes(try[t].pc, next) : Move(t, pc)
  BY DEF Called
<1> QED
  BY <1>1, <1>2, <1>3 DEF Outcomes

LEMMA CalledTyped ==
  ASSUME try \in [Tries -> TryRecords], NEW t \in Tries, NEW next \in Points,
         Called(t, next)
  PROVE  try' \in [Tries -> TryRecords]
  BY CalledMoves, Moved

LEMMA AfterPushIs ==
  ASSUME NEW todo PROVE AfterPush(todo) \in {"summary", "send"}
  BY DEF AfterPush

LEMMA TriedTyped ==
  ASSUME try \in [Tries -> TryRecords], NEW t \in Tries, NEW a \in Addresses,
         NEW pc \in Points, NEW bad \in SUBSET Devices, NEW sent \in BOOLEAN,
         Tried(t, a, pc, bad, sent)
  PROVE  /\ try' \in [Tries -> TryRecords]
         /\ try'[t].pc = pc
         /\ \A u \in Tries \ {t} : try'[u] = try[u]
<1>1. /\ try[t].todo \in SUBSET Addresses
      /\ try[t].sent \in Nat /\ try[t].failed \in Nat
  BY DEF TryRecords
<1>2. /\ try[t].sent + (IF sent THEN 1 ELSE 0) \in Nat
      /\ try[t].failed + (IF sent THEN 0 ELSE 1) \in Nat
  BY <1>1
<1> QED
  BY <1>1, <1>2 DEF Tried, TryRecords

\* A push leaves its try sending, done, or about to mark the device invalid.
LEMMA Pushed ==
  ASSUME try \in [Tries -> TryRecords], NEW t \in Tries, Push(t)
  PROVE  /\ try' \in [Tries -> TryRecords]
         /\ try'[t].pc \in {"send", "summary", "invalidate"}
         /\ \A u \in Tries \ {t} : try'[u] = try[u]
         /\ \/ reached' = reached
            \/ \E a \in Addresses :
                 reached' = [reached EXCEPT ![t] = @ \cup {a[1]}]
<1> DEFINE next(a) == AfterPush(try[t].todo \ {a})
           arrives(a) == reached' = [reached EXCEPT ![t] = @ \cup {a[1]}]
<1>1. PICK a \in try[t].todo :
        \/ arrives(a) /\ Tried(t, a, next(a), {}, TRUE)
        \/ arrives(a) /\ Tried(t, a, next(a), {}, FALSE)
        \/ UNCHANGED reached /\ Tried(t, a, next(a), {}, FALSE)
        \/ UNCHANGED reached /\ Tried(t, a, "invalidate", {a[1]}, FALSE)
  BY DEF Push, InvalidDevice
<1>2. a \in Addresses /\ {a[1]} \in SUBSET Devices
  BY DEF TryRecords, Addresses
<1>3. next(a) \in {"summary", "send"} \cap Points /\ "invalidate" \in Points
  BY AfterPushIs DEF Points, Owning
<1> HIDE DEF next
<1>4. CASE UNCHANGED reached /\ Tried(t, a, "invalidate", {a[1]}, FALSE)
  BY <1>2, <1>3, <1>4, TriedTyped
<1>5. CASE \/ arrives(a) /\ Tried(t, a, next(a), {}, TRUE)
           \/ arrives(a) /\ Tried(t, a, next(a), {}, FALSE)
           \/ UNCHANGED reached /\ Tried(t, a, next(a), {}, FALSE)
  <2>1. PICK sent \in BOOLEAN : Tried(t, a, next(a), {}, sent)
    BY <1>5
  <2>2. /\ try' \in [Tries -> TryRecords]
        /\ try'[t].pc = next(a)
        /\ \A u \in Tries \ {t} : try'[u] = try[u]
    BY <1>2, <1>3, <2>1, TriedTyped
  <2>3. \/ reached' = reached
        \/ \E b \in Addresses :
             reached' = [reached EXCEPT ![t] = @ \cup {b[1]}]
    BY <1>2, <1>5
  <2> QED
    BY <1>3, <2>2, <2>3
<1> QED
  BY <1>1, <1>4, <1>5

-----------------------------------------------------------------------------
(* Typing.                                                                 *)

LEMMA FiniteAudience ==
  ASSUME NEW todo \in SUBSET Addresses
  PROVE  Cardinality(todo) \in Nat
<1>1. IsFiniteSet(1..MaxToken)
  BY DeliveryAssumption, FS_Interval
<1>2. IsFiniteSet(Addresses)
  BY <1>1, DeliveryAssumption, FS_Product DEF Addresses
<1> QED
  BY <1>2, FS_Subset, FS_CardinalityType

LEMMA InitTyped ==
  ASSUME Init PROVE DeliveryTypeOK
<1>1. \A t \in Tries : try[t] \in TryRecords
  BY FreshTry DEF Init, Points
<1>2. device \in [Devices -> Items]
  BY DeliveryAssumption DEF Init, Items
<1> QED
  BY <1>1, <1>2, DeliveryAssumption
  DEF Init, DeliveryTypeOK, Campaigns, Final, Addresses

LEMMA QueueTyped ==
  ASSUME DeliveryTypeOK, NEW m \in Messages, Queue(m)
  PROVE  DeliveryTypeOK'
<1>1. CASE Receive(m)
  <2>1. msg[m].receives + 1 \in 1..MaxReceives
    BY <1>1, DeliveryAssumption DEF Receive, ReceivesLeft, DeliveryTypeOK
  <2>2. <<m, msg[m].receives + 1>> \in Tries
    BY <2>1 DEF Tries
  <2>3. try' \in [Tries -> TryRecords]
    BY <1>1, <2>2, Moved DEF Receive, DeliveryTypeOK, Points
  <2>4. msg' \in [Messages -> [at : {"queued", "flight", "deleted", "dlq"},
                               receives : 0..MaxReceives]]
    BY <1>1, <2>1 DEF Receive, DeliveryTypeOK
  <2> QED
    BY <1>1, <2>3, <2>4 DEF Receive, DeliveryTypeOK, registryVars, inboxVars
<1>2. CASE DeadLetter(m) \/ VisibleAgain(m)
  BY <1>2
  DEF DeadLetter, VisibleAgain, DeliveryTypeOK, registryVars, inboxVars
<1> QED
  BY <1>1, <1>2 DEF Queue

LEMMA EndTyped ==
  ASSUME DeliveryTypeOK, NEW t \in Tries,
         Acknowledge(t) \/ ReportFailure(t) \/ Crash(t)
  PROVE  DeliveryTypeOK'
<1>1. PICK pc \in Ended : End(t, pc)
  BY DEF Acknowledge, ReportFailure, Crash, Ended
<1>2. try' \in [Tries -> TryRecords]
  BY <1>1, EndedTry DEF DeliveryTypeOK, Points
<1>3. msg' \in [Messages -> [at : {"queued", "flight", "deleted", "dlq"},
                             receives : 0..MaxReceives]]
  <2>1. CASE Acknowledge(t)
    BY <2>1, TryParts DEF Acknowledge, DeliveryTypeOK
  <2>2. CASE ReportFailure(t) \/ Crash(t)
    BY <2>2, TryParts DEF ReportFailure, Crash, Requeued, DeliveryTypeOK
  <2> QED
    BY <2>1, <2>2
<1> QED
  BY <1>2, <1>3
  DEF Acknowledge, ReportFailure, Crash, DeliveryTypeOK, registryVars,
    inboxVars

LEMMA RecipientTyped ==
  ASSUME DeliveryTypeOK,
         (\E d \in Apps : Registry(d)) \/ (\E s \in Sessions : Inbox(s))
  PROVE  DeliveryTypeOK'
<1>1. CASE \E d \in Apps : Registry(d)
  <2>1. PICK d \in Devices : Registry(d)
    BY <1>1, DeliveryAssumption
  <2>2. device' \in [Devices -> Items] /\ dead' \subseteq Addresses
    <3>1. CASE RegisterDevice(d)
      <4>1. PICK on \in BOOLEAN, token \in device[d].token..MaxToken :
              /\ device' = [device EXCEPT ![d] =
                   [status |-> IF on THEN "ACTIVE" ELSE "INACTIVE",
                    enabled |-> on, token |-> token]]
              /\ dead' = IF token = device[d].token THEN dead
                         ELSE dead \cup {<<d, device[d].token>>}
        BY <3>1 DEF RegisterDevice
      <4>2. device[d].token \in 1..MaxToken /\ token \in 1..MaxToken
        BY DeliveryAssumption DEF DeliveryTypeOK, Items
      <4> QED
        BY <4>1, <4>2 DEF DeliveryTypeOK, Items, Addresses
    <3>2. CASE DeleteDevice(d)
      BY <3>2 DEF DeleteDevice, DeliveryTypeOK, Items
    <3>3. CASE TokenDies(d)
      <4>1. device[d].token \in 1..MaxToken
        BY DEF DeliveryTypeOK, Items
      <4> QED
        BY <3>3, <4>1 DEF TokenDies, DeliveryTypeOK, Addresses
    <3> QED
      BY <2>1, <3>1, <3>2, <3>3 DEF Registry
  <2> QED
    BY <2>1, <2>2
    DEF Registry, RegisterDevice, DeleteDevice, TokenDies, DeliveryTypeOK,
      queueVars, inboxVars
<1>2. CASE \E s \in Sessions : Inbox(s)
  BY <1>2
  DEF Inbox, ReadNote, MarkRead, ReadToArchive, Archive, MarkedRead,
    DeliveryTypeOK, queueVars, registryVars
<1> QED
  BY <1>1, <1>2

\* The calls that change nothing but the record of the event.
LEMMA LedgerCallTyped ==
  ASSUME DeliveryTypeOK, NEW t \in Tries,
         \/ Claim(t) \/ Look(t) \/ Reclaim(t) \/ CompleteEvent(t)
         \/ RefuseEvent(t) \/ FailEvent(t) \/ CallFails(t)
  PROVE  DeliveryTypeOK'
<1>1. /\ {"look", "reclaim", "ack"} \subseteq Points
      /\ AfterClaim \in Points /\ AfterFail \in Points
  BY DEF Points, Owning, AfterClaim, AfterFail
<1>2. try[t].pc \in Points
  BY DEF DeliveryTypeOK, TryRecords
<1>3. Raised(try[t].pc) \in Points
  BY <1>2, RaisedIs DEF Points, Owning
<1>4. try' \in [Tries -> TryRecords]
  <2>1. \E pc \in Points : Move(t, pc) \/ Called(t, pc)
    BY <1>1, <1>3
    DEF Claim, Look, Reclaim, CompleteEvent, RefuseEvent, FailEvent, CallFails
  <2> QED
    BY <2>1, Moved, CalledTyped DEF DeliveryTypeOK
<1>5. /\ ledger' \in {"none", "PROCESSING", "COMPLETED", "FAILED"}
      /\ UNCHANGED <<msg, campaign, reached, registryVars, inboxVars>>
  BY DEF Claim, Look, Reclaim, CompleteEvent, RefuseEvent, FailEvent,
    CallFails, DeliveryTypeOK
<1> QED
  BY <1>4, <1>5 DEF DeliveryTypeOK, registryVars, inboxVars

\* The calls that write the notification, the campaign or a device.
LEMMA EffectTyped ==
  ASSUME DeliveryTypeOK, NEW t \in Tries,
         \/ PutNote(t) \/ CreateCampaign(t) \/ MarkDeviceInvalid(t)
         \/ CompleteCampaign(t) \/ RefuseCampaign(t)
  PROVE  DeliveryTypeOK'
<1> DEFINE todo == try[t].todo
<1>1. /\ todo \in SUBSET Addresses
      /\ try[t].sent \in Nat /\ try[t].failed \in Nat
      /\ Cardinality(todo) \in Nat
      /\ campaign[t] \in Campaigns
  BY FiniteAudience DEF DeliveryTypeOK, TryRecords
<1>2. /\ AfterPush(todo) \in Points
      /\ {"audience", "oversize", "complete", "refuse"} \subseteq Points
  BY AfterPushIs DEF Points, Owning
<1> HIDE DEF todo
<1>3. try' \in [Tries -> TryRecords]
  <2>1. \E pc \in Points : Called(t, pc)
    BY <1>2
    DEF PutNote, CreateCampaign, MarkDeviceInvalid, CompleteCampaign,
      RefuseCampaign, todo
  <2> QED
    BY <2>1, CalledTyped DEF DeliveryTypeOK
<1>4. CampaignStatus(campaign[t].total, 0) \in Final
  BY DEF CampaignStatus, Final
<1>5. CampaignStatus(campaign[t].total, try[t].sent) \in Final
  BY DEF CampaignStatus, Final
<1>6. CASE PutNote(t)
  BY <1>3, <1>6 DEF PutNote, NewNote, DeliveryTypeOK, registryVars
<1>7. CASE CreateCampaign(t)
  <2>1. campaign' \in [Tries -> Campaigns]
    BY <1>1, <1>7 DEF CreateCampaign, DeliveryTypeOK, Campaigns, todo
  <2> QED
    BY <1>3, <1>7, <2>1
    DEF CreateCampaign, DeliveryTypeOK, registryVars, inboxVars
<1>8. CASE MarkDeviceInvalid(t)
  <2>1. device' \in [Devices -> Items]
    BY <1>8 DEF MarkDeviceInvalid, DeliveryTypeOK, Items
  <2> QED
    BY <1>3, <1>8, <2>1 DEF MarkDeviceInvalid, DeliveryTypeOK, inboxVars
<1>9. CASE CompleteCampaign(t)
  <2>1. campaign' \in [Tries -> Campaigns]
    BY <1>1, <1>5, <1>9 DEF CompleteCampaign, DeliveryTypeOK, Campaigns
  <2> QED
    BY <1>3, <1>9, <2>1
    DEF CompleteCampaign, DeliveryTypeOK, registryVars, inboxVars
<1>10. CASE RefuseCampaign(t)
  <2>1. campaign' \in [Tries -> Campaigns]
    BY <1>1, <1>4, <1>10 DEF RefuseCampaign, DeliveryTypeOK, Campaigns
  <2> QED
    BY <1>3, <1>10, <2>1
    DEF RefuseCampaign, DeliveryTypeOK, registryVars, inboxVars
<1> QED
  BY <1>6, <1>7, <1>8, <1>9, <1>10

LEMMA AudienceResolved ==
  ASSUME try \in [Tries -> TryRecords], device \in [Devices -> Items],
         NEW t \in Tries, ResolveAudience(t)
  PROVE  /\ try' \in [Tries -> TryRecords]
         /\ try'[t].pc = "create"
         /\ \A u \in Tries \ {t} : try'[u] = try[u]
<1>1. PICK found \in SUBSET Listed :
        try' = [try EXCEPT ![t] =
          [@ EXCEPT !.pc = "create",
                    !.todo = {<<d, device[d].token>> : d \in found}]]
  BY DEF ResolveAudience
<1>2. {<<d, device[d].token>> : d \in found} \in SUBSET Addresses
  BY DEF Listed, Items, Addresses
<1>3. "create" \in Points
  BY DEF Points, Owning
<1> QED
  BY <1>1, <1>2, <1>3 DEF TryRecords

LEMMA SendTyped ==
  ASSUME DeliveryTypeOK, NEW t \in Tries, ResolveAudience(t) \/ Push(t)
  PROVE  DeliveryTypeOK'
<1>1. try' \in [Tries -> TryRecords]
  BY AudienceResolved, Pushed DEF DeliveryTypeOK
<1>2. reached' \in [Tries -> SUBSET Devices]
  <2>1. CASE ResolveAudience(t)
    BY <2>1 DEF ResolveAudience, DeliveryTypeOK
  <2>2. CASE Push(t)
    BY <2>2, Pushed DEF DeliveryTypeOK, Addresses
  <2> QED
    BY <2>1, <2>2
<1> QED
  BY <1>1, <1>2
  DEF ResolveAudience, Push, DeliveryTypeOK, registryVars, inboxVars

LEMMA StepTyped ==
  ASSUME DeliveryTypeOK, [Next]_deliveryVars
  PROVE  DeliveryTypeOK'
<1>1. CASE UNCHANGED deliveryVars
  BY <1>1 DEF deliveryVars, DeliveryTypeOK
<1>2. CASE \E m \in Messages : Queue(m)
  BY <1>2, QueueTyped
<1>3. CASE \E t \in Tries : Work(t)
  BY <1>3, EndTyped, LedgerCallTyped, EffectTyped, SendTyped DEF Work, Call
<1>4. CASE \/ \E d \in Apps : Registry(d)
           \/ \E s \in Sessions : Inbox(s)
  BY <1>4, RecipientTyped
<1> QED
  BY <1>1, <1>2, <1>3, <1>4 DEF Next

\* The types of the queue, the record, the Lambdas, the campaigns and the
\* registry, and with them that no message is received too often.
THEOREM DeliveryTyped == DeliverySpec => []DeliveryTypeOK
<1>1. Init => DeliveryTypeOK
  BY InitTyped
<1>2. DeliveryTypeOK /\ [Next]_deliveryVars => DeliveryTypeOK'
  BY StepTyped
<1> QED
  BY <1>1, <1>2, PTL DEF DeliverySpec

-----------------------------------------------------------------------------
(* What a step of a Lambda does to the ownership of the event, if no reply *)
(* of DynamoDB is lost.                                                    *)

Others(t) == \A u \in Tries \ {t} : try'[u] = try[u]

\* It claims the event, which nobody had or which had failed.
Enters(t) ==
  /\ try[t].pc \in {"claim", "reclaim"} /\ try'[t].pc = "note"
  /\ ledger \in {"none", "FAILED"} /\ ledger' = "PROCESSING"
  /\ reached' = reached

\* It has not claimed it, or is through with it.
StaysOut(t) ==
  /\ \/ /\ try[t].pc \in {"claim", "look", "reclaim"}
        /\ try'[t].pc \in {"look", "reclaim", "ack", "nack", "crashed"}
     \/ try[t].pc = "ack" /\ try'[t].pc \in {"acked", "crashed"}
     \/ try[t].pc = "nack" /\ try'[t].pc = "nacked"
  /\ ledger' = ledger /\ reached' = reached

Delivering == {"send", "invalidate", "summary", "complete", "fail"}

\* It goes on with what it has claimed.
StaysIn(t) ==
  /\ try[t].pc \in Owning /\ try'[t].pc \in Owning
  /\ try[t].pc \in Delivering => try'[t].pc \in Delivering
  /\ ledger' = ledger
  /\ \/ reached' = reached
     \/ /\ try[t].pc = "send"
        /\ \E a \in Addresses :
             reached' = [reached EXCEPT ![t] = @ \cup {a[1]}]

\* It is done: completed, refused, failed, or dead.
Leaves(t) ==
  /\ \/ try[t].pc = "complete" /\ try'[t].pc = "ack" /\ ledger' = "COMPLETED"
     \/ try[t].pc = "refuse" /\ try'[t].pc = "ack" /\ ledger' = "FAILED"
     \/ try[t].pc = "fail" /\ try'[t].pc = "nack"
          /\ ledger' \in {ledger, "FAILED"}
     \/ try[t].pc \in Owning /\ try'[t].pc = "crashed" /\ ledger' = ledger
  /\ reached' = reached

LEMMA CalledOnce ==
  ASSUME "reply" \notin Faults, try \in [Tries -> TryRecords],
         NEW t \in Tries, NEW next \in Points, Called(t, next)
  PROVE  try'[t].pc = next /\ Others(t)
  BY CalledMoves, Moved DEF Others

LEMMA EndKinds ==
  ASSUME DeliveryTypeOK, NEW t \in Tries,
         Acknowledge(t) \/ ReportFailure(t) \/ Crash(t)
  PROVE  Others(t) /\ (StaysOut(t) \/ Leaves(t))
<1>1. PICK pc \in Ended :
        /\ End(t, pc)
        /\ \/ try[t].pc = "ack" /\ pc = "acked"
           \/ try[t].pc = "nack" /\ pc = "nacked"
           \/ try[t].pc \notin {"idle", "nack"} \cup Ended /\ pc = "crashed"
  BY DEF Acknowledge, ReportFailure, Crash, Ended
<1>2. try'[t].pc = pc /\ Others(t)
  BY <1>1, EndedTry DEF DeliveryTypeOK, Points, Others
<1>3. try[t].pc \in Points
  BY DEF DeliveryTypeOK, TryRecords
<1>4. ledger' = ledger /\ reached' = reached
  BY DEF Acknowledge, ReportFailure, Crash
<1> QED
  BY <1>1, <1>2, <1>3, <1>4 DEF StaysOut, Leaves, Points, Ended

LEMMA LedgerCallKinds ==
  ASSUME DeliveryTypeOK, "reply" \notin Faults, NEW t \in Tries,
         \/ Claim(t) \/ Look(t) \/ Reclaim(t) \/ CompleteEvent(t)
         \/ RefuseEvent(t) \/ FailEvent(t) \/ CallFails(t)
  PROVE  Others(t) /\ (Enters(t) \/ StaysOut(t) \/ StaysIn(t) \/ Leaves(t))
<1>1. /\ {"look", "reclaim", "ack", "note", "nack", "fail"} \subseteq Points
      /\ {"note", "fail"} \subseteq Owning
      /\ try \in [Tries -> TryRecords]
  BY DEF Points, Owning, DeliveryTypeOK
<1>2. reached' = reached
  BY DEF Claim, Look, Reclaim, CompleteEvent, RefuseEvent, FailEvent,
    CallFails
<1>3. CASE Claim(t) \/ Reclaim(t)
  <2>1. /\ try[t].pc \in {"claim", "reclaim"}
        /\ \/ /\ ledger \in {"none", "FAILED"} /\ ledger' = "PROCESSING"
              /\ Called(t, "note")
           \/ ledger' = ledger /\ (Move(t, "look") \/ Move(t, "ack"))
    BY <1>3 DEF Claim, Reclaim, Unclaimed, FailedCondition, AfterClaim
  <2>2. CASE Called(t, "note") /\ ledger' # ledger
    BY <1>1, <1>2, <2>1, <2>2, CalledOnce DEF Enters
  <2>3. CASE ledger' = ledger
    <3>1. PICK pc \in {"look", "ack"} : Move(t, pc)
      BY <2>1, <2>3
    <3>2. try'[t].pc = pc /\ Others(t)
      BY <1>1, <3>1, Moved DEF Others
    <3> QED
      BY <1>2, <2>1, <2>3, <3>1, <3>2 DEF StaysOut
  <2> QED
    BY <2>1, <2>2, <2>3
<1>4. CASE Look(t)
  BY <1>1, <1>2, <1>4, Moved DEF Look, StaysOut, Others
<1>5. CASE CompleteEvent(t)
  BY <1>1, <1>2, <1>5, CalledOnce DEF CompleteEvent, Leaves
<1>6. CASE RefuseEvent(t)
  BY <1>1, <1>2, <1>6, CalledOnce DEF RefuseEvent, Leaves
<1>7. CASE FailEvent(t)
  BY <1>1, <1>2, <1>7, CalledOnce DEF FailEvent, AfterFail, Leaves
<1>8. CASE CallFails(t)
  <2>1. try[t].pc \in Points /\ try[t].pc \in Calls
    BY <1>8 DEF CallFails, DeliveryTypeOK, TryRecords
  <2>2. Raised(try[t].pc) \in Points
    BY <1>1, <2>1, RaisedIs
  <2>3. try'[t].pc = Raised(try[t].pc) /\ Others(t) /\ ledger' = ledger
    BY <1>1, <1>8, <2>2, Moved DEF CallFails, Others
  <2>4. CASE try[t].pc \in {"claim", "look", "reclaim"}
    BY <1>2, <2>1, <2>3, <2>4, RaisedIs DEF StaysOut
  <2>5. CASE try[t].pc = "fail"
    BY <1>2, <2>1, <2>3, <2>5, RaisedIs DEF Leaves
  <2>6. CASE try[t].pc \in Owning \ {"fail"}
    BY <1>1, <1>2, <2>1, <2>3, <2>6, RaisedIs DEF StaysIn, Delivering
  <2> QED
    BY <2>1, <2>4, <2>5, <2>6 DEF Calls
<1> QED
  BY <1>3, <1>4, <1>5, <1>6, <1>7, <1>8

LEMMA EffectKinds ==
  ASSUME DeliveryTypeOK, "reply" \notin Faults, NEW t \in Tries,
         \/ PutNote(t) \/ CreateCampaign(t) \/ MarkDeviceInvalid(t)
         \/ CompleteCampaign(t) \/ RefuseCampaign(t) \/ ResolveAudience(t)
         \/ Push(t)
  PROVE  Others(t) /\ StaysIn(t)
<1>1. /\ {"audience", "oversize", "complete", "refuse", "summary", "send"}
           \subseteq Owning \cap Points
      /\ {"note", "audience", "create", "send", "invalidate", "summary",
          "oversize"} \subseteq Owning
      /\ try \in [Tries -> TryRecords]
      /\ device \in [Devices -> Items]
  BY DEF Points, Owning, DeliveryTypeOK
<1>2. CASE Push(t)
  BY <1>1, <1>2, Pushed DEF Push, InvalidDevice, StaysIn, Others, Delivering, Owning
<1>3. CASE ResolveAudience(t)
  BY <1>1, <1>3, AudienceResolved
  DEF ResolveAudience, StaysIn, Others, Delivering, Owning
<1>4. CASE PutNote(t) \/ RefuseCampaign(t)
  BY <1>1, <1>4, CalledOnce DEF PutNote, RefuseCampaign, StaysIn, Delivering
<1>5. CASE CreateCampaign(t)
  <2>1. PICK next \in {"oversize", "summary", "send"} : Called(t, next)
    BY <1>5, AfterPushIs DEF CreateCampaign
  <2> QED
    BY <1>1, <1>5, <2>1, CalledOnce DEF CreateCampaign, StaysIn, Delivering
<1>6. CASE MarkDeviceInvalid(t) \/ CompleteCampaign(t)
  <2>1. PICK next \in {"summary", "send", "complete"} : Called(t, next)
    BY <1>6, AfterPushIs DEF MarkDeviceInvalid, CompleteCampaign
  <2> QED
    BY <1>1, <1>6, <2>1, CalledOnce
    DEF MarkDeviceInvalid, CompleteCampaign, StaysIn, Delivering
<1> QED
  BY <1>2, <1>3, <1>4, <1>5, <1>6

LEMMA WorkKinds ==
  ASSUME DeliveryTypeOK, "reply" \notin Faults, NEW t \in Tries, Work(t)
  PROVE  Others(t) /\ (Enters(t) \/ StaysOut(t) \/ StaysIn(t) \/ Leaves(t))
  BY EndKinds, LedgerCallKinds, EffectKinds DEF Work, Call

-----------------------------------------------------------------------------
(* Ownership.                                                              *)

\* A try that is still to come has done nothing.
Fresh ==
  \A t \in Tries :
    msg[t[1]].receives < t[2] => try[t].pc = "idle" /\ reached[t] = {}

\* It has delivered and has not put the event up again.
Spent(t) == reached[t] # {} /\ try[t].pc \notin {"nack", "nacked"}

\* What it has delivered ends the event: it was acknowledged, or it died and
\* nobody can claim the event any more.
Settled(t) ==
  /\ try[t].pc \in {"ack", "acked", "crashed"}
  /\ ledger \in {"PROCESSING", "COMPLETED"}
  /\ \A u \in Tries : ~Owns(u)

\* The inductive invariant: an owned event is marked as such, and whoever has
\* delivered it owns it or was the last to.
OwnInv ==
  /\ OneOwner
  /\ \A t \in Tries : Owns(t) => ledger = "PROCESSING"
  /\ \A t \in Tries : Spent(t) => try[t].pc \in Delivering \/ Settled(t)
  /\ \A t, u \in Tries : Spent(t) /\ Spent(u) => t = u

\* All other steps only let a new try begin.
LEMMA OtherKinds ==
  ASSUME DeliveryTypeOK, Fresh, [Next]_deliveryVars,
         ~\E t \in Tries : Work(t)
  PROVE  /\ ledger' = ledger /\ reached' = reached
         /\ \A t \in Tries :
              \/ try'[t] = try[t]
              \/ /\ try[t].pc = "idle" /\ reached[t] = {}
                 /\ try'[t].pc \in {"claim", "ack"}
         /\ Fresh'
<1>1. CASE \E m \in Messages : Receive(m)
  <2>1. PICK m \in Messages : Receive(m)
    BY <1>1
  <2> DEFINE r == <<m, msg[m].receives + 1>>
  <2>2. PICK pc \in {"ack", "claim"} : Move(r, pc)
    BY <2>1 DEF Receive
  <2>3. msg[m].receives \in 0..MaxReceives /\ MaxReceives \in Nat
    BY DeliveryAssumption DEF DeliveryTypeOK
  <2>4. r \in Tries
    BY <2>1, <2>3 DEF Receive, ReceivesLeft, Tries
  <2>5. /\ try'[r].pc = pc
        /\ \A t \in Tries \ {r} : try'[t] = try[t]
    BY <2>2, <2>4, Moved DEF DeliveryTypeOK, Points
  <2>6. try[r].pc = "idle" /\ reached[r] = {}
    BY <2>3, <2>4 DEF Fresh
  <2>7. /\ msg'[m].receives = msg[m].receives + 1
        /\ \A n \in Messages \ {m} : msg'[n] = msg[n]
        /\ ledger' = ledger /\ reached' = reached
    BY <2>1 DEF Receive, DeliveryTypeOK
  <2>8. Fresh'
    <3> SUFFICES ASSUME NEW t \in Tries, msg'[t[1]].receives < t[2]
                 PROVE  try'[t].pc = "idle" /\ reached'[t] = {}
      BY DEF Fresh
    <3>1. t[1] \in Messages /\ t[2] \in Nat
      BY TryParts, DeliveryAssumption
    <3>2. t # r /\ msg[t[1]].receives < t[2]
      BY <2>3, <2>7, <3>1
    <3> QED
      BY <2>5, <2>7, <3>2 DEF Fresh
  <2> QED
    BY <2>5, <2>6, <2>7, <2>8
<1>2. CASE \/ \E m \in Messages : DeadLetter(m) \/ VisibleAgain(m)
           \/ \E d \in Apps : Registry(d)
           \/ \E s \in Sessions : Inbox(s)
           \/ UNCHANGED deliveryVars
  <2>1. try' = try /\ ledger' = ledger /\ reached' = reached
    BY <1>2
    DEF DeadLetter, VisibleAgain, Registry, RegisterDevice, DeleteDevice,
      TokenDies, Inbox, ReadNote, MarkRead, ReadToArchive, Archive, queueVars,
      deliveryVars
  <2>2. \A m \in Messages : msg'[m].receives = msg[m].receives
    <3>1. CASE \E m \in Messages : DeadLetter(m) \/ VisibleAgain(m)
      BY <3>1 DEF DeadLetter, VisibleAgain, DeliveryTypeOK
    <3>2. CASE \/ \E d \in Apps : Registry(d)
               \/ \E s \in Sessions : Inbox(s)
               \/ UNCHANGED deliveryVars
      BY <3>2
      DEF Registry, RegisterDevice, DeleteDevice, TokenDies, Inbox, ReadNote,
        MarkRead, ReadToArchive, Archive, queueVars, deliveryVars
    <3> QED
      BY <1>2, <3>1, <3>2
  <2>3. Fresh'
    BY <2>1, <2>2, TryParts DEF Fresh
  <2> QED
    BY <2>1, <2>3
<1> QED
  BY <1>1, <1>2 DEF Next, Queue

\* Nor does the end of a Lambda change how often its message was received.
LEMMA WorkKeepsReceives ==
  ASSUME DeliveryTypeOK, NEW t \in Tries, Work(t)
  PROVE  \A m \in Messages : msg'[m].receives = msg[m].receives
<1>1. t[1] \in Messages
  BY TryParts
<1>2. CASE Acknowledge(t) \/ ReportFailure(t) \/ Crash(t)
  BY <1>1, <1>2
  DEF Acknowledge, ReportFailure, Crash, Requeued, DeliveryTypeOK
<1>3. CASE Call(t)
  <2>1. msg' = msg
    BY <1>3
    DEF Call, Claim, Look, Reclaim, PutNote, ResolveAudience, CreateCampaign,
      Push, MarkDeviceInvalid, CompleteCampaign, CompleteEvent,
      RefuseCampaign, RefuseEvent, FailEvent, CallFails
  <2> QED
    BY <2>1
<1> QED
  BY <1>2, <1>3 DEF Work

LEMMA WorkStaysFresh ==
  ASSUME DeliveryTypeOK, "reply" \notin Faults, Fresh,
         NEW t \in Tries, Work(t)
  PROVE  Fresh'
<1>1. Others(t) /\ (Enters(t) \/ StaysOut(t) \/ StaysIn(t) \/ Leaves(t))
  BY WorkKinds
<1>2. try[t].pc # "idle" /\ \A u \in Tries \ {t} : reached'[u] = reached[u]
  BY <1>1
  DEF Enters, StaysOut, StaysIn, Leaves, Owning, DeliveryTypeOK
<1> QED
  BY <1>1, <1>2, WorkKeepsReceives, TryParts DEF Fresh, Others

-----------------------------------------------------------------------------
(* The invariant is inductive.                                             *)

LEMMA OwnInitially ==
  ASSUME Init
  PROVE  OwnInv /\ Fresh
  BY DEF Init, At, OwnInv, OneOwner, Owns, Owning, Spent, Fresh

LEMMA OwnEnters ==
  ASSUME OwnInv, NEW t \in Tries, Others(t), Enters(t)
  PROVE  OwnInv'
<1>1. /\ \A u \in Tries : ~Owns(u)
      /\ \A u \in Tries : ~Spent(u)
  BY DEF OwnInv, Enters, Settled, Owns, Owning, Delivering
<1>2. \A u \in Tries \ {t} : Owns(u)' = Owns(u) /\ Spent(u)' = Spent(u)
  BY DEF Others, Enters, Owns, Spent
<1>3. ~Spent(t)'
  BY <1>1 DEF Enters, Spent
<1> QED
  BY <1>1, <1>2, <1>3 DEF OwnInv, OneOwner, Enters

LEMMA OwnStaysOut ==
  ASSUME OwnInv, NEW t \in Tries, Others(t), StaysOut(t)
  PROVE  OwnInv'
<1>1. ~Owns(t) /\ ~Owns(t)'
  BY DEF StaysOut, Owns, Owning
<1>2. /\ Spent(t)' => Spent(t)
      /\ Spent(t)' => try'[t].pc \in {"ack", "acked", "crashed"}
  BY DEF OwnInv, StaysOut, Spent, Settled, Delivering
<1>3. \A u \in Tries \ {t} : Owns(u)' = Owns(u) /\ Spent(u)' = Spent(u)
  BY DEF Others, StaysOut, Owns, Spent
<1>4. \A u \in Tries : Settled(u) => \A v \in Tries : ~Owns(v)'
  BY <1>1, <1>3 DEF Settled
<1>5. Spent(t) => Settled(t)
  BY DEF OwnInv, StaysOut, Spent, Delivering, Settled
<1>6. ASSUME NEW u \in Tries, Spent(u)'
      PROVE  try'[u].pc \in Delivering \/ Settled(u)'
  BY <1>2, <1>3, <1>4, <1>5, <1>6
  DEF OwnInv, Settled, Others, StaysOut, Spent
<1> QED
  BY <1>1, <1>2, <1>3, <1>6 DEF OwnInv, OneOwner, StaysOut

LEMMA OwnStaysIn ==
  ASSUME DeliveryTypeOK, OwnInv, NEW t \in Tries, Others(t), StaysIn(t)
  PROVE  OwnInv'
<1>1. Owns(t) /\ Owns(t)' /\ \A u \in Tries : ~Settled(u)
  BY DEF StaysIn, Owns, Settled
<1>2. \A u \in Tries \ {t} : Owns(u)' = Owns(u) /\ Spent(u)' = Spent(u)
  BY DEF Others, StaysIn, Owns, Spent, DeliveryTypeOK
<1>3. \A u \in Tries : Owns(u) => u = t
  BY <1>1 DEF OwnInv, OneOwner
<1>4. \A u \in Tries : Spent(u) => u = t
  BY <1>1, <1>3 DEF OwnInv, Owns, Owning, Delivering
<1>5. Spent(t)' => try'[t].pc \in Delivering
  <2>1. CASE reached' = reached
    BY <1>1, <2>1
    DEF OwnInv, StaysIn, Spent, Settled, Owning, Delivering
  <2>2. CASE try[t].pc = "send"
    BY <2>2 DEF StaysIn, Delivering
  <2> QED
    BY <2>1, <2>2 DEF StaysIn
<1> QED
  BY <1>1, <1>2, <1>3, <1>4, <1>5 DEF OwnInv, OneOwner, StaysIn

LEMMA OwnLeaves ==
  ASSUME OwnInv, NEW t \in Tries, Others(t), Leaves(t)
  PROVE  OwnInv'
<1>1. Owns(t) /\ ~Owns(t)' /\ \A u \in Tries : ~Settled(u)
  BY DEF Leaves, Owns, Owning, Settled
<1>2. \A u \in Tries \ {t} : Owns(u)' = Owns(u) /\ Spent(u)' = Spent(u)
  BY DEF Others, Leaves, Owns, Spent
<1>3. \A u \in Tries : ~Owns(u)'
  BY <1>1, <1>2 DEF OwnInv, OneOwner
<1>4. \A u \in Tries : Spent(u) => u = t
  BY <1>1 DEF OwnInv, OneOwner, Owns, Owning, Delivering
<1>5. Spent(t)' => Settled(t)'
  BY <1>1, <1>3
  DEF OwnInv, Leaves, Spent, Settled, Owns, Owning, Delivering
<1> QED
  BY <1>2, <1>3, <1>4, <1>5 DEF OwnInv, OneOwner

LEMMA OwnStep ==
  ASSUME DeliveryTypeOK, "reply" \notin Faults, OwnInv, Fresh,
         [Next]_deliveryVars
  PROVE  OwnInv' /\ Fresh'
<1>1. CASE \E t \in Tries : Work(t)
  <2>1. PICK t \in Tries : Work(t)
    BY <1>1
  <2>2. Others(t) /\ (Enters(t) \/ StaysOut(t) \/ StaysIn(t) \/ Leaves(t))
    BY <2>1, WorkKinds
  <2>3. OwnInv'
    BY <2>2, OwnEnters, OwnStaysOut, OwnStaysIn, OwnLeaves
  <2> QED
    BY <2>1, <2>3, WorkStaysFresh
<1>2. CASE ~\E t \in Tries : Work(t)
  <2>1. /\ ledger' = ledger /\ reached' = reached /\ Fresh'
        /\ \A t \in Tries :
             \/ try'[t] = try[t]
             \/ /\ try[t].pc = "idle" /\ reached[t] = {}
                /\ try'[t].pc \in {"claim", "ack"}
    BY <1>2, OtherKinds
  <2>2. \A t \in Tries : Owns(t)' = Owns(t) /\ Spent(t)' = Spent(t)
    BY <2>1 DEF Owns, Owning, Spent
  <2>3. \A t \in Tries : Spent(t) => try'[t] = try[t]
    BY <2>1 DEF Spent
  <2> QED
    BY <2>1, <2>2, <2>3 DEF OwnInv, OneOwner, Settled
<1> QED
  BY <1>1, <1>2

LEMMA OwnInvariant ==
  ASSUME "reply" \notin Faults
  PROVE  DeliverySpec => [](OwnInv /\ Fresh)
<1>1. Init => OwnInv /\ Fresh
  BY OwnInitially
<1>2. DeliveryTypeOK /\ OwnInv /\ Fresh /\ [Next]_deliveryVars
        => OwnInv' /\ Fresh'
  BY OwnStep
<1> QED
  BY <1>1, <1>2, DeliveryTyped, PTL DEF DeliverySpec

\* As long as no reply of DynamoDB is lost, whatever else fails: of all the
\* Lambdas with a copy of the event one at a time processes it.
THEOREM SingleOwner ==
  ASSUME "reply" \notin Faults
  PROVE  DeliverySpec => []OneOwner
<1>1. OwnInv => OneOwner
  BY DEF OwnInv
<1> QED
  BY <1>1, OwnInvariant, PTL

\* And a device gets the push again only after a try that had delivered it
\* has put the event up for another.
THEOREM RepeatedPushes ==
  ASSUME "reply" \notin Faults
  PROVE  DeliverySpec => []RepeatsExplained
<1>1. OwnInv => RepeatsExplained
  BY DEF OwnInv, Spent, RepeatsExplained
<1> QED
  BY <1>1, OwnInvariant, PTL

\* The two together.
THEOREM InTurn ==
  ASSUME "reply" \notin Faults
  PROVE  DeliverySpec => []DeliveredInTurn
<1>1. OneOwner /\ RepeatsExplained => DeliveredInTurn
  BY DEF DeliveredInTurn
<1> QED
  BY <1>1, SingleOwner, RepeatedPushes, PTL

\* And a completed event stays completed: no late claim, and no failure of a
\* Lambda that is still at it, opens it again.
THEOREM CompletedStays ==
  ASSUME "reply" \notin Faults
  PROVE  DeliverySpec => CompletedIsFinal
<1>1. ASSUME DeliveryTypeOK, Fresh, OwnInv, [Next]_deliveryVars,
             ledger = "COMPLETED"
      PROVE  ledger' = ledger
  <2>1. \A t \in Tries : try[t].pc \notin Owning
    BY <1>1 DEF OwnInv, Owns
  <2>2. CASE \E t \in Tries : Work(t)
    BY <1>1, <2>1, <2>2, WorkKinds
    DEF Enters, StaysOut, StaysIn, Leaves, Owning
  <2>3. CASE ~\E t \in Tries : Work(t)
    BY <1>1, <2>3, OtherKinds
  <2> QED
    BY <2>2, <2>3
<1>2. DeliveryTypeOK /\ Fresh /\ OwnInv /\ [Next]_deliveryVars
        => [ledger = "COMPLETED" => ledger' = "COMPLETED"]_ledger
  BY <1>1
<1>3. DeliverySpec => [](OwnInv /\ Fresh)
  BY OwnInvariant
<1> QED
  BY <1>2, <1>3, DeliveryTyped, PTL DEF DeliverySpec, CompletedIsFinal

-----------------------------------------------------------------------------
(* The notification in the inbox.                                          *)

\* Whatever fails, and whoever else is at it, the notification goes from
\* unread to read to archived and never back.
THEOREM NoteStays == DeliverySpec => NoteNeverGoesBack
<1>1. ASSUME DeliveryTypeOK, [Next]_deliveryVars
      PROVE  \/ note' = note
             \/ note = "none" /\ note' = "UNREAD"
             \/ note = "UNREAD" /\ note' = "READ"
             \/ note' = "ARCHIVED"
  <2>1. CASE \E t \in Tries : PutNote(t)
    BY <2>1 DEF PutNote, NewNote
  <2>2. CASE \E s \in Sessions : Inbox(s)
    BY <2>2
    DEF Inbox, ReadNote, MarkRead, MarkedRead, ReadToArchive, Archive
  <2>3. CASE ~\E t \in Tries : PutNote(t)
    BY <1>1, <2>2, <2>3
    DEF Next, deliveryVars, Queue, Receive, DeadLetter, VisibleAgain,
      Registry, RegisterDevice, DeleteDevice, TokenDies, Work, Call, Claim,
      Look, Reclaim, ResolveAudience, CreateCampaign, Push,
      MarkDeviceInvalid, CompleteCampaign, CompleteEvent, RefuseCampaign,
      RefuseEvent, FailEvent, CallFails, Acknowledge, ReportFailure, Crash,
      inboxVars
  <2> QED
    BY <2>1, <2>3
<1>2. DeliveryTypeOK /\ [Next]_deliveryVars
        => [NoteRank[note'] >= NoteRank[note]]_note
  BY <1>1 DEF DeliveryTypeOK, NoteRank
<1> QED
  BY <1>2, DeliveryTyped, PTL DEF DeliverySpec, NoteNeverGoesBack

-----------------------------------------------------------------------------
(* What a completed event has behind it, whatever fails.                   *)

\* A try that moves keeps what it remembers.
Keeps(t) ==
  /\ try'[t].todo = try[t].todo
  /\ try'[t].sent = try[t].sent
  /\ try'[t].failed = try[t].failed

LEMMA MovedKeeps ==
  ASSUME try \in [Tries -> TryRecords], NEW t \in Tries, NEW pc \in Points,
         Move(t, pc)
  PROVE  try'[t].pc = pc /\ Keeps(t) /\ Others(t)
  BY Moved DEF Move, TryRecords, Keeps, Others

LEMMA CalledKeeps ==
  ASSUME try \in [Tries -> TryRecords], NEW t \in Tries, NEW next \in Points,
         Called(t, next)
  PROVE  /\ try'[t].pc \in {next, try[t].pc, Raised(try[t].pc)}
         /\ "reply" \notin Faults => try'[t].pc = next
         /\ Keeps(t) /\ Others(t)
  BY CalledMoves, MovedKeeps

Sending == {"send", "invalidate", "summary"}

\* Points a try reaches after it has put the notification.
Noted == {"audience", "create", "complete", "oversize", "refuse"} \cup Sending

\* Points at which a try is through with its campaign.
Late == {"complete", "fail", "ack", "nack"} \cup Ended

\* It tried all the devices of its campaign.
Served(t) == campaign[t].status \in Final /\ campaign[t].total <= MaxDevices

Noticed(t) ==
  /\ try[t].pc \in Noted \/ reached[t] # {} => note # "none"
  /\ try[t].pc \in Sending => campaign[t].total <= MaxDevices
  /\ try[t].pc = "complete" => Served(t)

\* The inductive invariant: a try is past a point only if it did what comes
\* before, and the campaign behind a completed event is never touched again.
DeliveredInv ==
  /\ \A t \in Tries : Noticed(t)
  /\ ledger = "COMPLETED" =>
       note # "none" /\ \E t \in Tries : try[t].pc \in Late /\ Served(t)

\* What a step of a try does to it.
Advances(t) ==
  /\ Others(t)
  /\ \A u \in Tries \ {t} : campaign'[u] = campaign[u]
                            /\ reached'[u] = reached[u]
  /\ note # "none" => note' # "none"
  /\ Noticed(t)'
  /\ try[t].pc \in Late => try'[t].pc \in Late /\ campaign'[t] = campaign[t]
  /\ ledger' = "COMPLETED" => ledger = "COMPLETED" \/ try[t].pc = "complete"

LEMMA DeliveredAdvances ==
  ASSUME DeliveredInv, NEW t \in Tries, Advances(t)
  PROVE  DeliveredInv'
<1>1. \A u \in Tries : Noticed(u)'
  BY DEF DeliveredInv, Advances, Noticed, Served, Others
<1>2. ASSUME NEW u \in Tries, try[u].pc \in Late, Served(u)
      PROVE  try'[u].pc \in Late /\ Served(u)'
  BY <1>2 DEF Advances, Served, Others
<1>3. ASSUME ledger' = "COMPLETED"
      PROVE  note' # "none" /\ \E u \in Tries : try'[u].pc \in Late /\ Served(u)'
  <2>1. note # "none" /\ \E u \in Tries : try[u].pc \in Late /\ Served(u)
    <3>1. CASE ledger = "COMPLETED"
      BY <3>1 DEF DeliveredInv
    <3>2. CASE try[t].pc = "complete"
      BY <3>2 DEF DeliveredInv, Noticed, Noted, Late
    <3> QED
      BY <1>3, <3>1, <3>2 DEF Advances
  <2> QED
    BY <1>2, <2>1 DEF Advances
<1> QED
  BY <1>1, <1>3 DEF DeliveredInv

LEMMA EndAdvances ==
  ASSUME DeliveryTypeOK, DeliveredInv, NEW t \in Tries,
         Acknowledge(t) \/ ReportFailure(t) \/ Crash(t)
  PROVE  Advances(t)
<1>1. PICK pc \in Ended : End(t, pc)
  BY DEF Acknowledge, ReportFailure, Crash, Ended
<1>2. try'[t].pc = pc /\ Others(t)
  BY <1>1, EndedTry DEF DeliveryTypeOK, Points, Others
<1>3. /\ ledger' = ledger /\ campaign' = campaign /\ reached' = reached
      /\ note' = note
  BY DEF Acknowledge, ReportFailure, Crash, inboxVars
<1> QED
  BY <1>2, <1>3
  DEF DeliveredInv, Noticed, Advances, Noted, Sending, Late, Ended

LEMMA LedgerCallAdvances ==
  ASSUME DeliveryTypeOK, DeliveredInv, NEW t \in Tries,
         \/ Claim(t) \/ Look(t) \/ Reclaim(t) \/ CompleteEvent(t)
         \/ RefuseEvent(t) \/ FailEvent(t) \/ CallFails(t)
  PROVE  Advances(t)
<1> DEFINE pc == try[t].pc
<1>1. /\ pc \in Points
      /\ Raised(pc) \in {"nack", "fail"}
      /\ pc = "fail" => Raised(pc) = "nack"
      /\ {"look", "reclaim", "ack", "note", "nack", "fail"} \subseteq Points
      /\ try \in [Tries -> TryRecords]
  BY RaisedIs DEF Points, Owning, DeliveryTypeOK, TryRecords
<1>2. /\ campaign' = campaign /\ reached' = reached /\ note' = note
  BY DEF Claim, Look, Reclaim, CompleteEvent, RefuseEvent, FailEvent,
    CallFails, inboxVars
<1>3. /\ Others(t)
      /\ \/ pc \in {"claim", "look", "reclaim"}
              /\ try'[t].pc \in {"look", "reclaim", "ack", "note", "nack", pc,
                                 "fail"}
              /\ ledger' \in {ledger, "PROCESSING"}
         \/ pc = "complete" /\ try'[t].pc \in {"ack", pc, "fail", "nack"}
         \/ pc = "refuse" /\ try'[t].pc \in {"ack", pc, "fail", "nack"}
              /\ ledger' = "FAILED"
         \/ pc = "fail" /\ try'[t].pc \in {"nack", pc} /\ ledger' = "FAILED"
         \/ pc \in Calls /\ try'[t].pc = Raised(pc) /\ ledger' = ledger
  <2>1. CASE Claim(t) \/ Reclaim(t)
    <3>1. CASE Called(t, "note") /\ ledger' = "PROCESSING"
      BY <1>1, <2>1, <3>1, CalledKeeps DEF Claim, Reclaim
    <3>2. CASE (Move(t, "look") \/ Move(t, "ack")) /\ ledger' = ledger
      BY <1>1, <2>1, <3>2, MovedKeeps DEF Claim, Reclaim
    <3> QED
      BY <2>1, <3>1, <3>2 DEF Claim, Reclaim, AfterClaim
  <2>2. CASE Look(t)
    BY <1>1, <2>2, MovedKeeps DEF Look
  <2>3. CASE CompleteEvent(t)
    BY <1>1, <2>3, CalledKeeps DEF CompleteEvent
  <2>4. CASE RefuseEvent(t)
    BY <1>1, <2>4, CalledKeeps DEF RefuseEvent
  <2>5. CASE FailEvent(t)
    BY <1>1, <2>5, CalledKeeps DEF FailEvent, AfterFail
  <2>6. CASE CallFails(t)
    BY <1>1, <2>6, MovedKeeps DEF CallFails
  <2> QED
    BY <2>1, <2>2, <2>3, <2>4, <2>5, <2>6
<1> HIDE DEF pc
<1>4. Noticed(t)
  BY DEF DeliveredInv
<1> QED
  BY <1>1, <1>2, <1>3, <1>4
  DEF Noticed, Served, Advances, Noted, Sending, Late, Ended, Calls, Owning, pc

LEMMA EffectAdvances ==
  ASSUME DeliveryTypeOK, DeliveredInv, NEW t \in Tries,
         \/ PutNote(t) \/ CreateCampaign(t) \/ MarkDeviceInvalid(t)
         \/ CompleteCampaign(t) \/ RefuseCampaign(t)
  PROVE  Advances(t)
<1> DEFINE pc == try[t].pc
           total == Cardinality(try[t].todo)
<1>1. /\ pc \in Points
      /\ pc \in Owning \ {"fail"} => Raised(pc) = "fail"
      /\ {"audience", "oversize", "complete", "refuse", "summary", "send",
          "fail"} \subseteq Points
      /\ try \in [Tries -> TryRecords]
      /\ campaign \in [Tries -> Campaigns]
      /\ note \in {"none", "UNREAD", "READ", "ARCHIVED"}
      /\ Noticed(t)
  BY RaisedIs DEF Points, Owning, DeliveryTypeOK, TryRecords, DeliveredInv
<1>2. total \in Nat /\ MaxDevices \in Nat
  BY <1>1, FiniteAudience, DeliveryAssumption DEF TryRecords
<1>3. CASE PutNote(t)
  <2>1. pc = "note" /\ note' # "none"
        /\ ledger' = ledger /\ campaign' = campaign /\ reached' = reached
    BY <1>1, <1>3 DEF PutNote, NewNote
  <2>2. try'[t].pc \in {"audience", "note", "fail"} /\ Others(t)
    BY <1>1, <1>3, CalledKeeps DEF PutNote, Owning
  <2> QED
    BY <2>1, <2>2 DEF Noticed, Advances, Sending, Late, Ended
<1>4. CASE CreateCampaign(t)
  <2>1. /\ pc = "create" /\ note # "none" /\ note' = note
        /\ ledger' = ledger /\ reached' = reached
    BY <1>1, <1>4 DEF CreateCampaign, Noticed, Noted, inboxVars
  <2>2. /\ \A u \in Tries \ {t} : campaign'[u] = campaign[u]
        /\ campaign'[t].total = total
    BY <1>1, <1>4 DEF CreateCampaign, Campaigns
  <2>3. PICK next \in {"oversize", "summary", "send"} :
          Called(t, next) /\ (next # "oversize" => total <= MaxDevices)
    <3>1. CASE TooMany(total)
      BY <1>4, <3>1 DEF CreateCampaign
    <3>2. CASE ~TooMany(total)
      BY <1>2, <1>4, <3>2, AfterPushIs DEF CreateCampaign, TooMany
    <3> QED
      BY <3>1, <3>2
  <2>4. try'[t].pc \in {next, "create", "fail"} /\ Others(t)
    BY <1>1, <2>1, <2>3, CalledKeeps DEF Owning
  <2> QED
    BY <2>1, <2>2, <2>3, <2>4 DEF Noticed, Advances, Sending, Late, Ended
<1>5. CASE MarkDeviceInvalid(t)
  <2>1. /\ pc = "invalidate" /\ note # "none" /\ note' = note
        /\ ledger' = ledger /\ campaign' = campaign /\ reached' = reached
        /\ campaign[t].total <= MaxDevices
    BY <1>1, <1>5
    DEF MarkDeviceInvalid, Noticed, Noted, Sending, inboxVars
  <2>2. try'[t].pc \in {"summary", "send", "invalidate", "fail"} /\ Others(t)
    BY <1>1, <1>5, AfterPushIs, CalledKeeps DEF MarkDeviceInvalid, Owning
  <2> QED
    BY <2>1, <2>2 DEF Noticed, Advances, Sending, Late, Ended
<1>6. CASE CompleteCampaign(t)
  <2>1. /\ pc = "summary" /\ note # "none" /\ note' = note
        /\ ledger' = ledger /\ reached' = reached
        /\ campaign[t].total <= MaxDevices
    BY <1>1, <1>6
    DEF CompleteCampaign, Noticed, Noted, Sending, inboxVars
  <2>2. CampaignStatus(campaign[t].total, try[t].sent) \in Final
    BY DEF CampaignStatus, Final
  <2>3. /\ \A u \in Tries \ {t} : campaign'[u] = campaign[u]
        /\ campaign'[t].total = campaign[t].total
        /\ campaign'[t].status \in Final
    BY <1>1, <1>6, <2>2 DEF CompleteCampaign, Campaigns
  <2>4. try'[t].pc \in {"complete", "summary", "fail"} /\ Others(t)
    BY <1>1, <1>6, CalledKeeps DEF CompleteCampaign, Owning
  <2> QED
    BY <2>1, <2>3, <2>4 DEF Noticed, Served, Advances, Sending, Late, Ended
<1>7. CASE RefuseCampaign(t)
  <2>1. /\ pc = "oversize" /\ note # "none" /\ note' = note
        /\ ledger' = ledger /\ reached' = reached
    BY <1>1, <1>7 DEF RefuseCampaign, Noticed, Noted, inboxVars
  <2>2. \A u \in Tries \ {t} : campaign'[u] = campaign[u]
    BY <1>1, <1>7 DEF RefuseCampaign
  <2>3. try'[t].pc \in {"refuse", "oversize", "fail"} /\ Others(t)
    BY <1>1, <1>7, CalledKeeps DEF RefuseCampaign, Owning
  <2> QED
    BY <2>1, <2>2, <2>3 DEF Noticed, Advances, Sending, Late, Ended
<1> QED
  BY <1>3, <1>4, <1>5, <1>6, <1>7

LEMMA SendAdvances ==
  ASSUME DeliveryTypeOK, DeliveredInv, NEW t \in Tries,
         ResolveAudience(t) \/ Push(t)
  PROVE  Advances(t)
<1>1. /\ try \in [Tries -> TryRecords] /\ device \in [Devices -> Items]
      /\ reached \in [Tries -> SUBSET Devices]
      /\ Noticed(t)
  BY DEF DeliveryTypeOK, DeliveredInv
<1>2. /\ note' = note /\ ledger' = ledger /\ campaign' = campaign
  BY DEF ResolveAudience, Push, inboxVars
<1>3. CASE ResolveAudience(t)
  <2>1. try[t].pc = "audience" /\ reached' = reached
    BY <1>3 DEF ResolveAudience
  <2>2. try'[t].pc = "create" /\ Others(t)
    BY <1>1, <1>3, AudienceResolved DEF Others
  <2> QED
    BY <1>1, <1>2, <2>1, <2>2
    DEF Noticed, Advances, Noted, Sending, Late, Ended
<1>4. CASE Push(t)
  <2>1. /\ try[t].pc = "send"
        /\ try'[t].pc \in {"send", "summary", "invalidate"} /\ Others(t)
        /\ \A u \in Tries \ {t} : reached'[u] = reached[u]
    BY <1>1, <1>4, Pushed DEF Push, Others
  <2> QED
    BY <1>1, <1>2, <2>1 DEF Noticed, Advances, Noted, Sending, Late, Ended
<1> QED
  BY <1>3, <1>4

LEMMA WorkAdvances ==
  ASSUME DeliveryTypeOK, DeliveredInv, NEW t \in Tries, Work(t)
  PROVE  Advances(t) /\ try[t].pc # "idle"
<1>1. Advances(t)
  BY EndAdvances, LedgerCallAdvances, EffectAdvances, SendAdvances
  DEF Work, Call
<1>2. try[t].pc # "idle"
  BY DEF Work, Call, Acknowledge, ReportFailure, Crash, Claim, Look, Reclaim,
    PutNote, ResolveAudience, CreateCampaign, Push, MarkDeviceInvalid,
    CompleteCampaign, CompleteEvent, RefuseCampaign, RefuseEvent, FailEvent,
    CallFails, Calls, Owning
<1> QED
  BY <1>1, <1>2

LEMMA DeliveredStep ==
  ASSUME DeliveryTypeOK, DeliveredInv, Fresh, [Next]_deliveryVars
  PROVE  DeliveredInv' /\ Fresh'
<1>1. CASE \E t \in Tries : Work(t)
  <2>1. PICK t \in Tries : Work(t)
    BY <1>1
  <2>2. Advances(t) /\ try[t].pc # "idle"
    BY <2>1, WorkAdvances
  <2>3. Fresh'
    BY <2>1, <2>2, WorkKeepsReceives, TryParts DEF Fresh, Advances, Others
  <2> QED
    BY <2>2, <2>3, DeliveredAdvances
<1>2. CASE ~\E t \in Tries : Work(t)
  <2>1. /\ ledger' = ledger /\ reached' = reached /\ Fresh'
        /\ \A t \in Tries :
             \/ try'[t] = try[t]
             \/ /\ try[t].pc = "idle" /\ reached[t] = {}
                /\ try'[t].pc \in {"claim", "ack"}
    BY <1>2, OtherKinds
  <2>2. campaign' = campaign /\ (note # "none" => note' # "none")
    BY <1>2
    DEF Next, Queue, Receive, DeadLetter, VisibleAgain, Registry,
      RegisterDevice, DeleteDevice, TokenDies, Inbox, ReadNote, MarkRead,
      MarkedRead, ReadToArchive, Archive, deliveryVars, inboxVars
  <2>3. \A t \in Tries : Noticed(t)'
    BY <2>1, <2>2 DEF DeliveredInv, Noticed, Served, Noted, Sending
  <2>4. \A t \in Tries :
          try[t].pc \in Late /\ Served(t) => try'[t].pc \in Late /\ Served(t)'
    BY <2>1, <2>2 DEF Served, Late, Ended
  <2> QED
    BY <2>1, <2>2, <2>3, <2>4 DEF DeliveredInv
<1> QED
  BY <1>1, <1>2

LEMMA DeliveredInvariant == DeliverySpec => []DeliveredInv
<1>1. Init => DeliveredInv
  BY DEF Init, At, DeliveredInv, Noticed, Noted, Sending
<1>2. Init => Fresh
  BY DEF Init, At, Fresh
<1>3. DeliveryTypeOK /\ DeliveredInv /\ Fresh /\ [Next]_deliveryVars
        => DeliveredInv' /\ Fresh'
  BY DeliveredStep
<1> QED
  BY <1>1, <1>2, <1>3, DeliveryTyped, PTL DEF DeliverySpec

\* Whatever fails: no push goes out, and the event is not COMPLETED, before
\* the notification is in the inbox; and it is COMPLETED only when a campaign
\* tried all of its devices.
THEOREM CompletedTruly == DeliverySpec => []CompletedIsDelivered
<1>1. DeliveredInv => CompletedIsDelivered
  BY DEF DeliveredInv, Noticed, Served, CompletedIsDelivered
<1> QED
  BY <1>1, DeliveredInvariant, PTL

-----------------------------------------------------------------------------
(* What a campaign says of its devices, if no reply of DynamoDB or of the  *)
(* provider is lost.                                                       *)

\* One device more: its push was delivered and counted, or neither.
LEMMA PushedOne ==
  ASSUME DeliveryTypeOK, "reply" \notin Faults, NEW t \in Tries, Push(t)
  PROVE  \E a \in try[t].todo, sent \in BOOLEAN :
           /\ try'[t].todo = try[t].todo \ {a}
           /\ try'[t].sent = try[t].sent + (IF sent THEN 1 ELSE 0)
           /\ try'[t].failed = try[t].failed + (IF sent THEN 0 ELSE 1)
           /\ try'[t].pc \in Sending
           /\ try'[t].pc = "summary" => try'[t].todo = {}
           /\ reached'[t] = IF sent THEN reached[t] \cup {a[1]}
                                    ELSE reached[t]
<1> DEFINE next(a) == AfterPush(try[t].todo \ {a})
           arrives(a) == reached' = [reached EXCEPT ![t] = @ \cup {a[1]}]
<1>1. /\ try \in [Tries -> TryRecords]
      /\ reached \in [Tries -> SUBSET Devices]
  BY DEF DeliveryTypeOK
<1>2. PICK a \in try[t].todo :
        \/ arrives(a) /\ Tried(t, a, next(a), {}, TRUE)
        \/ UNCHANGED reached /\ Tried(t, a, next(a), {}, FALSE)
        \/ UNCHANGED reached /\ Tried(t, a, "invalidate", {a[1]}, FALSE)
  BY DEF Push, InvalidDevice
<1>3. /\ next(a) \in {"summary", "send"}
      /\ next(a) = "summary" => try[t].todo \ {a} = {}
  BY DEF AfterPush
<1> HIDE DEF next
<1>4. CASE arrives(a) /\ Tried(t, a, next(a), {}, TRUE)
  BY <1>1, <1>3, <1>4 DEF Tried, Sending
<1>5. CASE UNCHANGED reached /\ Tried(t, a, next(a), {}, FALSE)
  BY <1>1, <1>3, <1>5 DEF Tried, Sending
<1>6. CASE UNCHANGED reached /\ Tried(t, a, "invalidate", {a[1]}, FALSE)
  BY <1>1, <1>6 DEF Tried, Sending
<1> QED
  BY <1>2, <1>4, <1>5, <1>6

\* Points before a try makes its campaign.
Before == {"idle", "claim", "look", "reclaim", "note", "audience", "create"}

OnePerDevice(todo) == \A a, b \in todo : a[1] = b[1] => a = b

\* Nothing is sent and no campaign made.
Blank(t) ==
  /\ campaign[t].status = "none" /\ campaign[t].total = 0
  /\ campaign[t].sent = 0 /\ reached[t] = {}
  /\ try[t].sent = 0 /\ try[t].failed = 0

\* The devices of the campaign are those reached, failed and still to do.
Tallied(t) ==
  /\ campaign[t].status = "PROCESSING"
  /\ campaign[t].total <= MaxDevices
  /\ try[t].sent = Cardinality(reached[t])
  /\ try[t].sent + try[t].failed + Cardinality(try[t].todo)
       = campaign[t].total
  /\ \A a \in try[t].todo : a[1] \notin reached[t]
  /\ try[t].pc = "summary" => try[t].todo = {}

IsTrue(t) ==
  campaign[t].status \in Final =>
    /\ campaign[t].sent + campaign[t].failed = campaign[t].total
    /\ campaign[t].sent = Cardinality(reached[t])
    /\ campaign[t].status = "COMPLETED" <=>
         campaign[t].sent = campaign[t].total /\ campaign[t].total # 0
    /\ campaign[t].total > MaxDevices => reached[t] = {}

Counted(t) ==
  /\ IsTrue(t)
  /\ try[t].pc \in Before => Blank(t)
  /\ try[t].pc \in {"create"} \cup Sending => OnePerDevice(try[t].todo)
  /\ try[t].pc \in Sending => Tallied(t)
  /\ try[t].pc = "oversize" =>
       /\ campaign[t].status = "PROCESSING" /\ campaign[t].sent = 0
       /\ reached[t] = {}
  /\ try[t].pc \in {"oversize", "refuse"} => campaign[t].total > MaxDevices

\* The inductive invariant: the books of each try balance at every point.
TallyInv == \A t \in Tries : Counted(t)

\* What a step of a try does to the others, and the books after it.
Books(t) ==
  /\ Others(t)
  /\ \A u \in Tries \ {t} : campaign'[u] = campaign[u]
                            /\ reached'[u] = reached[u]
  /\ Counted(t)'

LEMMA TallyBooks ==
  ASSUME TallyInv, NEW t \in Tries, Books(t)
  PROVE  TallyInv'
  BY DEF TallyInv, Books, Others, Counted, IsTrue, Blank, OnePerDevice, Tallied

\* A step that leaves the campaign and the devices of its try alone.
LEMMA QuietBooks ==
  ASSUME TallyInv, NEW t \in Tries, Others(t),
         campaign' = campaign, reached' = reached,
         \/ try'[t].pc \notin Before \cup Sending \cup {"oversize", "refuse"}
         \/ /\ try[t].pc \in Before \ {"create"} /\ Keeps(t)
            /\ try'[t].pc \in Before \ {"create"}
         \/ try[t].pc = "oversize" /\ try'[t].pc = "refuse"
  PROVE  Books(t)
<1>1. Counted(t)
  BY DEF TallyInv
<1> QED
  BY <1>1
  DEF Books, Counted, IsTrue, Blank, Keeps, Before, Sending

LEMMA EndBooks ==
  ASSUME DeliveryTypeOK, TallyInv, NEW t \in Tries,
         Acknowledge(t) \/ ReportFailure(t) \/ Crash(t)
  PROVE  Books(t)
<1>1. PICK pc \in Ended : End(t, pc)
  BY DEF Acknowledge, ReportFailure, Crash, Ended
<1>2. try'[t].pc = pc /\ Others(t)
  BY <1>1, EndedTry DEF DeliveryTypeOK, Points, Others
<1>3. campaign' = campaign /\ reached' = reached
  BY DEF Acknowledge, ReportFailure, Crash
<1> QED
  BY <1>2, <1>3, QuietBooks DEF Ended, Before, Sending

LEMMA LedgerCallBooks ==
  ASSUME DeliveryTypeOK, "reply" \notin Faults, TallyInv, NEW t \in Tries,
         \/ Claim(t) \/ Look(t) \/ Reclaim(t) \/ PutNote(t)
         \/ CompleteEvent(t) \/ RefuseEvent(t) \/ FailEvent(t)
         \/ CallFails(t)
  PROVE  Books(t)
<1>1. /\ {"look", "reclaim", "ack", "note", "nack", "fail", "audience"}
           \subseteq Points
      /\ try \in [Tries -> TryRecords] /\ try[t].pc \in Points
  BY DEF Points, Owning, DeliveryTypeOK, TryRecords
<1>2. campaign' = campaign /\ reached' = reached
  BY DEF Claim, Look, Reclaim, PutNote, CompleteEvent, RefuseEvent, FailEvent,
    CallFails
<1>3. /\ Others(t) /\ Keeps(t)
      /\ \/ try'[t].pc \in {"ack", "nack", "fail"}
         \/ /\ try[t].pc \in {"claim", "look", "reclaim", "note"}
            /\ try'[t].pc \in {"look", "reclaim", "note", "audience"}
  <2>1. CASE Claim(t) \/ Reclaim(t)
    <3>1. CASE Called(t, "note")
      BY <1>1, <2>1, <3>1, CalledKeeps DEF Claim, Reclaim
    <3>2. CASE Move(t, "look") \/ Move(t, "ack")
      BY <1>1, <2>1, <3>2, MovedKeeps DEF Claim, Reclaim
    <3> QED
      BY <2>1, <3>1, <3>2 DEF Claim, Reclaim, AfterClaim
  <2>2. CASE Look(t)
    BY <1>1, <2>2, MovedKeeps DEF Look
  <2>3. CASE PutNote(t)
    BY <1>1, <2>3, CalledKeeps DEF PutNote
  <2>4. CASE CompleteEvent(t)
    BY <1>1, <2>4, CalledKeeps DEF CompleteEvent
  <2>5. CASE RefuseEvent(t)
    BY <1>1, <2>5, CalledKeeps DEF RefuseEvent
  <2>6. CASE FailEvent(t)
    BY <1>1, <2>6, CalledKeeps DEF FailEvent, AfterFail
  <2>7. CASE CallFails(t)
    BY <1>1, <2>7, RaisedIs, MovedKeeps DEF CallFails
  <2> QED
    BY <2>1, <2>2, <2>3, <2>4, <2>5, <2>6, <2>7
<1> QED
  BY <1>2, <1>3, QuietBooks DEF Before, Sending

LEMMA AudienceBooks ==
  ASSUME DeliveryTypeOK, TallyInv, NEW t \in Tries, ResolveAudience(t)
  PROVE  Books(t)
<1>1. PICK found \in SUBSET Listed :
        try' = [try EXCEPT ![t] =
          [@ EXCEPT !.pc = "create",
                    !.todo = {<<d, device[d].token>> : d \in found}]]
  BY DEF ResolveAudience
<1> DEFINE todo == {<<d, device[d].token>> : d \in found}
<1>2. OnePerDevice(todo)
  BY DEF OnePerDevice
<1> HIDE DEF todo
<1>3. /\ try'[t].pc = "create" /\ try'[t].todo = todo
      /\ try'[t].sent = try[t].sent /\ try'[t].failed = try[t].failed
      /\ Others(t)
  BY <1>1 DEF DeliveryTypeOK, TryRecords, Others, todo
<1>4. /\ try[t].pc = "audience"
      /\ campaign' = campaign /\ reached' = reached
  BY DEF ResolveAudience
<1>5. Blank(t)
  BY <1>4 DEF TallyInv, Counted, Before
<1>6. Blank(t)' /\ IsTrue(t)'
  BY <1>3, <1>4, <1>5 DEF Blank, IsTrue, Final
<1> QED
  BY <1>2, <1>3, <1>4, <1>6 DEF Books, Counted, Sending, OnePerDevice

LEMMA CreateBooks ==
  ASSUME DeliveryTypeOK, "reply" \notin Faults, TallyInv, NEW t \in Tries,
         CreateCampaign(t)
  PROVE  Books(t)
<1> DEFINE todo == try[t].todo
           total == Cardinality(todo)
<1>1. /\ try \in [Tries -> TryRecords]
      /\ campaign \in [Tries -> Campaigns]
      /\ todo \in SUBSET Addresses
      /\ {"oversize", "summary", "send"} \subseteq Points
  BY DEF DeliveryTypeOK, TryRecords, Points, Owning
<1>2. total \in Nat /\ MaxDevices \in Nat
  BY <1>1, FiniteAudience, DeliveryAssumption
<1>3. Blank(t) /\ OnePerDevice(todo)
  BY DEF CreateCampaign, TallyInv, Counted, Before
<1>4. /\ campaign'[t] = [campaign[t] EXCEPT !.status = "PROCESSING",
                                            !.total = total]
      /\ \A u \in Tries \ {t} : campaign'[u] = campaign[u]
      /\ reached' = reached
  BY <1>1 DEF CreateCampaign
<1>5. /\ campaign'[t].status = "PROCESSING" /\ campaign'[t].total = total
      /\ campaign'[t].sent = 0
  BY <1>1, <1>3, <1>4 DEF Campaigns, Blank
<1>6. PICK next \in {"oversize", "summary", "send"} :
        /\ Called(t, next)
        /\ next = "oversize" => total > MaxDevices
        /\ next # "oversize" => total <= MaxDevices
        /\ next = "summary" => todo = {}
  <2>1. CASE TooMany(total)
    BY <2>1 DEF CreateCampaign, TooMany
  <2>2. CASE ~TooMany(total)
    BY <1>2, <2>2 DEF CreateCampaign, TooMany, AfterPush
  <2> QED
    BY <2>1, <2>2
<1>7. try'[t].pc = next /\ Keeps(t) /\ Others(t)
  BY <1>1, <1>6, CalledKeeps
<1>8. IsTrue(t)'
  BY <1>5 DEF IsTrue, Final
<1>9. reached'[t] = {} /\ Cardinality(reached'[t]) = 0
      /\ try'[t].sent = 0 /\ try'[t].failed = 0 /\ try'[t].todo = todo
  BY <1>3, <1>4, <1>7, FS_EmptySet DEF Blank, Keeps
<1> HIDE DEF total, todo
<1>10. try'[t].pc \in Sending => Tallied(t)'
  <2> SUFFICES ASSUME next # "oversize" PROVE Tallied(t)'
    BY <1>6, <1>7 DEF Sending
  <2>1. try'[t].sent + try'[t].failed + Cardinality(try'[t].todo) = total
    BY <1>2, <1>9 DEF total
  <2> QED
    BY <1>5, <1>6, <1>7, <1>9, <2>1 DEF Tallied
<1> QED
  BY <1>3, <1>4, <1>5, <1>6, <1>7, <1>8, <1>9, <1>10
  DEF Books, Counted, Before, OnePerDevice

LEMMA PushBooks ==
  ASSUME DeliveryTypeOK, "reply" \notin Faults, TallyInv, NEW t \in Tries,
         Push(t)
  PROVE  Books(t)
<1> DEFINE todo == try[t].todo
<1>1. PICK a \in todo, sent \in BOOLEAN :
        /\ try'[t].todo = todo \ {a}
        /\ try'[t].sent = try[t].sent + (IF sent THEN 1 ELSE 0)
        /\ try'[t].failed = try[t].failed + (IF sent THEN 0 ELSE 1)
        /\ try'[t].pc \in Sending
        /\ try'[t].pc = "summary" => try'[t].todo = {}
        /\ reached'[t] = IF sent THEN reached[t] \cup {a[1]} ELSE reached[t]
  BY PushedOne
<1>2. /\ try \in [Tries -> TryRecords] /\ todo \in SUBSET Addresses
      /\ try[t].sent \in Nat /\ try[t].failed \in Nat
      /\ reached \in [Tries -> SUBSET Devices]
      /\ campaign[t].total \in Nat
  BY DEF DeliveryTypeOK, TryRecords, Campaigns
<1>3. OnePerDevice(todo) /\ Tallied(t)
  BY DEF Push, TallyInv, Counted, Sending
<1>4. /\ Others(t) /\ campaign' = campaign
      /\ \A u \in Tries \ {t} : reached'[u] = reached[u]
  BY <1>2, Pushed DEF Push, Others
<1>5. /\ IsFiniteSet(todo) /\ Cardinality(todo) \in Nat
      /\ Cardinality(todo \ {a}) = Cardinality(todo) - 1
  <2>1. IsFiniteSet(1..MaxToken)
    BY DeliveryAssumption, FS_Interval
  <2>2. IsFiniteSet(todo)
    BY <1>2, <2>1, DeliveryAssumption, FS_Product, FS_Subset DEF Addresses
  <2> QED
    BY <2>2, FS_RemoveElement, FS_CardinalityType
<1>6. Cardinality(reached'[t])
        = Cardinality(reached[t]) + (IF sent THEN 1 ELSE 0)
  <2>1. IsFiniteSet(reached[t]) /\ Cardinality(reached[t]) \in Nat
    BY <1>2, DeliveryAssumption, FS_Subset, FS_CardinalityType
  <2>2. a[1] \notin reached[t]
    BY <1>3 DEF Tallied
  <2>3. Cardinality(reached[t] \cup {a[1]}) = Cardinality(reached[t]) + 1
    BY <2>1, <2>2, FS_AddElement
  <2> QED
    BY <1>1, <2>1, <2>3
<1>7. OnePerDevice(try'[t].todo)
  BY <1>1, <1>3 DEF OnePerDevice
<1>8. \A b \in try'[t].todo : b[1] \notin reached'[t]
  BY <1>1, <1>3 DEF OnePerDevice, Tallied
<1> HIDE DEF todo
<1>9. try'[t].sent + try'[t].failed + Cardinality(try'[t].todo)
        = campaign[t].total
  BY <1>1, <1>2, <1>3, <1>5 DEF Tallied, todo
<1>10. Tallied(t)'
  BY <1>1, <1>3, <1>4, <1>6, <1>8, <1>9 DEF Tallied
<1>11. IsTrue(t)'
  BY <1>3, <1>4 DEF IsTrue, Tallied, Final
<1> QED
  BY <1>1, <1>4, <1>7, <1>10, <1>11
  DEF Books, Counted, Before, Sending, OnePerDevice

LEMMA InvalidBooks ==
  ASSUME DeliveryTypeOK, "reply" \notin Faults, TallyInv, NEW t \in Tries,
         MarkDeviceInvalid(t)
  PROVE  Books(t)
<1>1. /\ try \in [Tries -> TryRecords]
      /\ {"summary", "send"} \subseteq Points
  BY DEF DeliveryTypeOK, Points, Owning
<1>2. PICK next \in {"summary", "send"} :
        Called(t, next) /\ (next = "summary" => try[t].todo = {})
  BY DEF MarkDeviceInvalid, AfterPush
<1>3. try'[t].pc = next /\ Keeps(t) /\ Others(t)
  BY <1>1, <1>2, CalledKeeps
<1>4. campaign' = campaign /\ reached' = reached
  BY DEF MarkDeviceInvalid
<1>5. OnePerDevice(try[t].todo) /\ Tallied(t) /\ IsTrue(t)
  BY DEF MarkDeviceInvalid, TallyInv, Counted, Sending
<1>6. OnePerDevice(try'[t].todo) /\ Tallied(t)' /\ IsTrue(t)'
  BY <1>2, <1>3, <1>4, <1>5 DEF OnePerDevice, Tallied, IsTrue, Keeps
<1> QED
  BY <1>2, <1>3, <1>4, <1>6 DEF Books, Counted, Before, OnePerDevice

LEMMA FinalBooks ==
  ASSUME DeliveryTypeOK, "reply" \notin Faults, TallyInv, NEW t \in Tries,
         CompleteCampaign(t) \/ RefuseCampaign(t)
  PROVE  Books(t)
<1>1. /\ try \in [Tries -> TryRecords]
      /\ campaign \in [Tries -> Campaigns]
      /\ campaign[t].total \in Nat
      /\ try[t].sent \in Nat /\ try[t].failed \in Nat
      /\ {"complete", "refuse"} \subseteq Points
      /\ MaxDevices \in Nat
  BY DeliveryAssumption
  DEF DeliveryTypeOK, TryRecords, Campaigns, Points, Owning
<1>2. CASE CompleteCampaign(t)
  <2> DEFINE status == CampaignStatus(campaign[t].total, try[t].sent)
  <2>1. Tallied(t) /\ try[t].pc = "summary"
    BY <1>2 DEF CompleteCampaign, TallyInv, Counted, Sending
  <2>2. try[t].sent + try[t].failed = campaign[t].total
    <3>1. Cardinality(try[t].todo) = 0
      BY <2>1, FS_EmptySet DEF Tallied
    <3> QED
      BY <1>1, <2>1, <3>1 DEF Tallied
  <2>3. status = "COMPLETED" <=>
          try[t].sent = campaign[t].total /\ campaign[t].total # 0
    BY <1>1 DEF CampaignStatus
  <2> HIDE DEF status
  <2>4. /\ campaign'[t] = [campaign[t] EXCEPT !.status = status,
                             !.sent = try[t].sent, !.failed = try[t].failed]
        /\ \A u \in Tries \ {t} : campaign'[u] = campaign[u]
        /\ reached' = reached
    BY <1>1, <1>2 DEF CompleteCampaign, status
  <2>5. /\ campaign'[t].status = status
        /\ campaign'[t].sent = try[t].sent
        /\ campaign'[t].failed = try[t].failed
        /\ campaign'[t].total = campaign[t].total
    BY <1>1, <2>4 DEF Campaigns
  <2>6. try'[t].pc = "complete" /\ Others(t)
    BY <1>1, <1>2, CalledKeeps DEF CompleteCampaign
  <2>7. IsTrue(t)'
    BY <1>1, <2>1, <2>2, <2>3, <2>4, <2>5 DEF IsTrue, Tallied
  <2> QED
    BY <2>4, <2>6, <2>7 DEF Books, Counted, Before, Sending
<1>3. CASE RefuseCampaign(t)
  <2> DEFINE total == campaign[t].total
  <2>1. /\ total > MaxDevices /\ campaign[t].sent = 0 /\ reached[t] = {}
    BY <1>3 DEF RefuseCampaign, TallyInv, Counted
  <2>2. CampaignStatus(total, 0) # "COMPLETED"
    BY <1>1 DEF CampaignStatus
  <2>3. /\ campaign'[t] = [campaign[t] EXCEPT
             !.status = CampaignStatus(total, 0), !.failed = total]
        /\ \A u \in Tries \ {t} : campaign'[u] = campaign[u]
        /\ reached' = reached
    BY <1>1, <1>3 DEF RefuseCampaign
  <2>4. /\ campaign'[t].status = CampaignStatus(total, 0)
        /\ campaign'[t].sent = 0
        /\ campaign'[t].failed = total
        /\ campaign'[t].total = total
    BY <1>1, <2>1, <2>3 DEF Campaigns
  <2>5. try'[t].pc = "refuse" /\ Others(t)
    BY <1>1, <1>3, CalledKeeps DEF RefuseCampaign
  <2>6. reached'[t] = {} /\ Cardinality(reached'[t]) = 0
    BY <2>1, <2>3, FS_EmptySet
  <2> HIDE DEF total
  <2>7. IsTrue(t)'
    BY <1>1, <2>2, <2>4, <2>6 DEF IsTrue, total
  <2> QED
    BY <2>1, <2>3, <2>4, <2>5, <2>7 DEF Books, Counted, Before, Sending
<1> QED
  BY <1>2, <1>3

LEMMA TallyStep ==
  ASSUME DeliveryTypeOK, "reply" \notin Faults, Fresh, TallyInv,
         [Next]_deliveryVars
  PROVE  TallyInv'
<1>1. CASE \E t \in Tries : Work(t)
  BY <1>1, EndBooks, LedgerCallBooks, AudienceBooks, CreateBooks, PushBooks,
    InvalidBooks, FinalBooks, TallyBooks DEF Work, Call
<1>2. CASE ~\E t \in Tries : Work(t)
  <2>1. /\ reached' = reached
        /\ \A t \in Tries :
             \/ try'[t] = try[t]
             \/ /\ try[t].pc = "idle"
                /\ try'[t].pc \in {"claim", "ack"}
    BY <1>2, OtherKinds
  <2>2. campaign' = campaign
    BY <1>2
    DEF Next, Queue, Receive, DeadLetter, VisibleAgain, Registry,
      RegisterDevice, DeleteDevice, TokenDies, Inbox, ReadNote, MarkRead,
      ReadToArchive, Archive, deliveryVars
  <2>3. \A t \in Tries :
          try'[t].sent = try[t].sent /\ try'[t].failed = try[t].failed
    <3>1. CASE \E m \in Messages : Receive(m)
      <4>1. PICK m \in Messages, pc \in {"ack", "claim"} :
              Move(<<m, msg[m].receives + 1>>, pc)
        BY <3>1 DEF Receive
      <4> DEFINE r == <<m, msg[m].receives + 1>>
      <4>2. try \in [Tries -> TryRecords] /\ Move(r, pc)
        BY <4>1 DEF DeliveryTypeOK
      <4> HIDE DEF r
      <4>3. ASSUME NEW t \in Tries
            PROVE  try'[t].sent = try[t].sent /\ try'[t].failed = try[t].failed
        <5>1. try'[t] = IF t = r THEN [try[t] EXCEPT !.pc = pc] ELSE try[t]
          BY <4>2 DEF Move
        <5> QED
          BY <4>2, <5>1 DEF TryRecords
      <4> QED
        BY <4>3
    <3>2. CASE ~\E m \in Messages : Receive(m)
      <4>1. try' = try
        BY <1>2, <3>2
        DEF Next, Queue, DeadLetter, VisibleAgain, Registry, RegisterDevice,
          DeleteDevice, TokenDies, Inbox, ReadNote, MarkRead, ReadToArchive,
          Archive, deliveryVars, queueVars
      <4> QED
        BY <4>1
    <3> QED
      BY <3>1, <3>2
  <2> QED
    BY <2>1, <2>2, <2>3
    DEF TallyInv, Counted, IsTrue, Blank, Tallied, OnePerDevice, Before,
      Sending
<1> QED
  BY <1>1, <1>2

\* As long as no reply is lost, whatever else fails: a finished campaign says
\* of its devices what happened to them, and refuses more than MaxDevices.
THEOREM CampaignsTold ==
  ASSUME "reply" \notin Faults
  PROVE  DeliverySpec => []CampaignsAreTrue
<1>1. Init => TallyInv
  BY DEF Init, At, TallyInv, Counted, IsTrue, Blank, Before, Sending, Final
<1>2. DeliveryTypeOK /\ Fresh /\ TallyInv /\ [Next]_deliveryVars => TallyInv'
  BY TallyStep
<1>3. TallyInv => CampaignsAreTrue
  BY DEF TallyInv, Counted, IsTrue, CampaignsAreTrue
<1>4. DeliverySpec => [](OwnInv /\ Fresh)
  BY OwnInvariant
<1> QED
  BY <1>1, <1>2, <1>3, <1>4, DeliveryTyped, PTL DEF DeliverySpec

-----------------------------------------------------------------------------
(* Nothing is lost, if nothing but a call without effect fails.            *)

Running(t) == try[t].pc \notin {"idle"} \cup Ended

\* Each message in flight has one try, its latest, and a malformed one is
\* only acknowledged.
Carried(t) ==
  Running(t) =>
    /\ Latest(t) /\ msg[t[1]].at = "flight"
    /\ t[1] \in Malformed => try[t].pc = "ack"

\* The message is there, and nobody is about to delete it.
Pending(m) ==
  /\ msg[m].at # "deleted"
  /\ \A t \in Tries : t[1] = m => try[t].pc # "ack"

Refused(t) == campaign[t].total > MaxDevices /\ try[t].pc \notin Before

\* The inductive invariant.
ForgetInv ==
  /\ \A t \in Tries : Carried(t)
  /\ ledger = "PROCESSING" => \E t \in Tries : Owns(t)
  /\ ledger = "FAILED" =>
       \/ \E m \in Messages \ Malformed : Pending(m)
       \/ \E t \in Tries : Refused(t)

LEMMA CallMoves ==
  ASSUME DeliveryTypeOK, "reply" \notin Faults, NEW t \in Tries, Call(t)
  PROVE  /\ msg' = msg /\ Others(t)
         /\ Running(t) /\ Running(t)' /\ try[t].pc # "ack"
<1>1. msg' = msg
  BY DEF Call, Claim, Look, Reclaim, PutNote, ResolveAudience,
    CreateCampaign, Push, MarkDeviceInvalid, CompleteCampaign, CompleteEvent,
    RefuseCampaign, RefuseEvent, FailEvent, CallFails
<1>2. try[t].pc \in Calls \cup {"send"}
  BY DEF Call, Claim, Look, Reclaim, PutNote, ResolveAudience,
    CreateCampaign, Push, MarkDeviceInvalid, CompleteCampaign, CompleteEvent,
    RefuseCampaign, RefuseEvent, FailEvent, CallFails, Calls, Owning
<1>3. Work(t)
  BY DEF Work
<1>4. Others(t) /\ (Enters(t) \/ StaysOut(t) \/ StaysIn(t) \/ Leaves(t))
  BY <1>3, WorkKinds
<1>5. try'[t].pc # "crashed" /\ try'[t].pc # "acked"
        /\ try'[t].pc # "nacked" /\ try'[t].pc # "idle"
  <2>1. CASE ResolveAudience(t) \/ Push(t)
    BY <2>1, AudienceResolved, Pushed DEF DeliveryTypeOK
  <2>2. CASE ~(ResolveAudience(t) \/ Push(t))
    <3>1. PICK pc \in {"note", "look", "ack", "reclaim", "audience",
                       "oversize", "summary", "send", "complete", "refuse",
                       "nack", "fail"} : Move(t, pc) \/ Called(t, pc)
      <4>1. Raised(try[t].pc) \in {"nack", "fail"}
        BY RaisedIs DEF DeliveryTypeOK, TryRecords
      <4> QED
        BY <2>2, <4>1
        DEF Call, Claim, Look, Reclaim, PutNote, CreateCampaign,
          MarkDeviceInvalid, CompleteCampaign, CompleteEvent, RefuseCampaign,
          RefuseEvent, FailEvent, CallFails, AfterClaim, AfterFail, AfterPush
    <3>2. pc \in Points /\ try \in [Tries -> TryRecords]
      BY <3>1 DEF Points, Owning, DeliveryTypeOK
    <3>3. try'[t].pc = pc
      BY <3>1, <3>2, CalledKeeps, MovedKeeps
    <3> QED
      BY <3>1, <3>3
  <2> QED
    BY <2>1, <2>2
<1> QED
  BY <1>1, <1>2, <1>4, <1>5 DEF Running, Ended, Calls, Owning

LEMMA CarriedByWork ==
  ASSUME DeliveryTypeOK, Faults \subseteq {"error"},
         \A u \in Tries : Carried(u), NEW t \in Tries, Work(t)
  PROVE  \A u \in Tries : Carried(u)'
<1>1. CASE Call(t)
  <2>1. /\ msg' = msg /\ Others(t)
        /\ Running(t) /\ Running(t)' /\ try[t].pc # "ack"
    BY <1>1, CallMoves
  <2> QED
    BY <2>1 DEF Carried, Running, Latest, Others
<1>2. CASE Acknowledge(t) \/ ReportFailure(t)
  <2>1. PICK pc \in Ended : End(t, pc)
    BY <1>2 DEF Acknowledge, ReportFailure, Ended
  <2>2. try'[t].pc = pc /\ Others(t)
    BY <2>1, EndedTry DEF DeliveryTypeOK, Points, Others
  <2>3. Latest(t)
    BY <1>2 DEF Acknowledge, ReportFailure, Carried, Running, Ended
  <2>4. \A m \in Messages \ {t[1]} : msg'[m] = msg[m]
    BY <1>2 DEF Acknowledge, ReportFailure, Requeued, DeliveryTypeOK
  <2> SUFFICES ASSUME NEW u \in Tries, Running(u)' PROVE Carried(u)'
    BY DEF Carried
  <2>5. u # t /\ Running(u)
    BY <2>2 DEF Running, Others
  <2>6. u[1] # t[1]
    BY <2>3, <2>5, TryParts DEF Carried, Latest
  <2> QED
    BY <2>2, <2>4, <2>5, <2>6, TryParts
    DEF Carried, Running, Latest, Others
<1> QED
  BY <1>1, <1>2 DEF Work, Crash

LEMMA CarriedByOthers ==
  ASSUME DeliveryTypeOK, Faults \subseteq {"error"},
         \A u \in Tries : Carried(u), [Next]_deliveryVars,
         ~\E t \in Tries : Work(t)
  PROVE  \A u \in Tries : Carried(u)'
<1>1. CASE \E m \in Messages : Receive(m)
  <2>1. PICK m \in Messages : Receive(m)
    BY <1>1
  <2> DEFINE r == <<m, msg[m].receives + 1>>
  <2>2. msg[m].receives \in 0..MaxReceives /\ MaxReceives \in Nat
    BY DeliveryAssumption DEF DeliveryTypeOK
  <2>3. r \in Tries
    BY <2>1, <2>2 DEF Receive, ReceivesLeft, Tries
  <2>4. /\ try'[r].pc = IF m \in Malformed THEN "ack" ELSE "claim"
        /\ \A u \in Tries \ {r} : try'[u] = try[u]
    BY <2>1, <2>3, Moved DEF Receive, DeliveryTypeOK, Points
  <2>5. /\ msg'[m].at = "flight" /\ msg'[m].receives = msg[m].receives + 1
        /\ \A n \in Messages \ {m} : msg'[n] = msg[n]
        /\ msg[m].at = "queued"
    BY <2>1 DEF Receive, DeliveryTypeOK
  <2> SUFFICES ASSUME NEW u \in Tries, Running(u)' PROVE Carried(u)'
    BY DEF Carried
  <2>6. CASE u = r
    BY <2>4, <2>5, <2>6 DEF Carried, Latest
  <2>7. CASE u # r
    <3>1. Running(u) /\ u[1] # m /\ u[1] \in Messages
      BY <2>4, <2>5, <2>7, TryParts DEF Running, Carried
    <3> QED
      BY <2>4, <2>5, <2>7, <3>1 DEF Carried, Running, Latest
  <2> QED
    BY <2>6, <2>7
<1>2. CASE \E m \in Messages : DeadLetter(m)
  <2>1. PICK m \in Messages : DeadLetter(m)
    BY <1>2
  <2>2. /\ msg[m].at = "queued" /\ try' = try
        /\ \A n \in Messages \ {m} : msg'[n] = msg[n]
    BY <2>1 DEF DeadLetter, DeliveryTypeOK
  <2> QED
    BY <2>2, TryParts DEF Carried, Running, Latest
<1>3. CASE \/ \E d \in Apps : Registry(d)
           \/ \E s \in Sessions : Inbox(s)
           \/ UNCHANGED deliveryVars
  <2>1. msg' = msg /\ try' = try
    BY <1>3
    DEF Registry, RegisterDevice, DeleteDevice, TokenDies, Inbox, ReadNote,
      MarkRead, ReadToArchive, Archive, queueVars, deliveryVars
  <2> QED
    BY <2>1 DEF Carried, Running, Latest
<1> QED
  BY <1>1, <1>2, <1>3 DEF Next, Queue, VisibleAgain

\* The size of a campaign does not change once it is made.
LEMMA SizeStays ==
  ASSUME DeliveryTypeOK, "reply" \notin Faults, NEW t \in Tries, Work(t),
         try[t].pc \notin Before
  PROVE  /\ try'[t].pc \notin Before
         /\ campaign'[t].total = campaign[t].total
<1>1. campaign'[t].total = campaign[t].total
  <2>1. CASE CompleteCampaign(t) \/ RefuseCampaign(t)
    <3>1. campaign \in [Tries -> Campaigns]
      BY DEF DeliveryTypeOK
    <3>2. PICK status, sent, failed :
            campaign'[t] = [campaign[t] EXCEPT !.status = status,
                                               !.sent = sent, !.failed = failed]
      <4>1. CASE CompleteCampaign(t)
        BY <3>1, <4>1 DEF CompleteCampaign
      <4>2. CASE RefuseCampaign(t)
        <5>1. campaign'[t] = [campaign[t] EXCEPT
                !.status = CampaignStatus(campaign[t].total, 0),
                !.failed = campaign[t].total]
          BY <3>1, <4>2 DEF RefuseCampaign
        <5>2. campaign'[t] = [campaign[t] EXCEPT
                !.status = CampaignStatus(campaign[t].total, 0),
                !.sent = campaign[t].sent, !.failed = campaign[t].total]
          BY <3>1, <5>1 DEF Campaigns
        <5> QED
          BY <5>2
      <4> QED
        BY <2>1, <4>1, <4>2
    <3> QED
      BY <3>1, <3>2 DEF Campaigns
  <2>2. CASE ~(CompleteCampaign(t) \/ RefuseCampaign(t))
    BY <2>2
    DEF Work, Call, Claim, Look, Reclaim, PutNote, ResolveAudience,
      CreateCampaign, Push, MarkDeviceInvalid, CompleteEvent, RefuseEvent,
      FailEvent, CallFails, Acknowledge, ReportFailure, Crash, Before
  <2> QED
    BY <2>1, <2>2
<1>2. CASE Push(t)
  BY <1>1, <1>2, Pushed DEF DeliveryTypeOK, Before
<1>3. CASE Acknowledge(t) \/ ReportFailure(t) \/ Crash(t)
  BY <1>1, <1>3, EndedTry
  DEF Acknowledge, ReportFailure, Crash, DeliveryTypeOK, Points, Ended, Before
<1>4. CASE ~Push(t) /\ Call(t)
  <2>1. PICK pc \in {"summary", "send", "complete", "refuse", "ack", "nack",
                     "fail"} : Move(t, pc) \/ Called(t, pc)
    <3>1. Raised(try[t].pc) \in {"nack", "fail"}
      BY RaisedIs DEF DeliveryTypeOK, TryRecords
    <3> QED
      BY <1>4, <3>1
      DEF Call, Claim, Look, Reclaim, PutNote, ResolveAudience,
        CreateCampaign, MarkDeviceInvalid, CompleteCampaign, CompleteEvent,
        RefuseCampaign, RefuseEvent, FailEvent, CallFails, AfterFail,
        AfterPush, Before
  <2>2. pc \in Points /\ try \in [Tries -> TryRecords]
    BY <2>1 DEF Points, Owning, DeliveryTypeOK
  <2>3. try'[t].pc = pc
    BY <2>1, <2>2, CalledKeeps, MovedKeeps
  <2> QED
    BY <1>1, <2>1, <2>3 DEF Before
<1> QED
  BY <1>1, <1>2, <1>3, <1>4 DEF Work

\* A claimed event keeps a Lambda that processes it.
LEMMA OwnerStays ==
  ASSUME DeliveryTypeOK, Faults \subseteq {"error"}, OwnInv, ForgetInv,
         NEW t \in Tries, Work(t), ledger' = "PROCESSING"
  PROVE  \E u \in Tries : Owns(u)'
<1>1. Others(t) /\ (Enters(t) \/ StaysOut(t) \/ StaysIn(t) \/ Leaves(t))
  BY WorkKinds
<1>2. CASE Enters(t) \/ StaysIn(t)
  BY <1>2 DEF Enters, StaysIn, Owns, Owning
<1>3. CASE StaysOut(t)
  <2>1. PICK u \in Tries : Owns(u)
    BY <1>3 DEF StaysOut, ForgetInv
  <2>2. u # t
    BY <1>3, <2>1 DEF StaysOut, Owns, Owning
  <2> QED
    BY <1>1, <2>1, <2>2 DEF Others, Owns
<1>4. CASE Leaves(t)
  <2>1. try[t].pc = "fail" /\ try'[t].pc = "nack"
    <3>1. ~Crash(t)
      BY DEF Crash
    <3>2. try'[t].pc # "crashed"
      <4>1. CASE Call(t)
        BY <4>1, CallMoves DEF Running, Ended
      <4>2. CASE Acknowledge(t) \/ ReportFailure(t)
        BY <4>2, EndedTry
        DEF Acknowledge, ReportFailure, DeliveryTypeOK, Points, Ended
      <4> QED
        BY <3>1, <4>1, <4>2 DEF Work
    <3> QED
      BY <1>4, <3>2 DEF Leaves
  <2>2. FailEvent(t)
    BY <2>1
    DEF Work, Call, Acknowledge, ReportFailure, Crash, Claim, Look, Reclaim,
      PutNote, ResolveAudience, CreateCampaign, Push, MarkDeviceInvalid,
      CompleteCampaign, CompleteEvent, RefuseCampaign, RefuseEvent, CallFails
  <2> QED
    BY <2>2 DEF FailEvent
<1> QED
  BY <1>1, <1>2, <1>3, <1>4

\* An event that fails has its message still; one that stays failed has the
\* message that was left to it.
LEMMA FailureStays ==
  ASSUME DeliveryTypeOK, Faults \subseteq {"error"}, OwnInv, TallyInv,
         ForgetInv, NEW t \in Tries, Work(t), ledger' = "FAILED"
  PROVE  \/ \E m \in Messages \ Malformed : Pending(m)'
         \/ \E u \in Tries : Refused(u)'
<1>1. Others(t) /\ (Enters(t) \/ StaysOut(t) \/ StaysIn(t) \/ Leaves(t))
  BY WorkKinds
<1>2. \A u \in Tries \ {t} : campaign'[u] = campaign[u]
  BY DEF Work, Call, Claim, Look, Reclaim, PutNote, ResolveAudience,
    CreateCampaign, Push, MarkDeviceInvalid, CompleteCampaign, CompleteEvent,
    RefuseCampaign, RefuseEvent, FailEvent, CallFails, Acknowledge,
    ReportFailure, Crash, DeliveryTypeOK
<1>3. Carried(t)
  BY DEF ForgetInv
<1>4. CASE FailEvent(t)
  <2>1. t[1] \in Messages \ Malformed /\ msg[t[1]].at = "flight" /\ Latest(t)
    BY <1>3, <1>4, TryParts DEF FailEvent, Carried, Running, Ended
  <2>2. msg' = msg /\ try'[t].pc = "nack"
    BY <1>4, CalledOnce
    DEF FailEvent, AfterFail, DeliveryTypeOK, Points
  <2>3. ASSUME NEW u \in Tries, u # t, u[1] = t[1] PROVE try[u].pc # "ack"
    BY <2>1, <2>3, TryParts DEF ForgetInv, Carried, Running, Latest, Ended
  <2>4. Pending(t[1])'
    BY <1>1, <2>1, <2>2, <2>3 DEF Pending, Others
  <2> QED
    BY <2>1, <2>4
<1>5. CASE RefuseEvent(t)
  <2>1. campaign[t].total > MaxDevices /\ campaign' = campaign
    BY <1>5 DEF RefuseEvent, TallyInv, Counted
  <2>2. try'[t].pc = "ack"
    BY <1>5, CalledOnce DEF RefuseEvent, DeliveryTypeOK, Points
  <2> QED
    BY <2>1, <2>2 DEF Refused, Before
<1>6. CASE ~FailEvent(t) /\ ~RefuseEvent(t)
  <2>1. ledger = "FAILED"
    BY <1>6
    DEF Work, Call, Claim, Look, Reclaim, PutNote, ResolveAudience,
      CreateCampaign, Push, MarkDeviceInvalid, CompleteCampaign,
      CompleteEvent, RefuseCampaign, CallFails, Acknowledge, ReportFailure,
      Crash
  <2>2. CASE \E u \in Tries : Refused(u)
    <3>1. PICK u \in Tries : Refused(u)
      BY <2>2
    <3>2. CASE u = t
      BY <3>1, <3>2, SizeStays DEF Refused
    <3>3. CASE u # t
      BY <1>1, <1>2, <3>1, <3>3 DEF Refused, Others
    <3> QED
      BY <3>2, <3>3
  <2>3. CASE \E m \in Messages \ Malformed : Pending(m)
    <3>1. PICK m \in Messages \ Malformed : Pending(m)
      BY <2>3
    <3>2. CASE t[1] # m
      <4>1. msg'[m] = msg[m]
        <5>1. CASE Acknowledge(t) \/ ReportFailure(t)
          BY <3>2, <5>1
          DEF Acknowledge, ReportFailure, Requeued, DeliveryTypeOK
        <5>2. CASE Call(t)
          BY <5>2, CallMoves
        <5> QED
          BY <5>1, <5>2 DEF Work, Crash
      <4> QED
        BY <1>1, <3>1, <3>2, <4>1 DEF Pending, Others
    <3>3. CASE t[1] = m
      <4>1. try[t].pc # "ack" /\ msg[m].at # "deleted"
        BY <3>1, <3>3 DEF Pending
      <4>2. CASE ReportFailure(t)
        <5>1. try'[t].pc = "nacked"
          BY <4>2, EndedTry DEF ReportFailure, DeliveryTypeOK, Points, Ended
        <5>2. msg'[m].at # "deleted"
          BY <3>1, <3>3, <4>1, <4>2
          DEF ReportFailure, Requeued, DeliveryTypeOK
        <5> QED
          BY <1>1, <3>1, <5>1, <5>2 DEF Pending, Others
      <4>3. CASE Call(t)
        <5>1. msg' = msg
          BY <4>3, CallMoves
        <5>2. try[t].pc \notin Owning
          BY <2>1 DEF OwnInv, Owns
        <5>3. try'[t].pc # "ack"
          <6>1. CASE Look(t) \/ Claim(t)
            <7>1. Move(t, "reclaim") \/ Move(t, "look")
              BY <2>1, <6>1 DEF Look, Claim, Unclaimed
            <7> QED
              BY <7>1, Moved DEF DeliveryTypeOK, Points
          <6>2. CASE CallFails(t)
            <7>1. try[t].pc \in {"claim", "look", "reclaim"}
              BY <5>2, <6>2 DEF CallFails, Calls
            <7>2. Move(t, "nack")
              BY <6>2, <7>1, RaisedIs DEF CallFails, Points
            <7> QED
              BY <7>2, Moved DEF DeliveryTypeOK, Points
          <6>3. ~Reclaim(t)
            BY <2>1 DEF Reclaim, FailedCondition
          <6>4. Look(t) \/ Claim(t) \/ CallFails(t)
            BY <1>6, <4>3, <5>2, <6>3
            DEF Call, PutNote, ResolveAudience, CreateCampaign, Push,
              MarkDeviceInvalid, CompleteCampaign, CompleteEvent,
              RefuseCampaign, Owning
          <6> QED
            BY <6>1, <6>2, <6>4
        <5> QED
          BY <1>1, <3>1, <5>1, <5>3 DEF Pending, Others
      <4> QED
        BY <4>1, <4>2, <4>3 DEF Work, Acknowledge, Crash
    <3> QED
      BY <3>2, <3>3
  <2> QED
    BY <2>1, <2>2, <2>3 DEF ForgetInv
<1> QED
  BY <1>4, <1>5, <1>6

LEMMA ForgetByOthers ==
  ASSUME DeliveryTypeOK, Faults \subseteq {"error"}, Fresh, ForgetInv,
         [Next]_deliveryVars, ~\E t \in Tries : Work(t)
  PROVE  ForgetInv'
<1>1. /\ ledger' = ledger
      /\ \A t \in Tries :
           \/ try'[t] = try[t]
           \/ try[t].pc = "idle" /\ try'[t].pc \in {"claim", "ack"}
  BY OtherKinds
<1>2. \A t \in Tries : Carried(t)'
  BY CarriedByOthers DEF ForgetInv
<1>3. campaign' = campaign
  BY DEF Next, Queue, Receive, DeadLetter, VisibleAgain, Registry,
    RegisterDevice, DeleteDevice, TokenDies, Inbox, ReadNote, MarkRead,
    ReadToArchive, Archive, deliveryVars
<1>4. \A t \in Tries : Owns(t) => Owns(t)'
  BY <1>1 DEF Owns, Owning
<1>5. \A t \in Tries : Refused(t) => Refused(t)'
  BY <1>1, <1>3 DEF Refused, Before
<1>6. ASSUME NEW m \in Messages \ Malformed, Pending(m)
      PROVE  Pending(m)'
  <2>1. CASE \E n \in Messages : Receive(n)
    <3>1. PICK n \in Messages : Receive(n)
      BY <2>1
    <3>2. msg'[m].at # "deleted"
      BY <1>6, <3>1 DEF Receive, Pending, DeliveryTypeOK
    <3> DEFINE r == <<n, msg[n].receives + 1>>
    <3>3. msg[n].receives \in 0..MaxReceives /\ MaxReceives \in Nat
      BY DeliveryAssumption DEF DeliveryTypeOK
    <3>4. r \in Tries
      BY <3>1, <3>3 DEF Receive, ReceivesLeft, Tries
    <3>5. /\ try'[r].pc = IF n \in Malformed THEN "ack" ELSE "claim"
          /\ \A u \in Tries \ {r} : try'[u] = try[u]
      BY <3>1, <3>4, Moved DEF Receive, DeliveryTypeOK, Points
    <3> QED
      BY <1>6, <3>2, <3>5 DEF Pending
  <2>2. CASE ~\E n \in Messages : Receive(n)
    <3>1. try' = try /\ msg'[m].at # "deleted"
      BY <1>6, <2>2, ZenonT(60)
      DEF Next, Queue, DeadLetter, VisibleAgain, Registry, RegisterDevice,
        DeleteDevice, TokenDies, Inbox, ReadNote, MarkRead, ReadToArchive,
        Archive, queueVars, deliveryVars, Pending, DeliveryTypeOK
    <3> QED
      BY <1>6, <3>1 DEF Pending
  <2> QED
    BY <2>1, <2>2
<1> QED
  BY <1>1, <1>2, <1>4, <1>5, <1>6 DEF ForgetInv

LEMMA ForgetStep ==
  ASSUME DeliveryTypeOK, Faults \subseteq {"error"}, OwnInv, Fresh, TallyInv,
         ForgetInv, [Next]_deliveryVars
  PROVE  ForgetInv'
<1>1. CASE \E t \in Tries : Work(t)
  BY <1>1, CarriedByWork, OwnerStays, FailureStays DEF ForgetInv
<1> QED
  BY <1>1, ForgetByOthers

\* With calls to DynamoDB that fail without effect, in any number and at any
\* point but the last, neither the event nor its notification is lost: a
\* claimed event has a Lambda, a failed one a message, and a completed one
\* its notification and its campaign.  With any of the other faults as well a
\* claimed or a failed event can be lost.
THEOREM NoneLost ==
  ASSUME Faults \subseteq {"error"}
  PROVE  DeliverySpec => []NothingLost
<1>1. "reply" \notin Faults
  OBVIOUS
<1>2. Init => TallyInv /\ ForgetInv
  BY DEF Init, At, TallyInv, Counted, IsTrue, Blank, Before, Sending, Final,
    ForgetInv, Carried, Running
<1>3. /\ DeliveryTypeOK /\ OwnInv /\ Fresh /\ TallyInv /\ ForgetInv
      /\ [Next]_deliveryVars
      => TallyInv' /\ ForgetInv'
  BY <1>1, TallyStep, ForgetStep
<1>4. ForgetInv /\ CompletedIsDelivered => NothingLost
  BY DEF ForgetInv, Pending, Refused, NothingLost, NotForgotten
<1>5. DeliverySpec => [](OwnInv /\ Fresh)
  BY <1>1, OwnInvariant
<1> QED
  BY <1>2, <1>3, <1>4, <1>5, CompletedTruly, DeliveryTyped, PTL
  DEF DeliverySpec
=============================================================================
