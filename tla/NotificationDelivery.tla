------------------------ MODULE NotificationDelivery ------------------------
(***************************************************************************)
(* The delivery of one notification event: the SQS messages that carry it, *)
(* the worker that processes them, its idempotency record, the campaigns   *)
(* it makes, the recipient's devices and the notification in his inbox.    *)
(*                                                                         *)
(* Messages are the copies of the event in the queue.  They have the same  *)
(* dedupe key, so they share the record; events with other keys share      *)
(* nothing but the devices.  A try is one receive of one message by one    *)
(* Lambda, from the claim of the event to the acknowledgement.  The event  *)
(* is a SELF event of a ticket, the kind that also has an inbox item.      *)
(***************************************************************************)
EXTENDS Naturals, FiniteSets

CONSTANTS
  Messages,     \* the copies of the event
  Malformed,    \* the messages that fail the validation of the event
  MaxReceives,  \* maxReceiveCount of the queue, 3
  Devices,      \* the devices of the recipient
  MaxDevices,   \* NOTIFICATION_MAX_DEVICES_PER_EVENT
  Apps,         \* those whose app is used meanwhile
  MaxToken,     \* bound: push tokens a device has in its life
  Sessions,     \* the sessions in which the recipient uses his inbox
  Faults

(* "crash": a Lambda dies or times out.  "early": a message becomes        *)
(* visible again while it is being processed.  "error": a call to DynamoDB *)
(* fails; "failwrite": that of fail_notification_event does.  "reply": a   *)
(* call succeeds and its reply is lost, so that the SDK sends it again or  *)
(* gives up.  "stale": an eventually consistent read misses a write.       *)
AllFaults == {"crash", "early", "error", "failwrite", "reply", "stale"}

ASSUME DeliveryAssumption ==
  /\ Malformed \subseteq Messages
  /\ MaxReceives \in Nat \ {0}
  /\ IsFiniteSet(Devices) /\ Apps \subseteq Devices
  /\ MaxDevices \in Nat \ {0}
  /\ MaxToken \in Nat \ {0}
  /\ Faults \subseteq AllFaults

Tries == Messages \X (1..MaxReceives)

VARIABLES
  msg,       \* the queue: where each message is and how often it was received
  ledger,    \* the item of the event in notification-event-inbox
  try,       \* the Lambdas
  campaign,  \* the campaign each try made; its id is the try
  device,    \* the items of the device registry
  dead,      \* push tokens the provider rejects
  reached,   \* history: the devices each try delivered the push to
  note,      \* the status of the inbox item of the event, or "none"
  session    \* what each session of the recipient is about to write

queueVars    == <<msg, try>>
registryVars == <<device, dead>>
inboxVars    == <<note, session>>
deliveryVars == <<msg, ledger, try, campaign, device, dead, reached, note,
                  session>>

\* Where a try is.  From "note" to "refuse" it has claimed the event.
Owning == {"note", "audience", "create", "send", "invalidate", "summary",
           "complete", "fail", "oversize", "refuse"}
Ended  == {"acked", "nacked", "crashed"}
Points == {"idle", "claim", "look", "reclaim", "ack", "nack"} \cup Owning
            \cup Ended

\* The points at which a try calls DynamoDB.
Calls == {"claim", "look", "reclaim"} \cup (Owning \ {"send"})

Addresses == Devices \X (1..MaxToken)
TryRecords == [pc : Points, todo : SUBSET Addresses, bad : SUBSET Devices,
               sent : Nat, failed : Nat]
Items == [status : {"ACTIVE", "INACTIVE", "INVALID"}, enabled : BOOLEAN,
          token : 1..MaxToken]
Final == {"COMPLETED", "PARTIAL_FAILED", "FAILED", "NO_DEVICES"}
Campaigns == [status : Final \cup {"none", "PROCESSING"}, total : Nat,
              sent : Nat, failed : Nat]

\* The type invariant; no message is received more than MaxReceives times.
DeliveryTypeOK ==
  /\ msg \in [Messages -> [at : {"queued", "flight", "deleted", "dlq"},
                           receives : 0..MaxReceives]]
  /\ ledger \in {"none", "PROCESSING", "COMPLETED", "FAILED"}
  /\ try \in [Tries -> TryRecords]
  /\ campaign \in [Tries -> Campaigns]
  /\ device \in [Devices -> Items]
  /\ dead \subseteq Addresses
  /\ reached \in [Tries -> SUBSET Devices]
  /\ note \in {"none", "UNREAD", "READ", "ARCHIVED"}
  /\ session \in [Sessions -> {"idle", "read", "archive"}]

At(pc) == [pc |-> pc, todo |-> {}, bad |-> {}, sent |-> 0, failed |-> 0]

Init ==
  /\ msg = [m \in Messages |-> [at |-> "queued", receives |-> 0]]
  /\ ledger = "none"
  /\ try = [t \in Tries |-> At("idle")]
  /\ campaign = [t \in Tries |-> [status |-> "none", total |-> 0,
                                  sent |-> 0, failed |-> 0]]
  /\ \E on \in SUBSET Devices :
       device = [d \in Devices |->
         [status |-> IF d \in on THEN "ACTIVE" ELSE "INACTIVE",
          enabled |-> d \in on, token |-> 1]]
  /\ dead = {}
  /\ reached = [t \in Tries |-> {}]
  /\ note = "none"
  /\ session = [s \in Sessions |-> "idle"]

-----------------------------------------------------------------------------
(* The queue.                                                              *)

ReceivesLeft(m) == msg[m].receives < MaxReceives

\* Only the last receive's handle is sure to delete the message.
Latest(t) == msg[t[1]].receives = t[2]

Move(t, pc) == try' = [try EXCEPT ![t] = [@ EXCEPT !.pc = pc]]

\* The Lambda ends and with it what it remembered.
End(t, pc) == try' = [try EXCEPT ![t] = At(pc)]

\* A malformed message is acknowledged before anything is written.
Receive(m) ==
  LET n == msg[m].receives + 1 IN
  /\ msg[m].at = "queued" /\ ReceivesLeft(m)
  /\ msg' = [msg EXCEPT ![m] = [at |-> "flight", receives |-> n]]
  /\ Move(<<m, n>>, IF m \in Malformed THEN "ack" ELSE "claim")
  /\ UNCHANGED <<ledger, campaign, reached, registryVars, inboxVars>>

DeadLetter(m) ==
  /\ msg[m].at = "queued" /\ ~ReceivesLeft(m)
  /\ msg' = [msg EXCEPT ![m] = [@ EXCEPT !.at = "dlq"]]
  /\ UNCHANGED <<try, ledger, campaign, reached, registryVars, inboxVars>>

\* VisibilityTimeout is the worker's timeout and begins before it.
VisibleAgain(m) ==
  /\ "early" \in Faults
  /\ msg[m].at = "flight"
  /\ msg' = [msg EXCEPT ![m] = [@ EXCEPT !.at = "queued"]]
  /\ UNCHANGED <<try, ledger, campaign, reached, registryVars, inboxVars>>

Requeued(t) ==
  msg' = IF Latest(t) /\ msg[t[1]].at = "flight"
         THEN [msg EXCEPT ![t[1]] = [@ EXCEPT !.at = "queued"]] ELSE msg

\* The message is not among the batchItemFailures.
Acknowledge(t) ==
  /\ try[t].pc = "ack"
  /\ End(t, "acked")
  /\ \/ msg[t[1]].at # "dlq"
        /\ msg' = [msg EXCEPT ![t[1]] = [@ EXCEPT !.at = "deleted"]]
     \/ (~Latest(t) \/ msg[t[1]].at = "dlq") /\ msg' = msg
  /\ UNCHANGED <<ledger, campaign, reached, registryVars, inboxVars>>

\* The message is among the batchItemFailures.
ReportFailure(t) ==
  /\ try[t].pc = "nack"
  /\ End(t, "nacked")
  /\ Requeued(t)
  /\ UNCHANGED <<ledger, campaign, reached, registryVars, inboxVars>>

\* The Lambda dies, in this record or in a later one of the same batch.
Crash(t) ==
  /\ "crash" \in Faults
  /\ try[t].pc \notin {"idle", "nack"} \cup Ended
  /\ End(t, "crashed")
  /\ Requeued(t)
  /\ UNCHANGED <<ledger, campaign, reached, registryVars, inboxVars>>

-----------------------------------------------------------------------------
(* The worker.                                                             *)

\* Mutant: every error is taken for a permanent one.
AckAfterFail == "ack"

\* handler asks SQS for another try.
AfterFail == "nack"

\* claim_notification_event is outside of process_notification_event's try.
Raised(pc) == CASE pc \in {"claim", "look", "reclaim"} -> "nack"
                [] pc = "fail" -> AfterFail
                [] OTHER       -> "fail"

\* A call that took effect: its reply may be lost, and then the SDK sends it
\* again (the try stays where it is) or raises.
Outcomes(pc, next) ==
  {next} \cup IF "reply" \in Faults THEN {pc, Raised(pc)} ELSE {}

Called(t, next) == \E pc \in Outcomes(try[t].pc, next) : Move(t, pc)

\* A call without effect.
CallFails(t) ==
  /\ try[t].pc \in Calls
  /\ IF try[t].pc = "fail" THEN "failwrite" \in Faults ELSE "error" \in Faults
  /\ Move(t, Raised(try[t].pc))
  /\ UNCHANGED <<msg, ledger, campaign, reached, registryVars, inboxVars>>

AfterClaim == "note"

\* Mutant: put_item without a condition.
AlwaysUnclaimed == TRUE

Unclaimed == ledger = "none"

\* put_item, if there is no item yet.
Claim(t) ==
  /\ try[t].pc = "claim"
  /\ \/ Unclaimed /\ ledger' = "PROCESSING" /\ Called(t, AfterClaim)
     \/ ~Unclaimed /\ Move(t, "look") /\ UNCHANGED ledger
  /\ UNCHANGED <<msg, campaign, reached, registryVars, inboxVars>>

\* get_item: anything but FAILED is a duplicate.
Look(t) ==
  /\ try[t].pc = "look"
  /\ \/ ledger = "FAILED" /\ Move(t, "reclaim")
     \/ (ledger # "FAILED" \/ "stale" \in Faults) /\ Move(t, "ack")
  /\ UNCHANGED <<msg, ledger, campaign, reached, registryVars, inboxVars>>

FailedCondition == ledger = "FAILED"

\* update_item, if the item is FAILED still.
Reclaim(t) ==
  /\ try[t].pc = "reclaim"
  /\ \/ FailedCondition /\ ledger' = "PROCESSING" /\ Called(t, AfterClaim)
     \/ ~FailedCondition /\ Move(t, "ack") /\ UNCHANGED ledger
  /\ UNCHANGED <<msg, campaign, reached, registryVars, inboxVars>>

\* Mutant: put_item without a condition.
OverwriteNote == "UNREAD"

\* put_item, if there is no item yet.
NewNote == IF note = "none" THEN "UNREAD" ELSE note

PutNote(t) ==
  /\ try[t].pc = "note"
  /\ note' = NewNote
  /\ Called(t, "audience")
  /\ UNCHANGED <<msg, ledger, campaign, reached, registryVars, session>>

Listed == {d \in Devices : device[d].status = "ACTIVE" /\ device[d].enabled}

\* The query stops at one device more than are allowed.
ResolveAudience(t) ==
  /\ try[t].pc = "audience"
  /\ \E found \in SUBSET Listed :
       /\ \/ found = Listed /\ Cardinality(found) <= MaxDevices
          \/ Cardinality(found) = MaxDevices + 1
       /\ try' = [try EXCEPT ![t] =
            [@ EXCEPT !.pc = "create",
                      !.todo = {<<d, device[d].token>> : d \in found}]]
  /\ UNCHANGED <<msg, ledger, campaign, reached, registryVars, inboxVars>>

\* Mutant: the summary of the campaign comes last.
CompleteAfterLast(todo) == IF todo = {} THEN "complete" ELSE "send"

AfterPush(todo) == IF todo = {} THEN "summary" ELSE "send"

TooMany(total) == total > MaxDevices

CreateCampaign(t) ==
  LET total == Cardinality(try[t].todo) IN
  /\ try[t].pc = "create"
  /\ campaign' = [campaign EXCEPT ![t] = [@ EXCEPT !.status = "PROCESSING",
                                                   !.total = total]]
  /\ Called(t, IF TooMany(total) THEN "oversize"
                                 ELSE AfterPush(try[t].todo))
  /\ UNCHANGED <<msg, ledger, reached, registryVars, inboxVars>>

\* What a try remembers after one more device.
Tried(t, a, pc, bad, sent) ==
  try' = [try EXCEPT ![t] =
    [pc |-> pc, todo |-> try[t].todo \ {a}, bad |-> bad,
     sent |-> try[t].sent + (IF sent THEN 1 ELSE 0),
     failed |-> try[t].failed + (IF sent THEN 0 ELSE 1)]]

\* The provider's status message says that the token is no good.
InvalidDevice(a) == a \in dead

\* send_messages goes to the token read with the audience.  An error of the
\* client counts as a failed delivery, although the push may be on its way.
Push(t) ==
  /\ try[t].pc = "send"
  /\ \E a \in try[t].todo :
       LET next == AfterPush(try[t].todo \ {a})
           arrives == reached' = [reached EXCEPT ![t] = @ \cup {a[1]}] IN
       \/ ~InvalidDevice(a) /\ arrives /\ Tried(t, a, next, {}, TRUE)
       \/ "reply" \in Faults /\ ~InvalidDevice(a) /\ arrives
            /\ Tried(t, a, next, {}, FALSE)
       \/ UNCHANGED reached /\ Tried(t, a, next, {}, FALSE)
       \/ InvalidDevice(a) /\ UNCHANGED reached
            /\ Tried(t, a, "invalidate", {a[1]}, FALSE)
  /\ UNCHANGED <<msg, ledger, campaign, registryVars, inboxVars>>

\* update_item without a condition, whatever token the device has by now.
MarkDeviceInvalid(t) ==
  /\ try[t].pc = "invalidate"
  /\ device' = [d \in Devices |->
       IF d \in try[t].bad THEN [device[d] EXCEPT !.status = "INVALID"]
                           ELSE device[d]]
  /\ Called(t, AfterPush(try[t].todo))
  /\ UNCHANGED <<msg, ledger, campaign, reached, dead, inboxVars>>

\* Mutant: one delivery completes the campaign.
AnySentCompletes(total, sent) ==
  IF total = 0 THEN "NO_DEVICES"
  ELSE IF sent = 0 THEN "FAILED" ELSE "COMPLETED"

CampaignStatus(total, sent) ==
  CASE total = 0                  -> "NO_DEVICES"
    [] total = sent /\ total # 0  -> "COMPLETED"
    [] sent = 0 /\ total # 0      -> "FAILED"
    [] OTHER                      -> "PARTIAL_FAILED"

CompleteCampaign(t) ==
  /\ try[t].pc = "summary"
  /\ campaign' = [campaign EXCEPT ![t] =
       [@ EXCEPT !.status = CampaignStatus(campaign[t].total,
                                          try[t].sent),
                 !.sent = try[t].sent, !.failed = try[t].failed]]
  /\ Called(t, "complete")
  /\ UNCHANGED <<msg, ledger, reached, registryVars, inboxVars>>

CompleteEvent(t) ==
  /\ try[t].pc = "complete"
  /\ ledger' = "COMPLETED"
  /\ Called(t, "ack")
  /\ UNCHANGED <<msg, campaign, reached, registryVars, inboxVars>>

\* More than MaxDevices: nothing is sent, and SQS is not asked to try again.
RefuseCampaign(t) ==
  /\ try[t].pc = "oversize"
  /\ campaign' = [campaign EXCEPT ![t] =
       [@ EXCEPT !.status = CampaignStatus(campaign[t].total, 0),
                 !.failed = campaign[t].total]]
  /\ Called(t, "refuse")
  /\ UNCHANGED <<msg, ledger, reached, registryVars, inboxVars>>

RefuseEvent(t) ==
  /\ try[t].pc = "refuse"
  /\ ledger' = "FAILED"
  /\ Called(t, "ack")
  /\ UNCHANGED <<msg, campaign, reached, registryVars, inboxVars>>

\* The except clause: an unconditional write.
FailEvent(t) ==
  /\ try[t].pc = "fail"
  /\ ledger' = "FAILED"
  /\ Called(t, AfterFail)
  /\ UNCHANGED <<msg, campaign, reached, registryVars, inboxVars>>

-----------------------------------------------------------------------------
(* The recipient: his devices and his inbox.                               *)

\* put_item: the app registers again, with the token it has or a new one.
RegisterDevice(d) ==
  \E on \in BOOLEAN, token \in device[d].token..MaxToken :
    /\ token <= device[d].token + 1
    /\ device' = [device EXCEPT ![d] =
         [status |-> IF on THEN "ACTIVE" ELSE "INACTIVE", enabled |-> on,
          token |-> token]]
    /\ dead' = IF token = device[d].token THEN dead
                                          ELSE dead \cup {<<d, device[d].token>>}
    /\ UNCHANGED <<queueVars, ledger, campaign, reached, inboxVars>>

DeleteDevice(d) ==
  /\ device' = [device EXCEPT ![d] = [@ EXCEPT !.status = "INACTIVE",
                                               !.enabled = FALSE]]
  /\ UNCHANGED <<queueVars, ledger, campaign, reached, dead, inboxVars>>

\* The app is uninstalled: the provider rejects its token from now on.
TokenDies(d) ==
  /\ dead' = dead \cup {<<d, device[d].token>>}
  /\ UNCHANGED <<queueVars, ledger, campaign, reached, device, inboxVars>>

\* get_item; only an UNREAD notification is going to be marked.
ReadNote(s) ==
  /\ session[s] = "idle" /\ note = "UNREAD"
  /\ session' = [session EXCEPT ![s] = "read"]
  /\ UNCHANGED <<queueVars, ledger, campaign, reached, registryVars, note>>

\* update_item, if the item is UNREAD still.
MarkedRead == IF note = "UNREAD" THEN "READ" ELSE note

MarkRead(s) ==
  /\ session[s] = "read"
  /\ note' = MarkedRead
  /\ session' = [session EXCEPT ![s] = "idle"]
  /\ UNCHANGED <<queueVars, ledger, campaign, reached, registryVars>>

ReadToArchive(s) ==
  /\ session[s] = "idle" /\ note \in {"UNREAD", "READ"}
  /\ session' = [session EXCEPT ![s] = "archive"]
  /\ UNCHANGED <<queueVars, ledger, campaign, reached, registryVars, note>>

Archive(s) ==
  /\ session[s] = "archive"
  /\ note' = "ARCHIVED"
  /\ session' = [session EXCEPT ![s] = "idle"]
  /\ UNCHANGED <<queueVars, ledger, campaign, reached, registryVars>>

-----------------------------------------------------------------------------
Queue(m) == Receive(m) \/ DeadLetter(m) \/ VisibleAgain(m)

Call(t) ==
  \/ Claim(t) \/ Look(t) \/ Reclaim(t) \/ PutNote(t) \/ ResolveAudience(t)
  \/ CreateCampaign(t) \/ Push(t) \/ MarkDeviceInvalid(t)
  \/ CompleteCampaign(t) \/ CompleteEvent(t) \/ RefuseCampaign(t)
  \/ RefuseEvent(t) \/ FailEvent(t) \/ CallFails(t)

Work(t) == Call(t) \/ Acknowledge(t) \/ ReportFailure(t) \/ Crash(t)

Registry(d) == RegisterDevice(d) \/ DeleteDevice(d) \/ TokenDies(d)

Inbox(s) == ReadNote(s) \/ MarkRead(s) \/ ReadToArchive(s) \/ Archive(s)

Next ==
  \/ \E m \in Messages : Queue(m)
  \/ \E t \in Tries : Work(t)
  \/ \E d \in Apps : Registry(d)
  \/ \E s \in Sessions : Inbox(s)

DeliverySpec == Init /\ [][Next]_deliveryVars

(* SQS offers a visible message until it is deleted or dead-lettered, and a *)
(* Lambda that runs comes to an end.  Nobody has to use the devices.       *)
DeliveryFairSpec ==
  /\ DeliverySpec
  /\ \A m \in Messages : WF_deliveryVars(Receive(m) \/ DeadLetter(m))
  /\ \A t \in Tries : WF_deliveryVars(Work(t))

-----------------------------------------------------------------------------
(* Properties.                                                             *)

Owns(t) == try[t].pc \in Owning

\* Of all the Lambdas that have a copy of the event, claimed, redelivered or
\* duplicated, one at a time processes it (claim_notification_event).
OneOwner == \A t, u \in Tries : Owns(t) /\ Owns(u) => t = u

\* A device gets the push of an event a second time only after a try that
\* had delivered it has failed and put the event up again.
RepeatsExplained ==
  \A t, u \in Tries :
    t # u /\ reached[t] \cap reached[u] # {} =>
      \E v \in {t, u} : try[v].pc \in {"nack", "nacked"}

\* The event is processed by one Lambda at a time, and again only when it had
\* to be.
DeliveredInTurn == OneOwner /\ RepeatsExplained

\* What a finished campaign says of its devices is what happened to them, for
\* those that were tried; more than MaxDevices are never tried.
CampaignsAreTrue ==
  \A t \in Tries : campaign[t].status \in Final =>
    /\ campaign[t].sent + campaign[t].failed = campaign[t].total
    /\ campaign[t].sent = Cardinality(reached[t])
    /\ campaign[t].status = "COMPLETED" <=>
         campaign[t].sent = campaign[t].total /\ campaign[t].total # 0
    /\ campaign[t].total > MaxDevices => reached[t] = {}

\* No push goes out, and COMPLETED, which ends all retries, is not written,
\* before the notification is in the recipient's inbox; and COMPLETED only
\* when some campaign tried all of its devices.
CompletedIsDelivered ==
  /\ ledger = "COMPLETED" \/ (\E t \in Tries : reached[t] # {}) => note # "none"
  /\ ledger = "COMPLETED" =>
       \E t \in Tries : campaign[t].status \in Final
                        /\ campaign[t].total <= MaxDevices

\* A failed event that was not refused for its size has a message that is
\* going to be tried again, or that is in the dead-letter queue for somebody
\* to see; and a claimed event some Lambda processes.
NotForgotten ==
  /\ ledger = "PROCESSING" => \E t \in Tries : Owns(t)
  /\ ledger = "FAILED" =>
       \/ \E m \in Messages \ Malformed : msg[m].at # "deleted"
       \/ \E t \in Tries : campaign[t].total > MaxDevices

\* No failure between two calls loses the event or its notification.
NothingLost == CompletedIsDelivered /\ NotForgotten

NoteRank == [none |-> 0, UNREAD |-> 1, READ |-> 2, ARCHIVED |-> 3]

\* Neither a retry of the event nor another session of the user takes a
\* notification back: read is not unread again, archived stays archived.
NoteNeverGoesBack == [][NoteRank[note'] >= NoteRank[note]]_note

\* The docstring of claim_notification_event: "completed events remain
\* idempotent".  Neither a late claim nor a late failure opens one again.
CompletedIsFinal == [][ledger = "COMPLETED" => ledger' = "COMPLETED"]_ledger

\* Every event is processed to its end, refused for its size, or a copy of
\* it reaches the dead-letter queue, whatever call to DynamoDB but the last
\* fails.
EventSettles ==
  <>\/ ledger = "COMPLETED"
    \/ ledger = "FAILED"
         /\ \E t \in Tries : campaign[t].status = "FAILED"
                             /\ campaign[t].total > MaxDevices
    \/ \E m \in Messages \ Malformed : msg[m].at = "dlq"
=============================================================================
