------------------------- MODULE SophiaConfirmation -------------------------
(***************************************************************************)
(* The confirmations of one ticket proposal of SOPHIA.                     *)
(*                                                                         *)
(* Every caller is one invocation of confirm_ticket for the same           *)
(* proposal_id.  It prepares a ticket of its own, so the ticket's id is    *)
(* the caller, and a ClientRequestToken of its own.  Invocations share     *)
(* the tickets table only: the receipt of the proposal and the tickets.    *)
(* Every call to DynamoDB and to EventBridge is a step, a transaction is   *)
(* applied by the table and not by its caller, and its answer may be late  *)
(* or lost.                                                                *)
(***************************************************************************)
EXTENDS Naturals

CONSTANTS
  Callers,      \* the invocations
  Contents,     \* what the fingerprint covers: content, actor, delegation
  Content,      \* the content each invocation confirms
  MaxAttempts,  \* transactions an invocation sends, 3 in the code
  NoTicket

ASSUME ConfirmationAssumption ==
  /\ Content \in [Callers -> Contents]
  /\ MaxAttempts \in Nat \ {0}
  /\ NoTicket \notin Callers

VARIABLES
  receipt,   \* the receipt item, or NoReceipt
  tickets,   \* the tickets of this proposal in the table
  inflight,  \* callers with a transaction the table has not decided yet
  call,      \* the invocations
  events     \* how many ticket.created events the bus took for each ticket

confirmVars == <<receipt, tickets, inflight, call, events>>

EventStatuses == {"UNCONFIRMED", "PUBLISHED", "FAILED", "UNKNOWN"}

Receipts == [ticket : Callers, fingerprint : Contents, event : EventStatuses]
NoReceipt == [ticket |-> NoTicket]

\* Why an invocation looks for a receipt: at the start, or after an error of
\* its transaction that may be transient, final or a failed condition.
Reasons == {"start", "transient", "fatal", "condition"}

\* created and recovered are answers with a ticket.  The 409s are mismatch,
\* gone and conflict, busy is the 503; dead is no answer at all.
Answers == {"none", "created", "recovered", "mismatch", "gone", "conflict",
            "busy", "failed", "dead"}

Calls == [pc : {"receipt", "ticket", "send", "sent", "publish", "record",
                "done"},
          why : Reasons, attempt : 0..MaxAttempts,
          ticket : Callers \cup {NoTicket}, event : EventStatuses,
          answer : Answers]

\* The type invariant; no invocation sends more than MaxAttempts times.
ConfirmTypeOK ==
  /\ receipt \in Receipts \cup {NoReceipt}
  /\ tickets \subseteq Callers
  /\ inflight \subseteq Callers
  /\ call \in [Callers -> Calls]
  /\ events \in [Callers -> Nat]

Init ==
  /\ receipt = NoReceipt
  /\ tickets = {}
  /\ inflight = {}
  /\ call = [c \in Callers |->
       [pc |-> "receipt", why |-> "start", attempt |-> 0, ticket |-> NoTicket,
        event |-> "UNCONFIRMED", answer |-> "none"]]
  /\ events = [c \in Callers |-> 0]

-----------------------------------------------------------------------------
(* One invocation.                                                         *)

Become(c, pc) == call' = [call EXCEPT ![c] = [@ EXCEPT !.pc = pc]]

Respond(c, answer, ticket) ==
  call' = [call EXCEPT ![c] =
             [@ EXCEPT !.pc = "done", !.answer = answer, !.ticket = ticket]]

\* attempt == 2 is the last one.
AttemptsLeft(c) == call[c].attempt < MaxAttempts

\* No receipt: go on, or give up.
WithoutReceipt(c) ==
  CASE call[c].why = "fatal"     -> Respond(c, "failed", NoTicket)
    [] call[c].why = "condition" -> Respond(c, "conflict", NoTicket)
    [] OTHER -> IF AttemptsLeft(c) THEN Become(c, "send")
                                   ELSE Respond(c, "busy", NoTicket)

\* Mutant: the read of the receipt is eventually consistent.
MaySeeNoReceipt == TRUE

\* ConsistentRead: no receipt is seen only when there is none.
SeesNoReceipt == receipt = NoReceipt

\* Mutant: the fingerprint is not compared.
AnyContent(c) == TRUE

SameContent(c) == receipt.fingerprint = Content[c]

\* _recover: the receipt first ...
ReadReceipt(c) ==
  /\ call[c].pc = "receipt"
  /\ \/ SeesNoReceipt /\ WithoutReceipt(c)
     \/ /\ receipt # NoReceipt
        /\ IF SameContent(c)
           THEN call' = [call EXCEPT ![c] =
                  [@ EXCEPT !.pc = "ticket", !.ticket = receipt.ticket]]
           ELSE Respond(c, "mismatch", NoTicket)
  /\ UNCHANGED <<receipt, tickets, inflight, events>>

\* ... then the ticket it names, which may have been deleted.
ReadTicket(c) ==
  /\ call[c].pc = "ticket"
  /\ IF call[c].ticket \in tickets THEN Respond(c, "recovered", call[c].ticket)
                                   ELSE Respond(c, "gone", NoTicket)
  /\ UNCHANGED <<receipt, tickets, inflight, events>>

\* transact_write_items, with one ClientRequestToken for every attempt.
Send(c) ==
  /\ call[c].pc = "send"
  /\ call' = [call EXCEPT ![c] =
                [@ EXCEPT !.pc = "sent", !.attempt = call[c].attempt + 1]]
  /\ inflight' = inflight \cup {c}
  /\ UNCHANGED <<receipt, tickets, events>>

\* The except clause: look for a receipt, whatever the error.
Recover(c, why) ==
  call' = [call EXCEPT ![c] = [@ EXCEPT !.pc = "receipt", !.why = why]]

\* The answer: the transaction with this token is applied, by whichever
\* attempt ...
Confirmed(c) ==
  /\ call[c].pc = "sent" /\ receipt.ticket = c
  /\ Become(c, "publish")
  /\ UNCHANGED <<receipt, tickets, inflight, events>>

\* ... or cancelled, because a condition failed ...
Cancelled(c) ==
  /\ call[c].pc = "sent" /\ receipt # NoReceipt /\ receipt.ticket # c
  /\ Recover(c, "condition")
  /\ inflight' = inflight \ {c}
  /\ UNCHANGED <<receipt, tickets, events>>

\* ... or refused without being applied ...
Refused(c) ==
  /\ call[c].pc = "sent" /\ c \in inflight
  /\ \E why \in {"transient", "fatal"} : Recover(c, why)
  /\ inflight' = inflight \ {c}
  /\ UNCHANGED <<receipt, tickets, events>>

\* ... or it does not come, and the table may still apply the transaction.
ReplyLost(c) ==
  /\ call[c].pc = "sent"
  /\ Recover(c, "transient")
  /\ UNCHANGED <<receipt, tickets, inflight, events>>

\* Mutant: an exception of put_events is a failure like any other.
TimeoutIsFailure(event, taken) ==
  IF event = "FAILED" THEN taken \in 0..1 ELSE event = "PUBLISHED" /\ taken = 1

\* The bus took the event, refused it, or one of the two and the caller does
\* not know which.
Outcome(event, taken) ==
  CASE event = "PUBLISHED" -> taken = 1
    [] event = "FAILED"    -> taken = 0
    [] OTHER               -> TRUE

\* _publish_created, by a creator only, and only once.
Publish(c) ==
  /\ call[c].pc = "publish"
  /\ \E event \in {"PUBLISHED", "FAILED", "UNKNOWN"}, taken \in 0..1 :
       /\ Outcome(event, taken)
       /\ call' = [call EXCEPT ![c] =
                     [@ EXCEPT !.pc = "record", !.event = event]]
       /\ events' = [events EXCEPT ![c] = @ + taken]
  /\ UNCHANGED <<receipt, tickets, inflight>>

\* The receipt's event_status, best effort.
Record(c) ==
  /\ call[c].pc = "record"
  /\ \/ /\ receipt # NoReceipt
        /\ receipt' = [receipt EXCEPT !.event = call[c].event]
     \/ UNCHANGED receipt
  /\ Respond(c, "created", c)
  /\ UNCHANGED <<tickets, inflight, events>>

\* The Lambda dies or times out, or a read fails; its transaction goes on.
Dies(c) ==
  /\ call[c].pc # "done"
  /\ Respond(c, "dead", NoTicket)
  /\ UNCHANGED <<receipt, tickets, inflight, events>>

-----------------------------------------------------------------------------
(* The table.                                                              *)

\* Mutant: the receipt's Put has no ConditionExpression.
NoCondition == TRUE

\* attribute_not_exists on the receipt's key; nobody else has the ticket's.
ReceiptIsNew == receipt = NoReceipt

\* Mutant: two writes instead of a transaction, of which the second is lost.
WriteReceiptOnly(c) == tickets

\* The second Put of the transaction.
WithTicket(c) == tickets \cup {c}

\* DynamoDB applies a transaction, both Puts or none.
Apply(c) ==
  /\ c \in inflight /\ ReceiptIsNew
  /\ receipt' = [ticket |-> c, fingerprint |-> Content[c],
                 event |-> "UNCONFIRMED"]
  /\ tickets' = WithTicket(c)
  /\ inflight' = inflight \ {c}
  /\ UNCHANGED <<call, events>>

\* DELETE and the deletion of the tenant's tickets leave the receipt alone.
DeleteTicket(t) ==
  /\ t \in tickets
  /\ tickets' = tickets \ {t}
  /\ UNCHANGED <<receipt, inflight, call, events>>

-----------------------------------------------------------------------------
Advance(c) ==
  \/ ReadReceipt(c) \/ ReadTicket(c) \/ Send(c)
  \/ Confirmed(c) \/ Cancelled(c) \/ Refused(c) \/ ReplyLost(c)
  \/ Publish(c) \/ Record(c) \/ Dies(c)

Next == \E c \in Callers : Advance(c) \/ Apply(c) \/ DeleteTicket(c)

ConfirmSpec == Init /\ [][Next]_confirmVars

-----------------------------------------------------------------------------
Answered(c) == call[c].answer \in {"created", "recovered"}

\* Everybody who gets a ticket gets the same one, confirmed the content it
\* was made of, and at most one of them is told to have created it.
AnswersAgree ==
  \A c, d \in Callers :
    Answered(c) /\ Answered(d) =>
      /\ call[c].ticket = call[d].ticket
      /\ Content[c] = Content[call[d].ticket]
      /\ call[c].answer = "created" /\ call[d].answer = "created" => c = d

\* Of all invocations, repeated, concurrent and dying, at most one event is
\* taken by the bus, and only for the ticket of the receipt.
AnnouncedOnce ==
  \A c \in Callers :
    /\ events[c] <= 1
    /\ events[c] = 1 => receipt.ticket = c

\* What the receipt says of the event is so: the operator who reconciles by
\* it finds no PUBLISHED without an event and no FAILED with one.
EventStatusIsTrue ==
  receipt # NoReceipt =>
    /\ receipt.event = "PUBLISHED" => events[receipt.ticket] = 1
    /\ receipt.event = "FAILED"    => events[receipt.ticket] = 0

\* A condition that failed is always explained by the receipt read after it:
\* nobody is refused for "existing ticket data" there is no receipt of.
NoBlindConflict == \A c \in Callers : call[c].answer # "conflict"

\* What callers and operators are told is so: the answers agree, the receipt
\* is not contradicted by the bus, and nobody is refused without a reason.
AnswersAreTrue == AnswersAgree /\ EventStatusIsTrue /\ NoBlindConflict

\* A proposal confirmed once stays confirmed: its receipt is not replaced,
\* and its ticket, once deleted, is not put again by a late transaction or
\* by a replay.
NotResurrected ==
  [][receipt # NoReceipt =>
       /\ receipt'.ticket = receipt.ticket
       /\ tickets' \subseteq tickets]_confirmVars

\* What the proposal promises.
told == {call[c].ticket : c \in {d \in Callers : Answered(d)}}

Once == INSTANCE ConfirmOnce WITH
  Tickets <- Callers, chosen <- receipt.ticket,
  live <- receipt.ticket \in tickets, announced <- events

\* The invocations together implement ConfirmOnce.
ImplementsOnce == Once!OnceSpec
=============================================================================
