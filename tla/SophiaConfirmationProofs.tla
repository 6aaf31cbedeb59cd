---------------------- MODULE SophiaConfirmationProofs ----------------------
(***************************************************************************)
(* Theorems about the chat with SOPHIA: the confirmation of a proposal, for *)
(* every set of invocations, every assignment of contents and every number *)
(* of attempts, and the turns, sessions and deletions of Chat for every    *)
(* number of users, tenants and threads.                                   *)
(***************************************************************************)
EXTENDS SophiaConfirmation, Chat, FiniteSetTheorems, TLAPS

(* The inductive invariant.                                                *)

\* The table holds the ticket of the receipt, or none, and the receipt has
\* the content its ticket was made of.
TableInv ==
  /\ tickets \subseteq {receipt.ticket}
  /\ receipt # NoReceipt => receipt.fingerprint = Content[receipt.ticket]

\* What an invocation knows of the receipt is so, in whatever step it is.
CallOK(c) ==
  /\ call[c].pc = "done" <=> call[c].answer # "none"
  /\ call[c].pc = "send" => AttemptsLeft(c)
  /\ call[c].pc \in {"publish", "record"} => receipt.ticket = c
  /\ call[c].answer = "created" => receipt.ticket = c /\ call[c].ticket = c
  /\ call[c].pc = "ticket" \/ call[c].answer = "recovered" =>
       /\ receipt.ticket # NoTicket
       /\ call[c].ticket = receipt.ticket
       /\ Content[c] = receipt.fingerprint
  /\ call[c].why = "condition" => receipt.ticket # NoTicket
  /\ call[c].answer # "conflict"

\* An event is of the receipt's ticket, and its invocation has published.
EventOK(c) ==
  /\ events[c] \in 0..1
  /\ events[c] = 1 => receipt.ticket = c /\ call[c].pc \in {"record", "done"}
  /\ call[c].pc = "record" =>
       /\ call[c].event = "PUBLISHED" => events[c] = 1
       /\ call[c].event = "FAILED" => events[c] = 0
  /\ receipt.ticket = c =>
       /\ call[c].pc # "done" => receipt.event = "UNCONFIRMED"
       /\ receipt.event = "PUBLISHED" => events[c] = 1
       /\ receipt.event = "FAILED" => events[c] = 0

CallInv == \A c \in Callers : CallOK(c) /\ EventOK(c)

IndInv == ConfirmTypeOK /\ TableInv /\ CallInv

-----------------------------------------------------------------------------
\* The receipt of a confirmed proposal names one of the invocations.
LEMMA ReceiptNames ==
  ASSUME ConfirmTypeOK
  PROVE  /\ receipt # NoReceipt => receipt \in Receipts /\ receipt.ticket \in Callers
         /\ receipt = NoReceipt => receipt.ticket = NoTicket
  BY ConfirmationAssumption DEF ConfirmTypeOK, Receipts, NoReceipt

\* What every step but the table's own keeps of the table.
LEMMA AdvanceKeepsTable ==
  ASSUME ConfirmTypeOK, NEW c \in Callers, Advance(c)
  PROVE  /\ tickets' = tickets
         /\ receipt' = receipt \/ Record(c)
         /\ receipt'.ticket = receipt.ticket
         /\ receipt # NoReceipt => receipt'.fingerprint = receipt.fingerprint
         /\ receipt' = NoReceipt <=> receipt = NoReceipt
  BY ReceiptNames, ConfirmationAssumption
  DEF Advance, ReadReceipt, ReadTicket, Send, Confirmed, Cancelled, Refused,
    ReplyLost, Publish, Record, Dies, Receipts, NoReceipt, ConfirmTypeOK

\* The records an invocation's steps may leave of it, and of the others.
LEMMA CallBecomes ==
  ASSUME call \in [Callers -> Calls], NEW c \in Callers, NEW new \in Calls,
         call' = [call EXCEPT ![c] = new]
  PROVE  /\ call' \in [Callers -> Calls]
         /\ call'[c] = new
         /\ \A d \in Callers \ {c} : call'[d] = call[d]
  OBVIOUS

LEMMA AfterBecome ==
  ASSUME call \in [Callers -> Calls], NEW c \in Callers,
         NEW pc \in {"send", "publish"}, Become(c, pc)
  PROVE  /\ call' \in [Callers -> Calls]
         /\ call'[c] = [call[c] EXCEPT !.pc = pc]
         /\ \A d \in Callers \ {c} : call'[d] = call[d]
  BY DEF Become, Calls

LEMMA AfterRespond ==
  ASSUME call \in [Callers -> Calls], NEW c \in Callers,
         NEW answer \in Answers, NEW given \in Callers \cup {NoTicket},
         Respond(c, answer, given)
  PROVE  /\ call' \in [Callers -> Calls]
         /\ call'[c] = [call[c] EXCEPT !.pc = "done", !.answer = answer,
                                       !.ticket = given]
         /\ \A d \in Callers \ {c} : call'[d] = call[d]
  BY ZenonT(60) DEF Respond, Calls

LEMMA AfterRecover ==
  ASSUME call \in [Callers -> Calls], NEW c \in Callers,
         NEW why \in Reasons, Recover(c, why)
  PROVE  /\ call' \in [Callers -> Calls]
         /\ call'[c] = [call[c] EXCEPT !.pc = "receipt", !.why = why]
         /\ \A d \in Callers \ {c} : call'[d] = call[d]
  BY ZenonT(60) DEF Recover, Calls

-----------------------------------------------------------------------------
(* The steps of an invocation.                                             *)

\* What is to be shown of each: the types, the invocation itself, and that
\* the records of the others stay.
StepOK(c) ==
  /\ ConfirmTypeOK'
  /\ CallOK(c)' /\ EventOK(c)'
  /\ \A d \in Callers \ {c} : call'[d] = call[d] /\ events'[d] = events[d]

\* An answer without a ticket, from a step that has not published.
LEMMA EndsWithout ==
  ASSUME IndInv, NEW c \in Callers,
         NEW answer \in {"failed", "busy", "mismatch", "gone"},
         call[c].pc \in {"receipt", "ticket"},
         Respond(c, answer, NoTicket),
         UNCHANGED <<receipt, tickets, inflight, events>>
  PROVE  StepOK(c)
<1> USE DEF IndInv, ConfirmTypeOK
<1>1. answer \in Answers
  BY DEF Answers
<1>2. /\ call' \in [Callers -> Calls]
      /\ call'[c] = [call[c] EXCEPT !.pc = "done", !.answer = answer,
                                    !.ticket = NoTicket]
      /\ \A d \in Callers \ {c} : call'[d] = call[d]
  BY <1>1, AfterRespond
<1> QED
  BY <1>2 DEF StepOK, CallInv, CallOK, EventOK, Calls

LEMMA ReadReceiptOK ==
  ASSUME IndInv, NEW c \in Callers, ReadReceipt(c)
  PROVE  StepOK(c)
<1> USE DEF IndInv, ConfirmTypeOK
<1>1. CASE SeesNoReceipt /\ WithoutReceipt(c)
  <2>1. receipt = NoReceipt /\ call[c].why # "condition"
    BY <1>1, ReceiptNames DEF SeesNoReceipt, CallInv, CallOK
  <2>2. CASE call[c].why = "fatal"
    <3>1. Respond(c, "failed", NoTicket)
      BY <1>1, <2>2 DEF WithoutReceipt
    <3> QED
      BY <3>1, EndsWithout DEF ReadReceipt
  <2>3. CASE call[c].why # "fatal" /\ AttemptsLeft(c)
    <3>1. Become(c, "send")
      BY <1>1, <2>1, <2>3 DEF WithoutReceipt
    <3>2. /\ call' \in [Callers -> Calls]
          /\ call'[c] = [call[c] EXCEPT !.pc = "send"]
          /\ \A d \in Callers \ {c} : call'[d] = call[d]
      BY <3>1, AfterBecome
    <3> QED
      BY <2>1, <2>3, <3>2
      DEF ReadReceipt, StepOK, CallInv, CallOK, EventOK, Calls, AttemptsLeft
  <2>4. CASE call[c].why # "fatal" /\ ~AttemptsLeft(c)
    <3>1. Respond(c, "busy", NoTicket)
      BY <1>1, <2>1, <2>4 DEF WithoutReceipt
    <3> QED
      BY <3>1, EndsWithout DEF ReadReceipt
  <2> QED
    BY <2>2, <2>3, <2>4
<1>2. CASE receipt # NoReceipt /\ ~SameContent(c)
  <2>1. Respond(c, "mismatch", NoTicket)
    BY <1>2 DEF ReadReceipt, SeesNoReceipt
  <2> QED
    BY <2>1, EndsWithout DEF ReadReceipt
<1>3. CASE receipt # NoReceipt /\ SameContent(c)
  <2> DEFINE new == [call[c] EXCEPT !.pc = "ticket", !.ticket = receipt.ticket]
  <2>1. receipt.ticket \in Callers /\ receipt.ticket # NoTicket
    BY <1>3, ReceiptNames, ConfirmationAssumption
  <2>2. call' = [call EXCEPT ![c] = new] /\ new \in Calls
    BY <1>3, <2>1, ZenonT(60) DEF ReadReceipt, SeesNoReceipt, Calls
  <2>3. call'[c] = new /\ call' \in [Callers -> Calls]
        /\ \A d \in Callers \ {c} : call'[d] = call[d]
    BY <2>2, CallBecomes
  <2> QED
    BY <1>3, <2>1, <2>3
    DEF ReadReceipt, SameContent, StepOK, CallInv, CallOK, EventOK, Calls
<1> QED
  BY <1>1, <1>2, <1>3 DEF ReadReceipt

LEMMA ReadTicketOK ==
  ASSUME IndInv, NEW c \in Callers, ReadTicket(c)
  PROVE  StepOK(c)
<1> USE DEF IndInv, ConfirmTypeOK
<1>1. CASE Respond(c, "recovered", call[c].ticket)
  <2>1. call[c].ticket \in Callers \cup {NoTicket} /\ "recovered" \in Answers
    BY DEF Calls, Answers
  <2>2. /\ call' \in [Callers -> Calls]
        /\ call'[c] = [call[c] EXCEPT !.pc = "done", !.answer = "recovered",
                                      !.ticket = call[c].ticket]
        /\ \A d \in Callers \ {c} : call'[d] = call[d]
    BY <1>1, <2>1, AfterRespond
  <2> QED
    BY <2>2
    DEF ReadTicket, StepOK, CallInv, CallOK, EventOK, Calls
<1>2. CASE Respond(c, "gone", NoTicket)
  BY <1>2, EndsWithout DEF ReadTicket
<1> QED
  BY <1>1, <1>2 DEF ReadTicket

LEMMA SendOK ==
  ASSUME IndInv, NEW c \in Callers, Send(c)
  PROVE  StepOK(c)
<1> USE DEF IndInv, ConfirmTypeOK
<1> DEFINE n == call[c].attempt + 1
           new == [call[c] EXCEPT !.pc = "sent", !.attempt = n]
<1>1. n \in 0..MaxAttempts
  BY ConfirmationAssumption DEF Send, CallInv, CallOK, Calls, AttemptsLeft
<1>2. call' = [call EXCEPT ![c] = new] /\ new \in Calls
  BY <1>1, ZenonT(60) DEF Send, Calls
<1>3. call'[c] = new /\ call' \in [Callers -> Calls]
      /\ \A d \in Callers \ {c} : call'[d] = call[d]
  BY <1>2, CallBecomes
<1> HIDE DEF n
<1> QED
  BY <1>3 DEF Send, StepOK, CallInv, CallOK, EventOK, Calls

LEMMA TransactionAnswerOK ==
  ASSUME IndInv, NEW c \in Callers,
         Confirmed(c) \/ Cancelled(c) \/ Refused(c) \/ ReplyLost(c)
  PROVE  StepOK(c)
<1> USE DEF IndInv, ConfirmTypeOK
<1>1. CASE Confirmed(c)
  <2>1. /\ call' \in [Callers -> Calls]
        /\ call'[c] = [call[c] EXCEPT !.pc = "publish"]
        /\ \A d \in Callers \ {c} : call'[d] = call[d]
    BY <1>1, AfterBecome DEF Confirmed
  <2> QED
    BY <1>1, <2>1 DEF Confirmed, StepOK, CallInv, CallOK, EventOK, Calls
<1>2. CASE Cancelled(c)
  <2>1. /\ call' \in [Callers -> Calls]
        /\ call'[c] = [call[c] EXCEPT !.pc = "receipt", !.why = "condition"]
        /\ \A d \in Callers \ {c} : call'[d] = call[d]
    BY <1>2, AfterRecover DEF Cancelled, Reasons
  <2>2. receipt.ticket # NoTicket
    BY <1>2, ReceiptNames, ConfirmationAssumption DEF Cancelled
  <2> QED
    BY <1>2, <2>1, <2>2
    DEF Cancelled, StepOK, CallInv, CallOK, EventOK, Calls
<1>3. CASE Refused(c) \/ ReplyLost(c)
  <2>1. PICK why \in {"transient", "fatal"} : Recover(c, why)
    BY <1>3 DEF Refused, ReplyLost
  <2>2. /\ call' \in [Callers -> Calls]
        /\ call'[c] = [call[c] EXCEPT !.pc = "receipt", !.why = why]
        /\ \A d \in Callers \ {c} : call'[d] = call[d]
    BY <2>1, AfterRecover DEF Reasons
  <2> QED
    BY <1>3, <2>2
    DEF Refused, ReplyLost, StepOK, CallInv, CallOK, EventOK, Calls
<1> QED
  BY <1>1, <1>2, <1>3

LEMMA PublishOK ==
  ASSUME IndInv, NEW c \in Callers, Publish(c)
  PROVE  StepOK(c)
<1> USE DEF IndInv, ConfirmTypeOK
<1>1. PICK event \in EventStatuses \ {"UNCONFIRMED"}, taken \in 0..1 :
        /\ Outcome(event, taken)
        /\ call' = [call EXCEPT ![c] =
                      [@ EXCEPT !.pc = "record", !.event = event]]
        /\ events' = [events EXCEPT ![c] = @ + taken]
  BY DEF Publish, EventStatuses
<1>2. events[c] = 0 /\ receipt.ticket = c /\ receipt.event = "UNCONFIRMED"
  BY DEF Publish, CallInv, CallOK, EventOK
<1>3. /\ events' \in [Callers -> Nat] /\ events'[c] = taken
      /\ \A d \in Callers \ {c} : events'[d] = events[d]
  BY <1>1, <1>2
<1> DEFINE new == [call[c] EXCEPT !.pc = "record", !.event = event]
<1>4. call' = [call EXCEPT ![c] = new] /\ new \in Calls
  BY <1>1 DEF Calls
<1>5. call'[c] = new /\ call' \in [Callers -> Calls]
      /\ \A d \in Callers \ {c} : call'[d] = call[d]
  BY <1>4, CallBecomes
<1> QED
  BY <1>1, <1>2, <1>3, <1>5
  DEF Publish, Outcome, StepOK, CallInv, CallOK, EventOK, Calls

\* The receipt after Record, whether the update got through or not.
LEMMA RecordReceipt ==
  ASSUME IndInv, NEW c \in Callers, Record(c)
  PROVE  /\ receipt' \in Receipts
         /\ receipt.ticket = c /\ receipt'.ticket = c
         /\ receipt'.fingerprint = receipt.fingerprint
         /\ receipt'.event \in {receipt.event, call[c].event}
<1>1. receipt.ticket = c
  BY DEF IndInv, CallInv, CallOK, Record
<1>2. receipt \in Receipts /\ call[c].event \in EventStatuses
  BY <1>1, ReceiptNames, ConfirmationAssumption DEF IndInv, ConfirmTypeOK, Calls
<1> QED
  BY <1>1, <1>2 DEF Record, Receipts

LEMMA RecordOK ==
  ASSUME IndInv, NEW c \in Callers, Record(c)
  PROVE  StepOK(c)
<1> USE DEF IndInv, ConfirmTypeOK
<1>1. "created" \in Answers /\ c \in Callers \cup {NoTicket}
  BY DEF Answers
<1>2. /\ call' \in [Callers -> Calls]
      /\ call'[c] = [call[c] EXCEPT !.pc = "done", !.answer = "created",
                                    !.ticket = c]
      /\ \A d \in Callers \ {c} : call'[d] = call[d]
  BY <1>1, AfterRespond DEF Record
<1>3. receipt' \in Receipts \cup {NoReceipt}
  BY RecordReceipt
<1>4. CallOK(c)'
  BY <1>2, RecordReceipt, ConfirmationAssumption
  DEF Record, CallInv, CallOK, Calls
<1>5. EventOK(c)'
  BY <1>2, RecordReceipt DEF Record, CallInv, EventOK, Calls
<1> QED
  BY <1>2, <1>3, <1>4, <1>5 DEF Record, StepOK

LEMMA DiesOK ==
  ASSUME IndInv, NEW c \in Callers, Dies(c)
  PROVE  StepOK(c)
<1> USE DEF IndInv, ConfirmTypeOK
<1>1. "dead" \in Answers
  BY DEF Answers
<1>2. /\ call' \in [Callers -> Calls]
      /\ call'[c] = [call[c] EXCEPT !.pc = "done", !.answer = "dead",
                                    !.ticket = NoTicket]
      /\ \A d \in Callers \ {c} : call'[d] = call[d]
  BY <1>1, AfterRespond DEF Dies
<1> QED
  BY <1>2 DEF Dies, StepOK, CallInv, CallOK, EventOK, Calls

LEMMA AdvanceOK ==
  ASSUME IndInv, NEW c \in Callers, Advance(c)
  PROVE  StepOK(c)
  BY ReadReceiptOK, ReadTicketOK, SendOK, TransactionAnswerOK, PublishOK,
    RecordOK, DiesOK DEF Advance

-----------------------------------------------------------------------------
(* The invariant is inductive.                                             *)

LEMMA InitIndInv == Init => IndInv
  BY ConfirmationAssumption
  DEF Init, IndInv, ConfirmTypeOK, TableInv, CallInv, CallOK, EventOK, Calls,
    Reasons, Answers, EventStatuses, NoReceipt

LEMMA AdvanceKeepsIndInv ==
  ASSUME IndInv, NEW c \in Callers, Advance(c)
  PROVE  IndInv'
<1> USE DEF IndInv
<1>1. StepOK(c)
  BY AdvanceOK
<1>2. TableInv'
  BY AdvanceKeepsTable DEF TableInv
<1>3. ASSUME NEW d \in Callers \ {c}
      PROVE  CallOK(d)' /\ EventOK(d)'
  <2>1. call'[d] = call[d] /\ events'[d] = events[d] /\ d # c
    BY <1>1 DEF StepOK
  <2>2. receipt' = receipt \/ receipt.ticket = c
    BY AdvanceKeepsTable, RecordReceipt
  <2>3. /\ receipt'.ticket = receipt.ticket
        /\ receipt.ticket # NoTicket => receipt'.fingerprint = receipt.fingerprint
    BY AdvanceKeepsTable, ReceiptNames
  <2> QED
    BY <2>1, <2>2, <2>3 DEF CallInv, CallOK, EventOK, AttemptsLeft
<1> QED
  BY <1>1, <1>2, <1>3 DEF StepOK, CallInv

LEMMA ApplyKeepsIndInv ==
  ASSUME IndInv, NEW c \in Callers, Apply(c)
  PROVE  IndInv'
<1> USE DEF IndInv
<1>1. receipt = NoReceipt /\ receipt.ticket = NoTicket /\ NoTicket \notin Callers
  BY ReceiptNames, ConfirmationAssumption DEF Apply, ReceiptIsNew
<1>2. tickets = {}
  BY <1>1 DEF TableInv, ConfirmTypeOK
<1>3. receipt' \in Receipts /\ Content[c] \in Contents
  BY ConfirmationAssumption DEF Apply, Receipts, EventStatuses
<1>4. ConfirmTypeOK'
  BY <1>2, <1>3 DEF Apply, WithTicket, ConfirmTypeOK
<1>5. TableInv'
  BY <1>2 DEF Apply, WithTicket, TableInv
<1>6. CallInv'
  BY <1>1 DEF Apply, CallInv, CallOK, EventOK, AttemptsLeft, ConfirmTypeOK, Calls
<1> QED
  BY <1>4, <1>5, <1>6

LEMMA Inductive == IndInv /\ [Next]_confirmVars => IndInv'
<1> SUFFICES ASSUME IndInv, [Next]_confirmVars PROVE IndInv'
  OBVIOUS
<1>1. ASSUME NEW c \in Callers, DeleteTicket(c) PROVE IndInv'
  BY <1>1 DEF DeleteTicket, IndInv, ConfirmTypeOK, TableInv, CallInv, CallOK,
    EventOK, AttemptsLeft
<1>2. CASE UNCHANGED confirmVars
  BY <1>2 DEF confirmVars, IndInv, ConfirmTypeOK, TableInv, CallInv, CallOK,
    EventOK, AttemptsLeft
<1> QED
  BY <1>1, <1>2, AdvanceKeepsIndInv, ApplyKeepsIndInv DEF Next

LEMMA Invariance == ConfirmSpec => []IndInv
  BY InitIndInv, Inductive, PTL DEF ConfirmSpec

-----------------------------------------------------------------------------
(* The theorems.                                                           *)

\* The records of the invocations stay well typed, and none sends its
\* transaction more than MaxAttempts times.
THEOREM CallsTyped == ConfirmSpec => []ConfirmTypeOK
  BY Invariance, PTL DEF IndInv

\* Of any number of invocations of one proposal, all that are told of a
\* ticket are told of the same one, whatever is lost, repeated or deleted.
THEOREM Agreement == ConfirmSpec => []AnswersAgree
<1>1. IndInv => AnswersAgree
  <2> SUFFICES ASSUME IndInv, NEW c \in Callers, NEW d \in Callers,
                      Answered(c), Answered(d)
               PROVE  /\ call[c].ticket = call[d].ticket
                      /\ Content[c] = Content[call[d].ticket]
                      /\ call[c].answer = "created" /\ call[d].answer = "created"
                           => c = d
    BY DEF AnswersAgree
  <2> USE DEF IndInv, CallInv, CallOK, Answered
  <2>1. receipt # NoReceipt
    BY ReceiptNames, ConfirmationAssumption
  <2>2. receipt.fingerprint = Content[receipt.ticket]
    BY <2>1 DEF TableInv
  <2> QED
    BY <2>2
<1> QED
  BY <1>1, Invariance, PTL

\* At most one ticket.created event of a proposal is taken by the bus.
THEOREM OneEvent == ConfirmSpec => []AnnouncedOnce
<1>1. IndInv => AnnouncedOnce
  <2> SUFFICES ASSUME IndInv, NEW c \in Callers
               PROVE  events[c] <= 1 /\ (events[c] = 1 => receipt.ticket = c)
    BY DEF AnnouncedOnce
  <2>1. events[c] \in 0..1 /\ (events[c] = 1 => receipt.ticket = c)
    BY DEF IndInv, CallInv, EventOK
  <2> QED
    BY <2>1
<1> QED
  BY <1>1, Invariance, PTL

\* The receipt's event_status never claims an event that was not taken, nor
\* a failure of one that was.
THEOREM EventStatus == ConfirmSpec => []EventStatusIsTrue
<1>1. IndInv => EventStatusIsTrue
  BY ReceiptNames DEF IndInv, CallInv, EventOK, EventStatusIsTrue
<1> QED
  BY <1>1, Invariance, PTL

\* A failed condition is always explained by a receipt.
THEOREM ConflictsExplained == ConfirmSpec => []NoBlindConflict
<1>1. IndInv => NoBlindConflict
  BY DEF IndInv, CallInv, CallOK, NoBlindConflict
<1> QED
  BY <1>1, Invariance, PTL

\* What callers and operators are told is so.
THEOREM TrueAnswers == ConfirmSpec => []AnswersAreTrue
<1>1. AnswersAgree /\ EventStatusIsTrue /\ NoBlindConflict => AnswersAreTrue
  BY DEF AnswersAreTrue
<1> QED
  BY <1>1, Agreement, EventStatus, ConflictsExplained, PTL

\* A step of the table or of an invocation changes neither the receipt's
\* ticket nor puts the ticket again once there is a receipt.
LEMMA ReceiptStays ==
  ASSUME IndInv, [Next]_confirmVars, receipt # NoReceipt
  PROVE  receipt'.ticket = receipt.ticket /\ tickets' \subseteq tickets
<1>1. ASSUME NEW c \in Callers, Advance(c)
      PROVE  receipt'.ticket = receipt.ticket /\ tickets' \subseteq tickets
  BY <1>1, AdvanceKeepsTable DEF IndInv
<1> QED
  BY <1>1 DEF Next, Apply, ReceiptIsNew, DeleteTicket, confirmVars

\* A confirmed proposal is never confirmed again and its deleted ticket never
\* resurrected, by no replay and by no transaction that arrives late.
THEOREM NeverResurrected == ConfirmSpec => NotResurrected
<1>1. IndInv /\ [Next]_confirmVars =>
        [receipt # NoReceipt => receipt'.ticket = receipt.ticket
                                /\ tickets' \subseteq tickets]_confirmVars
  BY ReceiptStays
<1> QED
  BY <1>1, Invariance, PTL DEF ConfirmSpec, NotResurrected

\* The invocations, however many and however they fail, implement one
\* confirmation: one ticket, announced at most once, never resurrected.
THEOREM Refinement == ConfirmSpec => ImplementsOnce
<1>1. Init => Once!OnceInit
  BY ConfirmationAssumption
  DEF Init, Once!OnceInit, told, Answered, NoReceipt
<1>2. IndInv /\ IndInv' /\ [Next]_confirmVars => [Once!OnceNext]_Once!onceVars
  <2> SUFFICES ASSUME IndInv, IndInv', [Next]_confirmVars
               PROVE  [Once!OnceNext]_Once!onceVars
    OBVIOUS
  <2> USE DEF Once!OnceNext, Once!onceVars
  <2>1. ASSUME NEW c \in Callers, Apply(c)
        PROVE  Once!Confirm(c)
    BY <2>1 DEF Apply, ReceiptIsNew, WithTicket, NoReceipt, Once!Confirm, told,
      Answered
  <2>2. ASSUME NEW c \in Callers, DeleteTicket(c)
        PROVE  Once!Delete
    BY <2>2 DEF DeleteTicket, IndInv, TableInv, Once!Delete, told, Answered
  <2>3. ASSUME NEW c \in Callers, Advance(c)
        PROVE  [Once!OnceNext]_Once!onceVars
    <3>1. tickets' = tickets /\ receipt'.ticket = receipt.ticket
      BY <2>3, AdvanceKeepsTable DEF IndInv
    <3>2. CASE Publish(c)
      <4>1. receipt.ticket = c /\ events[c] = 0 /\ receipt.ticket # NoTicket
        BY <3>2, ConfirmationAssumption
        DEF Publish, IndInv, CallInv, CallOK, EventOK
      <4>2. told' = told
        <5>1. \A d \in Callers : call'[d].answer = call[d].answer
                                /\ call'[d].ticket = call[d].ticket
          BY <3>2 DEF Publish, IndInv, ConfirmTypeOK, Calls
        <5> QED
          BY <5>1 DEF told, Answered
      <4>3. events' = events \/ events' = [events EXCEPT ![c] = 1]
        <5>1. PICK n \in 0..1 : events' = [events EXCEPT ![c] = @ + n]
          BY <3>2 DEF Publish
        <5>2. events \in [Callers -> Nat]
          BY DEF IndInv, ConfirmTypeOK
        <5>3. CASE n = 0
          BY <4>1, <5>1, <5>2, <5>3
        <5>4. CASE n = 1
          BY <4>1, <5>1, <5>2, <5>4
        <5> QED
          BY <5>3, <5>4
      <4> QED
        BY <3>1, <4>1, <4>2, <4>3 DEF Once!Announce
    <3>3. CASE ~Publish(c)
      <4>1. events' = events
        BY <2>3, <3>3 DEF Advance, ReadReceipt, ReadTicket, Send, Confirmed,
          Cancelled, Refused, ReplyLost, Record, Dies
      <4>2. \/ told' = told
            \/ receipt.ticket # NoTicket /\ told' = told \cup {receipt.ticket}
        <5>1. \A d \in Callers \ {c} : call'[d] = call[d]
          BY <2>3, AdvanceOK DEF StepOK
        <5>2. ~Answered(c)
          BY <2>3 DEF Advance, ReadReceipt, ReadTicket, Send, Confirmed,
            Cancelled, Refused, ReplyLost, Publish, Record, Dies, IndInv,
            CallInv, CallOK, Answered
        <5>3. Answered(c)' => call'[c].ticket = receipt.ticket
                              /\ receipt.ticket # NoTicket
          BY <3>1, ConfirmationAssumption
          DEF IndInv, CallInv, CallOK, Answered
        <5> QED
          <6>1. \A d \in Callers \ {c} : Answered(d)' <=> Answered(d)
            BY <5>1 DEF Answered
          <6>2. CASE Answered(c)'
            BY <5>1, <5>2, <5>3, <6>1, <6>2 DEF told
          <6>3. CASE ~Answered(c)'
            BY <5>1, <5>2, <6>1, <6>3 DEF told
          <6> QED
            BY <6>2, <6>3
      <4> QED
        BY <3>1, <4>1, <4>2 DEF Once!Tell
    <3> QED
      BY <3>2, <3>3
  <2>4. CASE UNCHANGED confirmVars
    BY <2>4 DEF confirmVars, told, Answered
  <2> QED
    BY <2>1, <2>2, <2>3, <2>4 DEF Next
<1> QED
  BY <1>1, <1>2, Invariance, PTL DEF ConfirmSpec, ImplementsOnce, Once!OnceSpec

-----------------------------------------------------------------------------
(* Chat: whose messages a thread has, what a deletion leaves, who confirms *)
(* a ticket, and the time of a turn.                                       *)

TurnType ==
  [pc : Points, ctx : AllContexts \cup {none}, row : Sessions \cup {none},
   thread : Threads \cup {none}, on : Threads \cup {none},
   named : Threads \cup {none}, ask : Asks \cup {none}, tool : {"none", "allowed", "refused"},
   plan : BOOLEAN, left : Int, tries : 0..Retries, sent : Nat]

Asked == {"post", "active"}
Replied == {"tool", "continue", "write"}

\* A context somebody can have: the tenant he is of does not change.
Known(c) == c \in AllContexts /\ c.home = Home[c.user]

\* No messages but c's are on thread h, unless it strayed.
HeardBy(h, c) == thread[h].strayed \/ thread[h].heard = {Owner(c)}

\* No message, or those of one owner, unless it strayed.
OneOwner(h) ==
  /\ thread[h].state = "none" => thread[h].heard = {}
  /\ \/ thread[h].heard = {} \/ thread[h].strayed
     \/ \E o \in Owners : thread[h].heard = {o}

\* A session has a thread with messages of its owner and, unless the thread
\* strayed, of nobody else.
RowSound(s) ==
  row[s].state # "none" =>
    /\ row[s].owner \in Owners /\ row[s].thread \in Threads
    /\ \/ thread[row[s].thread].strayed
       \/ thread[row[s].thread].heard = {row[s].owner}
    /\ capabilities /\ row[s].state = "deleted" => thread[row[s].thread].state = "deleted"

\* What a turn remembers of its session and its threads is so, and is its own.
Placed(r) ==
  LET q == turn[r] IN
  /\ q.pc \in Asked => q.sent = 0
  /\ q.sent <= 1
  /\ q.pc # "done" => row[r].state = "none"
  /\ q.pc = "new" => q = At("new")
  /\ q.ctx # none \/ q.pc \notin {"new", "done"} => Known(q.ctx)
  /\ q.pc \in Asked \cup {"first"} =>
       /\ q.thread # none => HeardBy(q.thread, q.ctx)
       /\ q.row # none => row[q.row].state # "none" /\ q.thread = row[q.row].thread
  /\ q.pc = "first" => q.on \in Threads /\ HeardBy(q.on, q.ctx)
  /\ q.pc \in Replied =>
       /\ q.named # none => HeardBy(q.named, q.ctx)
       /\ q.row # none => row[q.row].state # "none"
       /\ q.row # none /\ q.named # none => q.named = row[q.row].thread

\* A proposal is of an administrator, and not of a governed turn with a tool.
Proposed(r) ==
  LET q == turn[r] IN
  /\ q.pc \in Asked \cup {"first", "tool"} => q.tool = "none"
  /\ governed /\ q.pc = "write" /\ q.tool # "none" => ~q.plan
  /\ token[r] => /\ q.pc = "done" /\ Known(q.ctx) /\ CanConfirm(q.ctx)
                 /\ governed => q.tool = "none"
  /\ ticket[r] # none => token[r] /\ ticket[r] = q.ctx

Timed(r) ==
  "trickle" \notin Faults /\ governed /\ port = "agentcore" =>
    /\ turn[r].left >= 0
    /\ turn[r].pc = "continue" /\ turn[r].tool = "allowed" => turn[r].left >= Reserve

\* A deletion whose thread is to be gone has come to the row with it gone.
DelSound(d) ==
  /\ del[d].pc \in {"remote", "local"} => del[d].row \in Sessions /\ row[del[d].row].state # "none"
  /\ del[d].pc = "local" /\ del[d].by = "owner" /\ capabilities =>
       thread[row[del[d].row].thread].state = "deleted"

ChatInv ==
  /\ ChatTypeOK
  /\ \A h \in Threads : OneOwner(h)
  /\ \A s \in Sessions : RowSound(s)
  /\ \A r \in Turns : Placed(r) /\ Proposed(r) /\ Timed(r)
  /\ \A d \in Deletes : DelSound(d)

-----------------------------------------------------------------------------
(* What every step leaves as it is.                                        *)

\* A thread keeps the owner it has unless it strayed, and stays deleted; a
\* session keeps its owner and its thread.
Steady ==
  /\ setting' = setting
  /\ \A h \in Threads :
       /\ thread[h].strayed => thread'[h].strayed
       /\ \/ thread[h].heard = {} \/ thread'[h].strayed
          \/ thread'[h].heard = thread[h].heard
       /\ thread[h].state = "deleted" => thread'[h].state = "deleted"
  /\ \A s \in Sessions : row[s].state # "none" =>
       row'[s].state # "none" /\ row'[s].owner = row[s].owner /\ row'[s].thread = row[s].thread

LEMMA ChatTypes ==
  ASSUME ChatTypeOK
  PROVE  /\ turn \in [Turns -> TurnType]
         /\ \A s \in Sessions : row[s].thread \in Threads \cup {none}
         /\ Turns \subseteq Sessions
BY DEF ChatTypeOK, TurnType, Sessions

LEMMA RowStays ==
  ASSUME Steady, NEW s \in Sessions, RowSound(s), row'[s] = row[s]
  PROVE  RowSound(s)'
BY DEF Steady, RowSound, capabilities

LEMMA TurnStays ==
  ASSUME ChatInv, Steady, NEW r \in Turns,
         turn'[r] = turn[r], token'[r] = token[r], ticket'[r] = ticket[r], row'[r] = row[r]
  PROVE  Placed(r)' /\ Proposed(r)' /\ Timed(r)'
<1>1. Placed(r) /\ Proposed(r) /\ Timed(r)
  BY DEF ChatInv
<1>2. /\ turn[r].thread \in Threads \cup {none} /\ turn[r].on \in Threads \cup {none}
      /\ turn[r].named \in Threads \cup {none} /\ turn[r].row \in Sessions \cup {none}
  BY ChatTypes DEF ChatInv, TurnType
<1>3. \A h \in Threads : HeardBy(h, turn[r].ctx) => HeardBy(h, turn[r].ctx)'
  BY DEF Steady, HeardBy, Owner
<1>4. Placed(r)'
  BY <1>1, <1>2, <1>3 DEF Placed, Steady, HeardBy
<1>5. Proposed(r)' /\ Timed(r)'
  BY <1>1 DEF Proposed, Timed, Steady, governed, port
<1> QED
  BY <1>4, <1>5

LEMMA DelStays ==
  ASSUME ChatInv, Steady, NEW d \in Deletes, del'[d] = del[d]
  PROVE  DelSound(d)'
<1>1. DelSound(d) /\ \A s \in Sessions : RowSound(s)
  BY DEF ChatInv
<1> QED
  BY <1>1 DEF DelSound, RowSound, Steady, capabilities


ThreadType == [state : {"none", "open", "deleted"}, busy : BOOLEAN, heard : SUBSET Owners,
               strayed : BOOLEAN]

LEMMA ThreadsAre ==
  ASSUME ChatInv
  PROVE  thread \in [Threads -> ThreadType] /\ \A h \in Threads : OneOwner(h)
BY DEF ChatInv, ChatTypeOK, ThreadType

\* A step of a turn that leaves the rows alone.
LEMMA TurnGoes ==
  ASSUME ChatInv, Steady, NEW r \in Turns, NEW q \in TurnType,
         turn' = [turn EXCEPT ![r] = q], UNCHANGED <<account, row, del, token, ticket>>,
         thread' \in [Threads -> ThreadType], \A h \in Threads : OneOwner(h)',
         Placed(r)' /\ Proposed(r)' /\ Timed(r)'
  PROVE  ChatInv'
<1>1. turn' \in [Turns -> TurnType] /\ \A t \in Turns : t # r => turn'[t] = turn[t]
  BY ChatTypes DEF ChatInv
<1>2. ChatTypeOK'
  BY <1>1 DEF ChatInv, ChatTypeOK, Steady, TurnType, ThreadType
<1>3. \A t \in Turns : Placed(t)' /\ Proposed(t)' /\ Timed(t)'
  <2> SUFFICES ASSUME NEW t \in Turns PROVE Placed(t)' /\ Proposed(t)' /\ Timed(t)'
    OBVIOUS
  <2>1. CASE t = r
    BY <2>1
  <2>2. CASE t # r
    BY <1>1, <2>2, TurnStays
  <2> QED
    BY <2>1, <2>2
<1>4. \A s \in Sessions : RowSound(s)'
  BY RowStays DEF ChatInv
<1>5. \A d \in Deletes : DelSound(d)'
  BY DelStays
<1> QED
  BY <1>2, <1>3, <1>4, <1>5 DEF ChatInv

\* One that leaves the threads alone, too.
LEMMA TurnOnly ==
  ASSUME ChatInv, NEW r \in Turns, NEW q \in TurnType,
         turn' = [turn EXCEPT ![r] = q],
         UNCHANGED <<setting, account, row, thread, del, token, ticket>>,
         Placed(r)' /\ Proposed(r)' /\ Timed(r)'
  PROVE  ChatInv'
<1>1. Steady
  BY DEF Steady
<1>2. thread' \in [Threads -> ThreadType] /\ \A h \in Threads : OneOwner(h)'
  BY ThreadsAre DEF OneOwner
<1> QED
  BY <1>1, <1>2, TurnGoes

\* What is known of a turn that has not ended.
LEMMA OfTurn ==
  ASSUME ChatInv, NEW r \in Turns
  PROVE  /\ turn[r] \in TurnType /\ turn \in [Turns -> TurnType]
         /\ Placed(r) /\ Proposed(r) /\ Timed(r)
         /\ turn[r].pc # "done" => ~token[r] /\ ticket[r] = none
BY ChatTypes DEF ChatInv, Proposed

LEMMA AtIsTyped == ASSUME NEW pc \in Points PROVE At(pc) \in TurnType
BY ChatAssumption DEF At, TurnType

LEMMA EndIsSound ==
  ASSUME ChatInv, NEW r \in Turns, turn[r].pc # "done", Ends(r), UNCHANGED <<token, ticket>>
  PROVE  /\ At("done") \in TurnType /\ turn' = [turn EXCEPT ![r] = At("done")]
         /\ Placed(r)' /\ Proposed(r)' /\ Timed(r)'
<1>1. At("done") \in TurnType
  BY AtIsTyped DEF Points
<1>2. turn' = [turn EXCEPT ![r] = At("done")] /\ turn'[r] = At("done")
  BY OfTurn DEF Ends
<1>3. ~token'[r] /\ ticket'[r] = none
  BY OfTurn
<1>4. Placed(r)'
  BY <1>2 DEF Placed, At, Asked, Replied
<1>5. Proposed(r)' /\ Timed(r)'
  BY <1>2, <1>3 DEF Proposed, Timed, At, Asked
<1> QED
  BY <1>1, <1>2, <1>4, <1>5

LEMMA EndKeeps ==
  ASSUME ChatInv, NEW r \in Turns, turn[r].pc # "done", Ends(r),
         UNCHANGED <<setting, account, row, thread, del, token, ticket>>
  PROVE  ChatInv'
BY EndIsSound, TurnOnly

LEMMA IdleIsSteady ==
  ASSUME ChatInv, NEW h \in Threads, Idle(h), UNCHANGED <<setting, row>>
  PROVE  /\ Steady /\ thread' \in [Threads -> ThreadType]
         /\ \A g \in Threads : OneOwner(g)'
<1>1. thread' \in [Threads -> ThreadType]
      /\ \A g \in Threads : /\ thread'[g].state = thread[g].state
                            /\ thread'[g].heard = thread[g].heard
                            /\ thread'[g].strayed = thread[g].strayed
  BY ThreadsAre DEF Idle, ThreadType
<1> QED
  BY <1>1, ThreadsAre DEF Steady, OneOwner

-----------------------------------------------------------------------------
(* The steps of a turn.                                                    *)

LEMMA GoesIsTyped ==
  ASSUME NEW q \in TurnType, NEW pc \in Points
  PROVE  [q EXCEPT !.pc = pc] \in TurnType
BY Zenon DEF TurnType

LEMMA AcceptIsTyped ==
  ASSUME NEW q \in TurnType, NEW c \in AllContexts, NEW n \in Int,
         NEW s \in Sessions \cup {none}, NEW h \in Threads \cup {none}
  PROVE  [q EXCEPT !.pc = "post", !.ctx = c, !.left = n, !.row = s, !.thread = h] \in TurnType
BY Zenon DEF TurnType, Points

\* The contexts of a user are his own.
LEMMA ContextsAre ==
  ASSUME ChatTypeOK, NEW u \in Users, NEW c \in Contexts(u)
  PROVE  Known(c) /\ Owner(c) \in Owners
<1>1. account[u] \in Roles /\ Home[u] \in Tenants
  BY ChatAssumption DEF ChatTypeOK
<1>2. PICK t \in Tenants :
        c = [user |-> u, role |-> account[u], home |-> Home[u], tenant |-> t,
             delegated |-> account[u] \in {"ADMIN_XOC", "SUPERADMIN"}]
  BY <1>1 DEF Contexts
<1> QED
  BY <1>1, <1>2 DEF Known, AllContexts, Owner, Owners

LEMMA AcceptKeeps ==
  ASSUME ChatInv, NEW r \in Turns, Accept(r)
  PROVE  ChatInv'
<1> DEFINE q == turn[r]
<1>1. PICK u \in Users, left \in IF governed THEN Budgets ELSE {0} :
        \E c \in Contexts(u) : \E s \in Owned(c) \cup {none} :
          turn' = [turn EXCEPT ![r] =
            [q EXCEPT !.pc = "post", !.ctx = c, !.left = left, !.row = s,
                      !.thread = IF s = none THEN none ELSE row[s].thread]]
  BY DEF Accept
<1>0. PICK c \in Contexts(u) : \E s \in Owned(c) \cup {none} :
          turn' = [turn EXCEPT ![r] =
            [q EXCEPT !.pc = "post", !.ctx = c, !.left = left, !.row = s,
                      !.thread = IF s = none THEN none ELSE row[s].thread]]
  BY <1>1, Zenon
<1>2. PICK s \in Owned(c) \cup {none} :
          turn' = [turn EXCEPT ![r] =
            [q EXCEPT !.pc = "post", !.ctx = c, !.left = left, !.row = s,
                      !.thread = IF s = none THEN none ELSE row[s].thread]]
  BY <1>0, Zenon
<1>3. PICK h : h = IF s = none THEN none ELSE row[s].thread
  OBVIOUS
<1> DEFINE p == [q EXCEPT !.pc = "post", !.ctx = c, !.left = left, !.row = s, !.thread = h]
<1>4. turn' = [turn EXCEPT ![r] = p] /\ q.pc = "new"
      /\ UNCHANGED <<setting, account, row, thread, del, token, ticket>>
  BY <1>2, <1>3 DEF Accept
<1>5. left \in Int /\ left >= 0
  BY ChatAssumption
<1>6. Known(c) /\ c \in AllContexts
  BY ContextsAre DEF ChatInv, Known
<1>7. /\ s \in Sessions \cup {none} /\ h \in Threads \cup {none}
      /\ h # none => HeardBy(h, c)
      /\ s # none => row[s].state # "none" /\ h = row[s].thread
  <2>1. CASE s = none
    BY <2>1, <1>3
  <2>2. CASE s # none
    <3>1. s \in Sessions /\ row[s].state = "bound" /\ row[s].owner = Owner(c)
      BY <2>2 DEF Owned, Bound
    <3>2. RowSound(s)
      BY <3>1 DEF ChatInv
    <3> QED
      BY <1>3, <2>2, <3>1, <3>2 DEF RowSound, HeardBy
  <2> QED
    BY <2>1, <2>2
<1>8. q = At("new") /\ q \in TurnType /\ Placed(r) /\ Proposed(r) /\ ~token[r] /\ ticket[r] = none
  BY <1>4, OfTurn DEF Placed
<1>9. p \in TurnType
  BY <1>5, <1>6, <1>7, <1>8, AcceptIsTyped
<1>10. /\ p.pc = "post" /\ p.ctx = c /\ p.left = left /\ p.row = s /\ p.thread = h
       /\ p.sent = 0 /\ p.tool = "none"
  <2>1. q.sent = 0 /\ q.tool = "none"
    BY <1>8 DEF At
  <2> QED
    BY <1>8, <2>1 DEF TurnType
<1>11. turn'[r] = p
  BY <1>4, OfTurn
<1> HIDE DEF p, q
<1>12. Placed(r)'
  BY <1>4, <1>6, <1>7, <1>8, <1>10, <1>11 DEF Placed, Asked, Replied, HeardBy, q
<1>13. Proposed(r)' /\ Timed(r)'
  BY <1>4, <1>5, <1>8, <1>10, <1>11 DEF Proposed, Timed, Asked
<1> QED
  BY <1>4, <1>9, <1>12, <1>13, TurnOnly


LEMMA HearsIsTyped ==
  ASSUME NEW q \in TurnType, NEW h \in Threads, NEW n \in Nat
  PROVE  [q EXCEPT !.pc = "first", !.on = h, !.sent = n] \in TurnType
BY Zenon DEF TurnType, Points

\* A thread without messages, or with those of the same owner, hears one.
LEMMA HearsKeeps ==
  ASSUME ChatInv, NEW r \in Turns, NEW h \in Threads, Hears(r, h), turn[r].pc = "post",
         thread[h].state # "deleted",
         thread[h].heard = {} \/ HeardBy(h, turn[r].ctx),
         UNCHANGED <<setting, account, row, del, token, ticket>>
  PROVE  ChatInv'
<1> DEFINE q == turn[r]
<1>1. /\ q \in TurnType /\ Placed(r) /\ Proposed(r) /\ Timed(r)
      /\ ~token[r] /\ ticket[r] = none
  BY OfTurn
<1>2. Known(q.ctx) /\ Owner(q.ctx) \in Owners /\ q.sent = 0 /\ q.tool = "none"
  BY <1>1 DEF Placed, Proposed, Known, Owner, Owners, AllContexts, Asked
<1>3. PICK n \in Nat : n = 1 /\ turn' = [turn EXCEPT ![r] =
                                [q EXCEPT !.pc = "first", !.on = h, !.sent = n]]
  <2>1. q.sent + 1 = 1
    BY <1>2
  <2>2. turn' = [turn EXCEPT ![r] = [q EXCEPT !.pc = "first", !.on = h, !.sent = q.sent + 1]]
    BY DEF Hears
  <2> QED
    BY <2>1, <2>2
<1> DEFINE p == [q EXCEPT !.pc = "first", !.on = h, !.sent = n]
<1>4. /\ p \in TurnType /\ turn'[r] = p
      /\ p.pc = "first" /\ p.on = h /\ p.sent = 1 /\ p.ctx = q.ctx /\ p.thread = q.thread
      /\ p.row = q.row /\ p.tool = q.tool /\ p.left = q.left
  <2>1. p \in TurnType
    BY <1>1, HearsIsTyped
  <2> QED
    BY <1>1, <1>3, <2>1, OfTurn, ZenonT(60) DEF TurnType
<1>5. /\ thread'[h].heard = thread[h].heard \cup {Owner(q.ctx)}
      /\ thread'[h].state = "open" /\ thread'[h].strayed = thread[h].strayed
      /\ thread'[h].strayed \/ thread'[h].heard = {Owner(q.ctx)}
      /\ \A g \in Threads : g # h => thread'[g] = thread[g]
      /\ thread' \in [Threads -> ThreadType]
  BY <1>2, ThreadsAre DEF Hears, HeardBy, ThreadType
<1>6. Steady
  BY <1>5 DEF Steady, HeardBy
<1>7. \A g \in Threads : OneOwner(g)'
  BY <1>2, <1>5, ThreadsAre DEF OneOwner
<1>8. Placed(r)'
  <2>1. q.thread # none => thread'[q.thread].strayed \/ thread'[q.thread].heard = {Owner(q.ctx)}
    <3>1. ASSUME q.thread # none
          PROVE  /\ q.thread \in Threads
                 /\ thread[q.thread].strayed \/ thread[q.thread].heard = {Owner(q.ctx)}
      BY <1>1, <3>1 DEF Placed, HeardBy, TurnType, Asked
    <3> QED
      BY <1>5, <1>6, <3>1 DEF Steady
  <2>2. thread'[h].strayed \/ thread'[h].heard = {Owner(q.ctx)}
    BY <1>5
  <2> HIDE DEF p, q
  <2> QED
    BY <1>1, <1>2, <1>4, <2>1, <2>2 DEF Placed, Asked, Replied, HeardBy, Owner, q
<1>9. Proposed(r)' /\ Timed(r)'
  <2> HIDE DEF p
  <2> QED
    BY <1>1, <1>2, <1>4 DEF Proposed, Timed, Asked, governed, port
<1> QED
  BY <1>3, <1>4, <1>6, <1>5, <1>7, <1>8, <1>9, TurnGoes

LEMMA PostKeeps ==
  ASSUME ChatInv, NEW r \in Turns, Post(r)
  PROVE  ChatInv'
<1> DEFINE h == turn[r].thread
<1>1. turn[r].pc = "post" /\ UNCHANGED <<setting, account, row, del, token, ticket>>
  BY DEF Post
<1>2. CASE Ends(r) /\ UNCHANGED thread
  BY <1>1, <1>2, EndKeeps
<1>3. ASSUME NEW g \in Threads, thread[g].state = "none", Hears(r, g) PROVE ChatInv'
  BY <1>1, <1>3, HearsKeeps, ThreadsAre DEF OneOwner
<1>4. CASE h # none /\ thread[h].state = "open" /\ Hears(r, h)
  <2>1. h \in Threads /\ HeardBy(h, turn[r].ctx)
    BY <1>1, <1>4, OfTurn DEF TurnType, Placed, Asked
  <2> QED
    BY <1>1, <1>4, <2>1, HearsKeeps
<1>5. CASE Goes(r, "active") /\ UNCHANGED thread
  <2> DEFINE q == turn[r]
             p == [q EXCEPT !.pc = "active"]
  <2>1. q \in TurnType /\ Placed(r) /\ Proposed(r) /\ Timed(r) /\ ~token[r] /\ ticket[r] = none
    BY <1>1, OfTurn
  <2>2. p \in TurnType
    BY <2>1, GoesIsTyped DEF Points
  <2>3. turn' = [turn EXCEPT ![r] = p] /\ turn'[r] = p
    BY <1>5, OfTurn DEF Goes
  <2>4. Placed(r)' /\ Proposed(r)' /\ Timed(r)'
    BY <1>1, <1>5, <2>1, <2>3 DEF Placed, Proposed, Timed, Asked, Replied, HeardBy, Owner, TurnType,
       governed, port
  <2> QED
    BY <1>1, <1>5, <2>2, <2>3, <2>4, TurnOnly
<1> QED
  BY <1>2, <1>3, <1>4, <1>5 DEF Post

LEMMA RetryIsTyped ==
  ASSUME NEW q \in TurnType, NEW n \in 0..Retries
  PROVE  [q EXCEPT !.pc = "post", !.tries = n] \in TurnType
BY Zenon DEF TurnType, Points

LEMMA RetriedOnce ==
  ASSUME NEW r \in Turns, Retry(r), ~Ends(r)
  PROVE  turn' = [turn EXCEPT ![r] = [turn[r] EXCEPT !.pc = "post", !.tries = turn[r].tries + 1]]
BY DEF Retry

LEMMA RetryKeeps ==
  ASSUME ChatInv, NEW r \in Turns, Retry(r)
  PROVE  ChatInv'
<1> DEFINE q == turn[r]
<1>1. q.pc = "active" /\ UNCHANGED <<setting, account, row, thread, del, token, ticket>>
  BY DEF Retry
<1>2. CASE Ends(r)
  BY <1>1, <1>2, EndKeeps
<1>3. CASE ~Ends(r)
  <2>1. q \in TurnType /\ Placed(r) /\ Proposed(r) /\ Timed(r) /\ ~token[r] /\ ticket[r] = none
    BY <1>1, OfTurn
  <2>2. PICK n \in 0..Retries : turn' = [turn EXCEPT ![r] = [q EXCEPT !.pc = "post", !.tries = n]]
    <3>1. q.tries \in 0..Retries /\ q.tries < Retries
      BY <1>3, <2>1 DEF Retry, TurnType
    <3>2. q.tries + 1 \in 0..Retries
      BY <3>1, ChatAssumption
    <3> QED
      BY <1>1, <1>3, <3>2, RetriedOnce
  <2> DEFINE p == [q EXCEPT !.pc = "post", !.tries = n]
  <2>3. p \in TurnType
    BY <2>1, RetryIsTyped
  <2>4. turn'[r] = p
    BY <2>2, OfTurn
  <2>5. Placed(r)' /\ Proposed(r)' /\ Timed(r)'
    BY <1>1, <2>1, <2>4 DEF Placed, Proposed, Timed, Asked, Replied, HeardBy, Owner, TurnType,
       governed, port
  <2> QED
    BY <1>1, <2>2, <2>3, <2>5, TurnOnly
<1> QED
  BY <1>2, <1>3

\* The thread of an answer that is taken has this owner's messages, or was
\* another's that no session was bound to.
LEMMA AcceptedIsOwn ==
  ASSUME ChatInv, NEW r \in Turns, turn[r].pc = "first",
         NEW named \in Named(r), Accepts(turn[r].ctx, turn[r].thread, named), named # none
  PROVE  /\ named \in Threads
         /\ HeardBy(named, turn[r].ctx) \/ Strays(turn[r].ctx, named)
         /\ turn[r].row # none => named = row[turn[r].row].thread
<1> DEFINE q == turn[r]
<1>1. q \in TurnType /\ Placed(r) /\ \A s \in Sessions : RowSound(s)
  BY OfTurn DEF ChatInv
<1>2. named \in Threads
  BY <1>1 DEF Placed, Named
<1>3. HeardBy(named, q.ctx) \/ Strays(q.ctx, named)
  <2>1. ASSUME NEW s \in Sessions, Bound(s), row[s].thread = named
        PROVE  HeardBy(named, q.ctx)
    <3>1. row[s].owner = Owner(q.ctx)
      BY <2>1 DEF Accepts, BoundElsewhere
    <3> QED
      BY <1>1, <2>1, <3>1 DEF RowSound, HeardBy, Bound
  <2> QED
    BY <2>1 DEF HeardBy, Strays
<1>4. ASSUME q.row # none PROVE named = row[q.row].thread
  <2>1. q.row \in Sessions /\ row[q.row].state # "none" /\ q.thread = row[q.row].thread
    BY <1>1, <1>4 DEF Placed, TurnType, Asked
  <2>2. q.thread \in Threads
    BY <1>1, <2>1 DEF RowSound
  <2> QED
    BY <2>1, <2>2, ChatAssumption DEF Accepts
<1> QED
  BY <1>2, <1>3, <1>4

\* Taking it keeps every thread its owner, but for one that strays.
LEMMA TakingIsSteady ==
  ASSUME ChatInv, NEW r \in Turns, NEW h, Takes(r, h), UNCHANGED <<setting, row>>
  PROVE  /\ Steady /\ thread' \in [Threads -> ThreadType]
         /\ \A g \in Threads : OneOwner(g)'
         /\ h \in Threads /\ Strays(turn[r].ctx, h) => thread'[h].strayed
<1>1. /\ thread' \in [Threads -> ThreadType]
      /\ \A g \in Threads :
           /\ thread'[g].state = thread[g].state /\ thread'[g].heard = thread[g].heard
           /\ thread[g].strayed => thread'[g].strayed
           /\ g = h /\ Strays(turn[r].ctx, h) => thread'[g].strayed
  <2>1. DOMAIN thread' = Threads
    BY DEF Takes
  <2>2. ASSUME NEW g \in Threads
        PROVE  /\ thread'[g] \in ThreadType
               /\ thread'[g].state = thread[g].state /\ thread'[g].heard = thread[g].heard
               /\ thread[g].strayed => thread'[g].strayed
               /\ g = h /\ Strays(turn[r].ctx, h) => thread'[g].strayed
    <3>1. PICK busy \in BOOLEAN, strayed \in BOOLEAN :
            /\ thread'[g] = [thread[g] EXCEPT !.busy = busy, !.strayed = strayed]
            /\ strayed <=> thread[g].strayed \/ (g = h /\ Strays(turn[r].ctx, h))
      <4> DEFINE b == thread[g].busy /\ g # turn[r].on
                 t == thread[g].strayed \/ (g = h /\ Strays(turn[r].ctx, h))
      <4>1. thread'[g] = [thread[g] EXCEPT !.busy = b, !.strayed = t]
        BY DEF Takes
      <4>2. b \in BOOLEAN /\ t \in BOOLEAN
        OBVIOUS
      <4> HIDE DEF b
      <4> QED
        BY <4>1, <4>2
    <3>2. thread[g] \in ThreadType
      BY ThreadsAre
    <3> QED
      BY <3>1, <3>2 DEF ThreadType
  <2>3. thread' = [g \in Threads |-> thread'[g]]
    BY DEF Takes
  <2> QED
    BY <2>1, <2>2, <2>3
<1> QED
  BY <1>1, ThreadsAre DEF Steady, OneOwner

LEMMA ReplyIsTyped ==
  ASSUME NEW q \in TurnType, NEW pc \in Points, NEW zero \in 0..Retries
  PROVE  [q EXCEPT !.pc = pc, !.on = none, !.thread = none, !.tries = zero] \in TurnType
BY Zenon DEF TurnType

LEMMA NamedIsTyped ==
  ASSUME NEW q \in TurnType, NEW named \in Threads \cup {none},
         NEW ask \in Asks \cup {none}, NEW plan \in BOOLEAN, NEW n \in Int
  PROVE  [q EXCEPT !.named = named, !.ask = ask, !.plan = plan, !.left = n] \in TurnType
BY Zenon DEF TurnType

\* What a call may take never exceeds the time there is, if answers come whole.
LEMMA Within ==
  ASSUME "trickle" \notin Faults, NEW cap \in Nat, NEW left \in Int,
         NEW time \in Durations(Least(cap, left)), left >= 0
  PROVE  time \in Int /\ left - time >= 0
<1>1. Least(cap, left) \in Int /\ 0 <= Least(cap, left) /\ Least(cap, left) <= left
  BY DEF Least
<1>2. time = 0 \/ time = Least(cap, left)
  BY DEF Durations
<1> QED
  BY <1>1, <1>2

LEMMA DurationIsTyped ==
  ASSUME NEW cap \in Int, NEW time \in Durations(cap)
  PROVE  time \in Int
BY DEF Durations


LEMMA ReplyKeeps ==
  ASSUME ChatInv, NEW r \in Turns, Reply(r)
  PROVE  ChatInv'
<1> DEFINE q == turn[r]
<1>1. q.pc = "first" /\ UNCHANGED <<setting, account, row, del, token, ticket>>
  BY DEF Reply
<1>2. /\ q \in TurnType /\ Placed(r) /\ Proposed(r) /\ Timed(r) /\ ~token[r] /\ ticket[r] = none
  BY <1>1, OfTurn
<1>3. q.on \in Threads
  BY <1>1, <1>2 DEF Placed
<1>5. PICK named \in Named(r), ask \in Asks \cup {none}, plan \in BOOLEAN,
           time \in IF governed THEN Durations(Least(FirstCap, q.left)) ELSE {0} :
        IF ~Accepts(q.ctx, q.thread, named) \/ (ask # none /\ governed /\ named = none)
        THEN Ends(r) /\ Idle(q.on)
        ELSE /\ Takes(r, named)
             /\ turn' = [turn EXCEPT ![r] =
                  [@ EXCEPT !.pc = IF ask = none THEN "write" ELSE "tool",
                            !.on = none, !.thread = none, !.tries = 0,
                            !.named = named, !.ask = ask, !.plan = plan,
                            !.left = IF ask = none THEN Kept(q.left - time)
                                                   ELSE q.left - time]]
  BY DEF Reply
<1>6. CASE Ends(r) /\ Idle(q.on)
  <2>1. /\ Steady /\ thread' \in [Threads -> ThreadType]
        /\ \A h \in Threads : OneOwner(h)'
    BY <1>1, <1>3, <1>6, IdleIsSteady
  <2> QED
    BY <1>1, <1>6, <2>1, EndIsSound, TurnGoes
<1>7. CASE ~(Ends(r) /\ Idle(q.on))
  <2>1. Accepts(q.ctx, q.thread, named) /\ Takes(r, named)
    BY <1>5, <1>7
  <2>0. /\ Steady /\ thread' \in [Threads -> ThreadType]
        /\ \A h \in Threads : OneOwner(h)'
        /\ named \in Threads /\ Strays(q.ctx, named) => thread'[named].strayed
    BY <1>1, <2>1, TakingIsSteady
  <2>2. PICK pc \in {"write", "tool"} : pc = IF ask = none THEN "write" ELSE "tool"
    OBVIOUS
  <2> DEFINE n == IF pc = "write" THEN Kept(q.left - time) ELSE q.left - time
  <2> DEFINE a == [q EXCEPT !.pc = pc, !.on = none, !.thread = none, !.tries = 0]
             p == [q EXCEPT !.pc = pc, !.on = none, !.thread = none, !.tries = 0,
                            !.named = named, !.ask = ask, !.plan = plan, !.left = n]
  <2>3. /\ named \in Threads \cup {none}
        /\ named # none => /\ HeardBy(named, q.ctx) \/ Strays(q.ctx, named)
                           /\ q.row # none => named = row[q.row].thread
    BY <1>1, <2>1, AcceptedIsOwn
  <2>4. n \in Int /\ ("trickle" \notin Faults /\ governed /\ port = "agentcore" => n >= 0)
    <3>1. q.left \in Int /\ FirstCap \in Nat
      BY <1>2, ChatAssumption DEF TurnType
    <3>2. Least(FirstCap, q.left) \in Int
      BY <3>1 DEF Least
    <3>3. time \in Int
      BY <3>2, DurationIsTyped
    <3>4. "trickle" \notin Faults /\ governed /\ port = "agentcore" => q.left - time >= 0
      BY <1>2, <3>1, Within DEF Timed
    <3> QED
      BY <3>1, <3>3, <3>4 DEF Kept
  <2> HIDE DEF n
  <2>5. p \in TurnType
    <3>1. 0 \in 0..Retries
      BY ChatAssumption
    <3>2. a \in TurnType
      BY <1>2, <3>1, ReplyIsTyped DEF Points
    <3>3. p = [a EXCEPT !.named = named, !.ask = ask, !.plan = plan, !.left = n]
      BY Zenon
    <3> HIDE DEF a
    <3>4. [a EXCEPT !.named = named, !.ask = ask, !.plan = plan, !.left = n] \in TurnType
      BY <2>3, <2>4, <3>2, NamedIsTyped
    <3> HIDE DEF p
    <3> QED
      BY <3>3, <3>4
  <2>6. turn' = [turn EXCEPT ![r] = p]
    BY <1>5, <1>7, <2>2 DEF n
  <2>7. /\ turn'[r] = p /\ p.pc = pc /\ p.named = named /\ p.ctx = q.ctx /\ p.row = q.row
        /\ p.left = n /\ p.tool = q.tool /\ p.sent = q.sent
    BY <1>2, <2>6, OfTurn DEF TurnType
  <2>8. /\ Known(q.ctx) /\ q.sent <= 1 /\ row[r].state = "none" /\ q.tool = "none"
        /\ q.row # none => row[q.row].state # "none"
    BY <1>1, <1>2 DEF Placed, Proposed
  <2>9. named # none => thread'[named].strayed \/ thread'[named].heard = {Owner(q.ctx)}
    BY <2>0, <2>3 DEF HeardBy, Steady
  <2> HIDE DEF p, q, a
  <2>10. Placed(r)'
    BY <1>1, <2>3, <2>7, <2>8, <2>9 DEF Placed, Asked, Replied, HeardBy, Owner
  <2>11. Proposed(r)' /\ Timed(r)'
    BY <1>1, <1>2, <2>4, <2>7, <2>8 DEF Proposed, Timed, Asked, governed, port
  <2> QED
    BY <1>1, <2>0, <2>5, <2>6, <2>10, <2>11, TurnGoes DEF p, q
<1> QED
  BY <1>6, <1>7

LEMMA ErrorAndLateKeep ==
  ASSUME ChatInv, NEW r \in Turns, ErrorReply(r) \/ Late(r)
  PROVE  ChatInv'
<1>1. CASE ErrorReply(r)
  <2>1. turn[r].on \in Threads /\ turn[r].pc = "first"
    BY <1>1, OfTurn DEF ErrorReply, Placed
  <2>2. /\ Steady /\ thread' \in [Threads -> ThreadType]
        /\ \A h \in Threads : OneOwner(h)'
    BY <1>1, <2>1, IdleIsSteady DEF ErrorReply
  <2> QED
    BY <1>1, <2>1, <2>2, EndIsSound, TurnGoes DEF ErrorReply
<1>2. CASE Late(r)
  BY <1>2, EndKeeps DEF Late, LateEnds
<1> QED
  BY <1>1, <1>2

LEMMA ToolIsTyped ==
  ASSUME NEW q \in TurnType, NEW pc \in Points, NEW tool \in {"allowed", "refused"}, NEW n \in Int
  PROVE  /\ [q EXCEPT !.pc = pc, !.tool = tool, !.ask = none, !.left = n] \in TurnType
BY Zenon DEF TurnType

\* After a tool the turn goes on, or the answer is written, with what time is
\* left.
LEMMA ToolKeeps ==
  ASSUME ChatInv, NEW r \in Turns, turn[r].pc = "tool",
         UNCHANGED <<setting, account, row, thread, del, token, ticket>>,
         NEW pc \in {"continue", "write"}, NEW tool \in {"allowed", "refused"}, NEW n \in Int,
         turn' = [turn EXCEPT ![r] =
           [turn[r] EXCEPT !.pc = pc, !.tool = tool, !.ask = none, !.left = n]],
         governed => pc = "continue",
         "trickle" \notin Faults /\ governed /\ port = "agentcore" =>
           n >= 0 /\ (tool = "allowed" => n >= Reserve)
  PROVE  ChatInv'
<1> DEFINE q == turn[r]
           p == [q EXCEPT !.pc = pc, !.tool = tool, !.ask = none, !.left = n]
<1>1. /\ q \in TurnType /\ Placed(r) /\ Proposed(r) /\ ~token[r] /\ ticket[r] = none
  BY OfTurn
<1>2. p \in TurnType
  BY <1>1, ToolIsTyped DEF Points
<1>3. /\ turn'[r] = p /\ p.pc = pc /\ p.tool = tool /\ p.left = n /\ p.named = q.named
      /\ p.ctx = q.ctx /\ p.row = q.row /\ p.sent = q.sent
  BY <1>1, OfTurn DEF TurnType
<1>4. /\ Known(q.ctx) /\ q.sent <= 1 /\ row[r].state = "none"
      /\ q.named # none => (thread[q.named].strayed \/ thread[q.named].heard = {Owner(q.ctx)})
      /\ q.row # none => row[q.row].state # "none"
      /\ q.row # none /\ q.named # none => q.named = row[q.row].thread
  BY <1>1 DEF Placed, Replied, HeardBy
<1> HIDE DEF p, q
<1>5. Placed(r)'
  BY <1>3, <1>4 DEF Placed, Asked, Replied, HeardBy, Owner
<1>6. Proposed(r)' /\ Timed(r)'
  BY <1>1, <1>3 DEF Proposed, Timed, Asked, governed, port
<1> QED
  BY <1>2, <1>5, <1>6, TurnOnly DEF p, q

LEMMA RunToolKeeps ==
  ASSUME ChatInv, NEW r \in Turns, RunTool(r)
  PROVE  ChatInv'
<1> DEFINE q == turn[r]
<1>1. q.pc = "tool" /\ UNCHANGED <<setting, account, row, thread, del, token, ticket>>
  BY DEF RunTool
<1>2. /\ q \in TurnType /\ q.left \in Int /\ Reserve \in Nat /\ ToolCap \in Nat
      /\ "trickle" \notin Faults /\ governed /\ port = "agentcore" => q.left >= 0
  BY OfTurn, ChatAssumption DEF TurnType, Timed
<1>3. CASE /\ port = "agentcore" /\ ToolTime(r) >= 1
           /\ \E time \in Durations(ToolTime(r)),
                 code \in ExecutedBy(port, turn[r].ctx, turn[r].ask) :
                turn' = [turn EXCEPT ![r] = [@ EXCEPT !.pc = "continue",
                                      !.tool = Result(code), !.ask = none,
                                      !.left = turn[r].left - time]]
  <2>1. PICK time \in Durations(ToolTime(r)), tool \in {"allowed", "refused"} :
          turn' = [turn EXCEPT ![r] = [q EXCEPT !.pc = "continue", !.tool = tool,
                                                !.ask = none, !.left = q.left - time]]
    BY <1>3 DEF Result
  <2>2. ToolTime(r) \in Int /\ ToolTime(r) <= q.left - Reserve
    BY <1>2 DEF ToolTime, Least
  <2>3. time \in Int
    BY <2>2, DurationIsTyped
  <2>4. "trickle" \notin Faults => q.left - time >= Reserve
    <3>1. "trickle" \notin Faults => time = 0 \/ time = ToolTime(r)
      BY DEF Durations
    <3> QED
      BY <1>2, <1>3, <2>2, <2>3, <3>1
  <2> DEFINE n == q.left - time
  <2>5. n \in Int /\ ("trickle" \notin Faults => n >= Reserve /\ n >= 0)
    BY <1>2, <2>3, <2>4
  <2>6. turn' = [turn EXCEPT ![r] = [q EXCEPT !.pc = "continue", !.tool = tool,
                                              !.ask = none, !.left = n]]
    BY <2>1
  <2> HIDE DEF n
  <2> QED
    BY <1>1, <2>5, <2>6, ToolKeeps
<1>4. CASE /\ port = "agentcore" /\ ToolTime(r) < 1
           /\ turn' = [turn EXCEPT ![r] = [@ EXCEPT !.pc = "continue",
                                      !.tool = "refused", !.ask = none]]
  <2>1. [q EXCEPT !.pc = "continue", !.tool = "refused", !.ask = none]
          = [q EXCEPT !.pc = "continue", !.tool = "refused", !.ask = none, !.left = q.left]
    BY <1>2 DEF TurnType
  <2>2. turn' = [turn EXCEPT ![r] = [q EXCEPT !.pc = "continue", !.tool = "refused",
                                              !.ask = none, !.left = q.left]]
    BY <1>4, <2>1
  <2> QED
    BY <1>1, <1>2, <2>2, ToolKeeps
<1>5. CASE /\ port # "agentcore"
           /\ \E code \in ExecutedBy(port, turn[r].ctx, turn[r].ask),
                 time \in {0} \cup (IF governed /\ "late" \in Faults THEN {turn[r].left} ELSE {}) :
                turn' = [turn EXCEPT ![r] =
                  [@ EXCEPT !.pc = IF governed THEN "continue" ELSE "write",
                            !.tool = Result(code), !.ask = none,
                            !.left = IF governed THEN turn[r].left - time ELSE 0]]
  <2>1. PICK tool \in {"allowed", "refused"},
             time \in {0} \cup (IF governed /\ "late" \in Faults THEN {q.left} ELSE {}) :
          turn' = [turn EXCEPT ![r] =
            [q EXCEPT !.pc = IF governed THEN "continue" ELSE "write", !.tool = tool,
                      !.ask = none, !.left = IF governed THEN q.left - time ELSE 0]]
    BY <1>5 DEF Result
  <2>2. PICK pc \in {"continue", "write"}, n \in Int :
          /\ governed => pc = "continue"
          /\ turn' = [turn EXCEPT ![r] = [q EXCEPT !.pc = pc, !.tool = tool, !.ask = none,
                                                   !.left = n]]
    <3>1. time \in Int
      BY <1>2
    <3>2. (IF governed THEN q.left - time ELSE 0) \in Int
      BY <1>2, <3>1
    <3> QED
      BY <2>1, <3>2
  <2> QED
    BY <1>1, <1>5, <2>2, ToolKeeps
<1> QED
  BY <1>3, <1>4, <1>5 DEF RunTool

LEMMA ContinueIsTyped ==
  ASSUME NEW q \in TurnType, NEW n \in Int
  PROVE  [q EXCEPT !.pc = "write", !.plan = FALSE, !.left = n] \in TurnType
BY Zenon DEF TurnType, Points

LEMMA ContinueKeeps ==
  ASSUME ChatInv, NEW r \in Turns, Continue(r)
  PROVE  ChatInv'
<1> DEFINE q == turn[r]
<1>1. q.pc = "continue" /\ UNCHANGED <<setting, account, row, thread, del, token, ticket>>
  BY DEF Continue
<1>2. /\ q \in TurnType /\ Placed(r) /\ Proposed(r) /\ Timed(r) /\ ~token[r] /\ ticket[r] = none
  BY <1>1, OfTurn
<1>3. PICK time \in IF SecondTime(r) <= 0 THEN {0} ELSE Durations(SecondTime(r)) :
        turn' = [turn EXCEPT ![r] = [@ EXCEPT !.pc = "write", !.plan = FALSE,
                                              !.left = Kept(turn[r].left - time)]]
  BY DEF Continue
<1>4. q.left \in Int /\ SecondCap \in Nat /\ SecondTime(r) \in Int /\ time \in Int
  <2>1. q.left \in Int /\ SecondCap \in Nat
    BY <1>2, ChatAssumption DEF TurnType
  <2>2. SecondTime(r) \in Int
    BY <2>1 DEF SecondTime, Least
  <2> QED
    BY <2>1, <2>2, DurationIsTyped
<1>5. PICK n \in Int : n = Kept(q.left - time)
  BY <1>4 DEF Kept
<1>6. "trickle" \notin Faults /\ governed /\ port = "agentcore" => n >= 0
  <2> SUFFICES ASSUME "trickle" \notin Faults, governed, port = "agentcore" PROVE q.left - time >= 0
    BY <1>4, <1>5 DEF Kept
  <2>1. q.left >= 0
    BY <1>2 DEF Timed
  <2>2. CASE time = 0
    BY <1>4, <2>1, <2>2
  <2>3. CASE time # 0
    BY <1>4, <2>1, <2>3, Within DEF SecondTime
  <2> QED
    BY <2>2, <2>3
<1> DEFINE p == [q EXCEPT !.pc = "write", !.plan = FALSE, !.left = n]
<1>7. turn' = [turn EXCEPT ![r] = p] /\ p \in TurnType
  BY <1>2, <1>3, <1>5, ContinueIsTyped
<1>8. /\ turn'[r] = p /\ p.pc = "write" /\ ~p.plan /\ p.left = n /\ p.named = q.named
      /\ p.ctx = q.ctx /\ p.row = q.row /\ p.sent = q.sent
  BY <1>2, <1>7, OfTurn, ZenonT(60) DEF TurnType
<1>9. /\ Known(q.ctx) /\ q.sent <= 1 /\ row[r].state = "none"
      /\ q.named # none => (thread[q.named].strayed \/ thread[q.named].heard = {Owner(q.ctx)})
      /\ q.row # none => row[q.row].state # "none"
      /\ q.row # none /\ q.named # none => q.named = row[q.row].thread
  BY <1>1, <1>2 DEF Placed, Replied, HeardBy
<1> HIDE DEF p, q
<1>10. Placed(r)'
  BY <1>1, <1>8, <1>9 DEF Placed, Asked, Replied, HeardBy, Owner
<1>11. Proposed(r)' /\ Timed(r)'
  BY <1>1, <1>2, <1>6, <1>8 DEF Proposed, Timed, Asked, governed, port
<1> QED
  BY <1>1, <1>7, <1>10, <1>11, TurnOnly


\* A session is made for the thread the turn was on, or nothing changes: the
\* thread of a session that is updated is the one it has.
LEMMA SavedIs ==
  ASSUME ChatInv, NEW r \in Turns, Write(r)
  PROVE  \/ row' = row
         \/ /\ turn[r].named # none
            /\ row' = [row EXCEPT ![r] = [state |-> "bound", owner |-> Owner(turn[r].ctx),
                                          thread |-> turn[r].named]]
<1> DEFINE q == turn[r]
           s == q.row
<1>1. /\ q.pc = "write" /\ (row' = Saved(r) \/ row' = row)
      /\ q \in TurnType /\ Placed(r)
  BY OfTurn DEF Write
<1>2. ASSUME s # none, Bound(s), q.named # none PROVE [row EXCEPT ![s] = [@ EXCEPT !.thread = q.named]] = row
  <2>1. s \in Sessions /\ q.named = row[s].thread
    BY <1>1, <1>2 DEF Placed, Replied, TurnType
  <2>2. row \in [Sessions -> [state : {"none", "bound", "deleted", "purged"},
                             owner : Owners \cup {none}, thread : Threads \cup {none}]]
    BY DEF ChatInv, ChatTypeOK
  <2>3. [row[s] EXCEPT !.thread = q.named] = row[s]
    BY <2>1, <2>2
  <2> QED
    BY <2>1, <2>2, <2>3
<1> QED
  BY <1>1, <1>2 DEF Saved

LEMMA WriteIsTyped ==
  ASSUME NEW q \in TurnType, NEW c \in AllContexts, NEW tool \in {"none", "allowed", "refused"}
  PROVE  [q EXCEPT !.ctx = c, !.tool = tool] \in TurnType
BY Zenon DEF TurnType

LEMMA WriteKeeps ==
  ASSUME ChatInv, NEW r \in Turns, Write(r)
  PROVE  ChatInv'
<1> DEFINE q == turn[r]
<1>1. q.pc = "write" /\ UNCHANGED <<setting, account, thread, del, ticket>>
  BY DEF Write
<1>2. /\ q \in TurnType /\ Placed(r) /\ Proposed(r) /\ Timed(r) /\ ~token[r] /\ ticket[r] = none
      /\ r \in Sessions
  BY <1>1, OfTurn, ChatTypes DEF ChatInv
<1>3. /\ Known(q.ctx) /\ row[r].state = "none"
      /\ q.named # none => q.named \in Threads /\ (thread[q.named].strayed \/ thread[q.named].heard = {Owner(q.ctx)})
  BY <1>1, <1>2 DEF Placed, Replied, HeardBy, TurnType
<1>4. /\ Steady /\ \A s \in Sessions : s # r => row'[s] = row[s]
      /\ RowSound(r)'
      /\ row' \in [Sessions -> [state : {"none", "bound", "deleted", "purged"},
                                owner : Owners \cup {none}, thread : Threads \cup {none}]]
  <2>1. row \in [Sessions -> [state : {"none", "bound", "deleted", "purged"},
                             owner : Owners \cup {none}, thread : Threads \cup {none}]]
    BY DEF ChatInv, ChatTypeOK
  <2>2. CASE row' = row
    BY <1>1, <1>3, <2>1, <2>2 DEF Steady, RowSound
  <2>3. CASE row' # row
    <3>1. Owner(q.ctx) \in Owners
      BY <1>3 DEF Known, AllContexts, Owner, Owners
    <3>2. /\ q.named # none
          /\ row' = [row EXCEPT ![r] = [state |-> "bound", owner |-> Owner(q.ctx),
                                        thread |-> q.named]]
      BY <2>3, SavedIs
    <3>3. row'[r] = [state |-> "bound", owner |-> Owner(q.ctx), thread |-> q.named]
      BY <1>2, <2>1, <3>2
    <3>4. RowSound(r)'
      BY <1>1, <1>3, <3>1, <3>2, <3>3 DEF RowSound
    <3> QED
      BY <1>1, <1>2, <1>3, <2>1, <3>1, <3>2, <3>4 DEF Steady
  <2> QED
    BY <2>2, <2>3
<1>5. /\ turn' \in [Turns -> TurnType] /\ token' \in [Turns -> BOOLEAN]
      /\ \A t \in Turns : t # r => turn'[t] = turn[t] /\ token'[t] = token[t]
      /\ turn'[r].pc = "done" /\ turn'[r].sent = 0 /\ turn'[r].left = 0
      /\ turn'[r].ctx # none => Known(turn'[r].ctx)
      /\ token'[r] => /\ Known(turn'[r].ctx) /\ CanConfirm(turn'[r].ctx)
                      /\ governed => turn'[r].tool = "none"
  <2>1. token \in [Turns -> BOOLEAN] /\ turn \in [Turns -> TurnType]
    BY OfTurn DEF ChatInv, ChatTypeOK
  <2>2. At("done") \in TurnType
    BY AtIsTyped DEF Points
  <2>3. CASE Ends(r) /\ UNCHANGED token
    <3>1. turn'[r] = At("done")
      BY <2>1, <2>3 DEF Ends
    <3> QED
      BY <1>2, <2>1, <2>2, <2>3, <3>1 DEF Ends, At
  <2>4. CASE ~(Ends(r) /\ UNCHANGED token)
    <3> DEFINE p == [At("done") EXCEPT !.ctx = q.ctx, !.tool = q.tool]
    <3>1. PICK proposed \in Proposals(r) :
            /\ proposed /\ CanConfirm(q.ctx)
            /\ token' = [token EXCEPT ![r] = TRUE]
            /\ turn' = [turn EXCEPT ![r] = p]
      BY <2>4 DEF Write
    <3>2. governed => q.tool = "none"
      BY <1>1, <1>2, <3>1 DEF Proposals, MayHaveIntent, Proposed
    <3>3. p \in TurnType
      <4>1. q.ctx \in AllContexts /\ q.tool \in {"none", "allowed", "refused"}
        BY <1>2, <1>3 DEF TurnType, Known
      <4> QED
        BY <2>2, <4>1, WriteIsTyped
    <3>4. /\ p.pc = "done" /\ p.sent = 0 /\ p.left = 0 /\ p.ctx = q.ctx /\ p.tool = q.tool
      BY <2>2 DEF At
    <3>5. turn'[r] = p
      BY <2>1, <3>1
    <3> HIDE DEF p, q
    <3> QED
      BY <1>3, <2>1, <3>1, <3>2, <3>3, <3>4, <3>5
  <2> QED
    BY <2>3, <2>4
<1>6. \A t \in Turns : Placed(t)' /\ Proposed(t)' /\ Timed(t)'
  <2> SUFFICES ASSUME NEW t \in Turns PROVE Placed(t)' /\ Proposed(t)' /\ Timed(t)'
    OBVIOUS
  <2>1. CASE t = r
    BY <1>1, <1>2, <1>5, <2>1 DEF Placed, Proposed, Timed, Asked, Replied, governed
  <2>2. CASE t # r
    <3>1. row'[t] = row[t] /\ ticket'[t] = ticket[t]
      BY <1>1, <1>4, <2>2, ChatTypes DEF ChatInv
    <3> QED
      BY <1>4, <1>5, <2>2, <3>1, TurnStays
  <2> QED
    BY <2>1, <2>2
<1>7. ChatTypeOK'
  BY <1>1, <1>4, <1>5 DEF ChatInv, ChatTypeOK, TurnType
<1>8. \A s \in Sessions : RowSound(s)'
  BY <1>4, RowStays DEF ChatInv
<1>9. (\A d \in Deletes : DelSound(d)') /\ \A h \in Threads : OneOwner(h)'
  BY <1>1, <1>4, DelStays, ThreadsAre DEF OneOwner
<1> QED
  BY <1>6, <1>7, <1>8, <1>9 DEF ChatInv

-----------------------------------------------------------------------------
(* The other steps.                                                        *)

LEMMA AsideKeeps ==
  ASSUME ChatInv, Steady, UNCHANGED <<turn, token, ticket>>,
         thread' \in [Threads -> ThreadType], \A h \in Threads : OneOwner(h)',
         account' \in [Users -> Roles],
         row' \in [Sessions -> [state : {"none", "bound", "deleted", "purged"},
                                owner : Owners \cup {none}, thread : Threads \cup {none}]],
         \A s \in Sessions : row'[s] = row[s] \/ (row[s].state # "none" /\ RowSound(s)'),
         del' \in [Deletes -> [pc : {"new", "remote", "local", "done"},
                               by : {"owner", "superadmin"}, row : Sessions \cup {none}]],
         \A d \in Deletes : del'[d] = del[d] \/ DelSound(d)'
  PROVE  ChatInv'
<1>1. ChatTypeOK'
  BY DEF ChatInv, ChatTypeOK, Steady, ThreadType
<1>2. \A r \in Turns : Placed(r)' /\ Proposed(r)' /\ Timed(r)'
  <2> SUFFICES ASSUME NEW r \in Turns PROVE Placed(r)' /\ Proposed(r)' /\ Timed(r)'
    OBVIOUS
  <2>1. r \in Sessions /\ Placed(r)
    BY ChatTypes DEF ChatInv
  <2>2. CASE row'[r] = row[r]
    BY <2>2, TurnStays
  <2>3. CASE turn[r].pc = "done"
    <3>1. Placed(r)'
      BY <2>1, <2>3 DEF Placed, Asked, Replied
    <3>2. Proposed(r)' /\ Timed(r)'
      BY DEF ChatInv, Proposed, Timed, Steady, governed, port
    <3> QED
      BY <3>1, <3>2
  <2> QED
    BY <2>1, <2>2, <2>3 DEF Placed
<1>3. \A s \in Sessions : RowSound(s)'
  BY RowStays DEF ChatInv
<1>4. \A d \in Deletes : DelSound(d)'
  BY DelStays
<1> QED
  BY <1>1, <1>2, <1>3, <1>4 DEF ChatInv

LEMMA ThreadsRest ==
  ASSUME ChatInv, UNCHANGED <<setting, row, thread>>
  PROVE  /\ Steady /\ thread' \in [Threads -> ThreadType]
         /\ \A h \in Threads : OneOwner(h)'
BY ThreadsAre DEF Steady, OneOwner

LEMMA RunEndsKeeps ==
  ASSUME ChatInv, NEW h \in Threads, RunEnds(h)
  PROVE  ChatInv'
<1>1. Idle(h) /\ UNCHANGED <<setting, account, row, turn, del, token, ticket>>
  BY DEF RunEnds
<1>2. /\ Steady /\ thread' \in [Threads -> ThreadType]
      /\ \A g \in Threads : OneOwner(g)'
  BY <1>1, IdleIsSteady
<1> QED
  BY <1>1, <1>2, AsideKeeps DEF ChatInv, ChatTypeOK

LEMMA ChangeRoleKeeps ==
  ASSUME ChatInv, NEW u \in Users, ChangeRole(u)
  PROVE  ChatInv'
<1>1. UNCHANGED <<setting, row, thread, turn, del, token, ticket>>
  BY DEF ChangeRole
<1>2. account' \in [Users -> Roles]
  BY DEF ChangeRole, ChatInv, ChatTypeOK, Roles
<1> QED
  BY <1>1, <1>2, ThreadsRest, AsideKeeps DEF ChatInv, ChatTypeOK

\* The token is used by the context it was made for.
LEMMA ConfirmKeeps ==
  ASSUME ChatInv, NEW r \in Turns, Confirm(r)
  PROVE  ChatInv'
<1>1. UNCHANGED <<setting, account, row, thread, turn, del, token>> /\ token[r]
  BY DEF Confirm
<1>2. PICK u \in Users : \E c \in Contexts(u) :
        CanConfirm(c) /\ SameContext(r, c) /\ ticket' = [ticket EXCEPT ![r] = c]
  BY DEF Confirm
<1>3. PICK c \in Contexts(u) :
        CanConfirm(c) /\ SameContext(r, c) /\ ticket' = [ticket EXCEPT ![r] = c]
  BY <1>2
<1>4. Known(c) /\ Known(turn[r].ctx)
  BY <1>1, ContextsAre, OfTurn DEF ChatInv, Placed, Proposed
<1>5. c = turn[r].ctx
  BY <1>3, <1>4 DEF Known, SameContext, AllContexts
<1>6. ticket' \in [Turns -> AllContexts \cup {none}] /\ ticket'[r] = c
      /\ \A t \in Turns : t # r => ticket'[t] = ticket[t]
  BY <1>3, <1>4 DEF ChatInv, ChatTypeOK, Known
<1>7. ChatTypeOK'
  BY <1>1, <1>6 DEF ChatInv, ChatTypeOK
<1>8. Steady /\ \A h \in Threads : OneOwner(h)'
  BY <1>1, ThreadsRest
<1>9. \A t \in Turns : Placed(t)' /\ Proposed(t)' /\ Timed(t)'
  <2> SUFFICES ASSUME NEW t \in Turns PROVE Placed(t)' /\ Proposed(t)' /\ Timed(t)'
    OBVIOUS
  <2>1. CASE t = r
    <3>1. Placed(r) /\ Proposed(r) /\ Timed(r)
      BY DEF ChatInv
    <3> QED
      BY <1>1, <1>5, <1>6, <2>1, <3>1 DEF Placed, Proposed, Timed, HeardBy, governed, port
  <2>2. CASE t # r
    BY <1>1, <1>6, <1>8, <2>2, TurnStays
  <2> QED
    BY <2>1, <2>2
<1>10. (\A s \in Sessions : RowSound(s)') /\ \A d \in Deletes : DelSound(d)'
  BY <1>1, <1>8, RowStays, DelStays DEF ChatInv
<1> QED
  BY <1>7, <1>8, <1>9, <1>10 DEF ChatInv


-----------------------------------------------------------------------------
(* Deletions.                                                              *)

DelType == [pc : {"new", "remote", "local", "done"}, by : {"owner", "superadmin"},
            row : Sessions \cup {none}]

\* A step of a deletion that leaves the rows alone.
LEMMA DelGoesKeeps ==
  ASSUME ChatInv, Steady, NEW d \in Deletes, NEW e \in DelType,
         del' = [del EXCEPT ![d] = e], DelSound(d)',
         UNCHANGED <<account, row, turn, token, ticket>>,
         thread' \in [Threads -> ThreadType], \A h \in Threads : OneOwner(h)'
  PROVE  ChatInv'
<1>1. /\ del' \in [Deletes -> DelType]
      /\ \A x \in Deletes : x # d => del'[x] = del[x]
  BY DEF ChatInv, ChatTypeOK, DelType
<1>2. /\ account' \in [Users -> Roles]
      /\ row' \in [Sessions -> [state : {"none", "bound", "deleted", "purged"},
                                owner : Owners \cup {none}, thread : Threads \cup {none}]]
  BY DEF ChatInv, ChatTypeOK
<1> QED
  BY <1>1, <1>2, AsideKeeps DEF DelType

LEMMA OfDel ==
  ASSUME ChatInv, NEW d \in Deletes
  PROVE  del \in [Deletes -> DelType] /\ del[d] \in DelType /\ DelSound(d)
BY DEF ChatInv, ChatTypeOK, DelType

LEMMA DelEndIsSound ==
  ASSUME ChatInv, NEW d \in Deletes, DelEnds(d)
  PROVE  \E e \in DelType : del' = [del EXCEPT ![d] = e] /\ DelSound(d)'
<1> DEFINE e == [pc |-> "done", by |-> "owner", row |-> none]
<1>1. e \in DelType /\ del' = [del EXCEPT ![d] = e]
  BY DEF DelType, DelEnds
<1>2. del'[d].pc = "done"
  BY <1>1, OfDel
<1>3. DelSound(d)'
  BY <1>2 DEF DelSound
<1> QED
  BY <1>1, <1>3

LEMMA StartDeleteKeeps ==
  ASSUME ChatInv, NEW d \in Deletes, StartDelete(d)
  PROVE  ChatInv'
<1>1. UNCHANGED <<setting, account, row, thread, turn, token, ticket>>
  BY DEF StartDelete
<1>2. PICK s \in Sessions, by \in {"owner", "superadmin"} :
        Bound(s) /\ del' = [del EXCEPT ![d] = [pc |-> "remote", by |-> by, row |-> s]]
  BY DEF StartDelete, Owned
<1> DEFINE e == [pc |-> "remote", by |-> by, row |-> s]
<1>3. e \in DelType /\ del'[d] = e
  BY <1>2, OfDel DEF DelType
<1>4. e.pc = "remote" /\ e.row = s /\ row'[s].state # "none"
  BY <1>1, <1>2 DEF Bound
<1>5. DelSound(d)'
  BY <1>3, <1>4 DEF DelSound
<1> QED
  BY <1>1, <1>2, <1>3, <1>5, ThreadsRest, DelGoesKeeps

LEMMA RemoteDeleteKeeps ==
  ASSUME ChatInv, NEW d \in Deletes, RemoteDelete(d)
  PROVE  ChatInv'
<1> DEFINE h == row[del[d].row].thread
           gone == thread' = [thread EXCEPT ![h] = [@ EXCEPT !.state = "deleted"]]
           s == del[d].row
           e == [del[d] EXCEPT !.pc = "local"]
<1>1. /\ del[d].pc = "remote" /\ UNCHANGED <<setting, account, row, turn, token, ticket>>
      /\ gone \/ UNCHANGED thread
      /\ \/ DelEnds(d)
         \/ DelGoes(d, "local") /\ (gone \/ ~KeptOnFailure(d))
  BY DEF RemoteDelete
<1>2. /\ del[d] \in DelType /\ s \in Sessions /\ row[s].state # "none" /\ RowSound(s)
      /\ h \in Threads
  BY <1>1, OfDel DEF DelSound, RowSound, ChatInv
<1>3. /\ Steady /\ thread' \in [Threads -> ThreadType] /\ (\A g \in Threads : OneOwner(g)')
      /\ gone => thread'[h].state = "deleted"
  <2>1. CASE UNCHANGED thread
    <3>1. gone => thread'[h].state = "deleted"
      BY <1>2, ThreadsAre, ZenonT(60) DEF ThreadType
    <3> QED
      BY <1>1, <2>1, <3>1, ThreadsRest
  <2>2. CASE gone
    <3>1. /\ thread' \in [Threads -> ThreadType]
          /\ thread'[h].state = "deleted" /\ thread'[h].heard = thread[h].heard
          /\ thread'[h].strayed = thread[h].strayed
          /\ \A g \in Threads : g # h => thread'[g] = thread[g]
      BY <1>2, <2>2, ThreadsAre, ZenonT(60) DEF ThreadType
    <3>2. \A g \in Threads : /\ thread'[g].heard = thread[g].heard
                             /\ thread'[g].strayed = thread[g].strayed
                             /\ thread[g].state = "deleted" => thread'[g].state = "deleted"
      BY <3>1
    <3>3. \A g \in Threads : OneOwner(g)'
      <4> SUFFICES ASSUME NEW g \in Threads PROVE OneOwner(g)'
        OBVIOUS
      <4>1. OneOwner(g)
        BY ThreadsAre
      <4>2. CASE g = h
        <5>1. thread'[g].state # "none"
          BY <3>1, <4>2
        <5> QED
          BY <3>2, <4>1, <5>1 DEF OneOwner
      <4>3. CASE g # h
        BY <3>1, <4>1, <4>3 DEF OneOwner
      <4> QED
        BY <4>2, <4>3
    <3>4. Steady
      BY <1>1, <3>2 DEF Steady
    <3> QED
      BY <3>1, <3>3, <3>4
  <2> QED
    BY <1>1, <2>1, <2>2
<1> HIDE DEF gone
<1>4. CASE DelEnds(d)
  BY <1>1, <1>3, <1>4, DelEndIsSound, DelGoesKeeps
<1>5. CASE DelGoes(d, "local") /\ (gone \/ ~KeptOnFailure(d))
  <2>1. e \in DelType /\ del' = [del EXCEPT ![d] = e] /\ del'[d] = e
    BY <1>2, <1>5, OfDel DEF DelGoes, DelType
  <2>2. e.pc = "local" /\ e.by = del[d].by /\ e.row = s
    BY <1>2 DEF DelType
  <2>3. row' = row /\ setting' = setting
    BY <1>1
  <2>4. del[d].by = "owner" /\ capabilities => thread'[h].state = "deleted"
    BY <1>3, <1>5 DEF KeptOnFailure
  <2>5. DelSound(d)'
    BY <1>2, <2>1, <2>2, <2>3, <2>4 DEF DelSound, capabilities
  <2> QED
    BY <1>1, <1>3, <2>1, <2>5, DelGoesKeeps
<1> QED
  BY <1>1, <1>4, <1>5

LEMMA LocalDeleteKeeps ==
  ASSUME ChatInv, NEW d \in Deletes, LocalDelete(d)
  PROVE  ChatInv'
<1>0. PICK s \in Sessions, state \in {"deleted", "purged"} :
        s = del[d].row /\ state = IF del[d].by = "owner" THEN "deleted" ELSE "purged"
  BY OfDel DEF LocalDelete, DelSound
<1>1. /\ del[d].pc = "local" /\ DelEnds(d)
      /\ UNCHANGED <<setting, account, thread, turn, token, ticket>>
      /\ \/ row' = row
         \/ Bound(s) /\ row' = [row EXCEPT ![s] = [@ EXCEPT !.state = state]]
  BY <1>0 DEF LocalDelete
<1>2. PICK e \in DelType : del' = [del EXCEPT ![d] = e] /\ DelSound(d)'
  BY <1>1, DelEndIsSound
<1>3. CASE row' = row
  BY <1>1, <1>2, <1>3, ThreadsRest, DelGoesKeeps
<1>4. CASE Bound(s) /\ row' = [row EXCEPT ![s] = [@ EXCEPT !.state = state]]
  <2>1. s \in Sessions /\ row[s].state # "none" /\ RowSound(s) /\ DelSound(d)
    BY <1>0, <1>1, OfDel DEF DelSound, ChatInv
  <2>2. row \in [Sessions -> [state : {"none", "bound", "deleted", "purged"},
                             owner : Owners \cup {none}, thread : Threads \cup {none}]]
    BY DEF ChatInv, ChatTypeOK
  <2>3. /\ row' \in [Sessions -> [state : {"none", "bound", "deleted", "purged"},
                                  owner : Owners \cup {none}, thread : Threads \cup {none}]]
        /\ \A x \in Sessions : x # s => row'[x] = row[x]
        /\ row'[s].state = state /\ row'[s].owner = row[s].owner
        /\ row'[s].thread = row[s].thread
    BY <1>4, <2>1, <2>2
  <2>4. RowSound(s)'
    <3>1. state = "deleted" /\ capabilities => thread[row[s].thread].state = "deleted"
      BY <1>0, <1>1, <2>1 DEF DelSound
    <3>2. thread' = thread /\ setting' = setting
      BY <1>1
    <3> QED
      BY <2>1, <2>3, <3>1, <3>2 DEF RowSound, capabilities
  <2>5. Steady
    BY <1>1, <2>1, <2>3 DEF Steady
  <2>6. thread' \in [Threads -> ThreadType] /\ \A g \in Threads : OneOwner(g)'
    BY <1>1, ThreadsAre DEF OneOwner
  <2>7. /\ del' \in [Deletes -> DelType] /\ \A x \in Deletes : x # d => del'[x] = del[x]
        /\ account' \in [Users -> Roles]
    BY <1>1, <1>2, OfDel DEF ChatInv, ChatTypeOK
  <2>8. \A x \in Sessions : row'[x] = row[x] \/ (row[x].state # "none" /\ RowSound(x)')
    BY <2>1, <2>3, <2>4
  <2>9. \A x \in Deletes : del'[x] = del[x] \/ DelSound(x)'
    BY <1>2, <2>7
  <2> QED
    BY <1>1, <2>3, <2>5, <2>6, <2>7, <2>8, <2>9, AsideKeeps DEF DelType
<1> QED
  BY <1>1, <1>3, <1>4

-----------------------------------------------------------------------------
(* The invariant, and the theorems.                                        *)

LEMMA ChatBeginnings == ChatInit => ChatInv
<1> SUFFICES ASSUME ChatInit PROVE ChatInv
  OBVIOUS
<1>1. PICK at \in [Earlier -> Threads], of \in [Earlier -> Owners] :
        /\ \A e, f \in Earlier : at[e] = at[f] => e = f
        /\ row = [s \in Sessions |->
             IF s \in Earlier THEN [state |-> "bound", owner |-> of[s], thread |-> at[s]]
             ELSE [state |-> "none", owner |-> none, thread |-> none]]
        /\ thread = [h \in Threads |->
             LET on == {e \in Earlier : at[e] = h} IN
             [state |-> IF on = {} THEN "none" ELSE "open", busy |-> FALSE,
              heard |-> {of[e] : e \in on}, strayed |-> FALSE]]
  BY DEF ChatInit
<1>2. /\ setting \in Settings /\ account \in [Users -> {"USER", "ADMIN", "ADMIN_XOC"}]
      /\ turn = [r \in Turns |-> At("new")]
      /\ del = [d \in Deletes |-> [pc |-> "new", by |-> "owner", row |-> none]]
      /\ token = [r \in Turns |-> FALSE] /\ ticket = [r \in Turns |-> none]
  BY DEF ChatInit
<1>3. turn \in [Turns -> TurnType]
  BY <1>2, AtIsTyped DEF Points
<1>4. /\ \A h \in Threads : /\ thread[h].state \in {"none", "open", "deleted"}
                           /\ thread[h].busy \in BOOLEAN /\ thread[h].heard \in SUBSET Owners
                           /\ thread[h].strayed \in BOOLEAN /\ OneOwner(h)
      /\ thread \in [Threads -> ThreadType]
  <2> SUFFICES ASSUME NEW h \in Threads
               PROVE  thread[h] \in ThreadType /\ OneOwner(h)
    BY <1>1 DEF ThreadType
  <2> DEFINE on == {e \in Earlier : at[e] = h}
  <2>1. thread[h] = [state |-> IF on = {} THEN "none" ELSE "open", busy |-> FALSE,
                     heard |-> {of[e] : e \in on}, strayed |-> FALSE]
    BY <1>1
  <2>2. on = {} \/ \E e \in Earlier : on = {e}
    BY <1>1
  <2>3. thread[h] \in ThreadType
    BY <1>1, <2>1 DEF ThreadType
  <2>4. OneOwner(h)
    <3>1. CASE on = {}
      BY <2>1, <3>1 DEF OneOwner
    <3>2. CASE on # {}
      <4>1. PICK e \in Earlier : on = {e}
        BY <2>2, <3>2
      <4> HIDE DEF on
      <4>2. thread[h].heard = {of[e]} /\ of[e] \in Owners /\ thread[h].state = "open"
        BY <1>1, <2>1, <4>1, <3>2, ZenonT(60)
      <4> QED
        BY <4>2 DEF OneOwner
    <3> QED
      BY <3>1, <3>2
  <2> QED
    BY <2>3, <2>4
<1>5. row \in [Sessions -> [state : {"none", "bound", "deleted", "purged"},
                           owner : Owners \cup {none}, thread : Threads \cup {none}]]
  BY <1>1
<1>6. ASSUME NEW s \in Sessions PROVE RowSound(s)
  <2>1. CASE s \in Earlier
    <3> DEFINE on == {e \in Earlier : at[e] = at[s]}
    <3>1. row[s] = [state |-> "bound", owner |-> of[s], thread |-> at[s]]
      BY <1>1, <2>1
    <3>2. on = {s} /\ at[s] \in Threads /\ of[s] \in Owners
      BY <1>1, <2>1
    <3>3. thread[at[s]].heard = {of[e] : e \in on}
      BY <1>1, <3>2
    <3>4. thread[at[s]].heard = {of[s]}
      BY <3>2, <3>3
    <3> QED
      BY <3>1, <3>2, <3>4 DEF RowSound
  <2>2. CASE s \notin Earlier
    BY <1>1, <2>2 DEF RowSound
  <2> QED
    BY <2>1, <2>2
<1>7. ASSUME NEW r \in Turns PROVE Placed(r) /\ Proposed(r) /\ Timed(r)
  <2>1. turn[r] = At("new") /\ ~token[r] /\ ticket[r] = none
    BY <1>2
  <2>2. row[r].state = "none"
    BY <1>1, ChatAssumption DEF Sessions
  <2> QED
    BY <2>1, <2>2 DEF Placed, Proposed, Timed, At, Asked, Replied
<1>8. ASSUME NEW d \in Deletes PROVE DelSound(d)
  BY <1>2 DEF DelSound
<1>9. ChatTypeOK
  BY <1>2, <1>3, <1>4, <1>5 DEF ChatTypeOK, TurnType, ThreadType, Roles
<1> QED
  BY <1>4, <1>6, <1>7, <1>8, <1>9 DEF ChatInv

LEMMA ChatStep == ChatInv /\ [ChatNext]_chatVars => ChatInv'
<1> SUFFICES ASSUME ChatInv, [ChatNext]_chatVars PROVE ChatInv'
  OBVIOUS
<1>1. ASSUME NEW r \in Turns, Accept(r) \/ Serve(r) \/ Confirm(r) PROVE ChatInv'
  BY <1>1, AcceptKeeps, PostKeeps, RetryKeeps, ReplyKeeps, ErrorAndLateKeep, RunToolKeeps,
     ContinueKeeps, WriteKeeps, ConfirmKeeps DEF Serve
<1>2. ASSUME NEW d \in Deletes, Remove(d) PROVE ChatInv'
  BY <1>2, StartDeleteKeeps, RemoteDeleteKeeps, LocalDeleteKeeps DEF Remove
<1>3. ASSUME NEW h \in Threads, RunEnds(h) PROVE ChatInv'
  BY <1>3, RunEndsKeeps
<1>4. ASSUME NEW u \in Users, ChangeRole(u) PROVE ChatInv'
  BY <1>4, ChangeRoleKeeps
<1>5. CASE UNCHANGED chatVars
  <2>1. ChatTypeOK'
    BY <1>5 DEF chatVars, ChatInv, ChatTypeOK
  <2>2. \A h \in Threads : OneOwner(h)'
    BY <1>5 DEF chatVars, ChatInv, OneOwner
  <2>3. \A s \in Sessions : RowSound(s)'
    BY <1>5 DEF chatVars, ChatInv, RowSound, capabilities
  <2>4. \A r \in Turns : Placed(r)' /\ Proposed(r)' /\ Timed(r)'
    BY <1>5 DEF chatVars, ChatInv, Placed, Proposed, Timed, HeardBy, governed, capabilities, port
  <2>5. \A d \in Deletes : DelSound(d)'
    BY <1>5 DEF chatVars, ChatInv, DelSound, capabilities
  <2> QED
    BY <2>1, <2>2, <2>3, <2>4, <2>5 DEF ChatInv
<1> QED
  BY <1>1, <1>2, <1>3, <1>4, <1>5 DEF ChatNext

THEOREM ChatSound == ChatSpec => []ChatInv
<1> QED
  BY ChatBeginnings, ChatStep, PTL DEF ChatSpec

\* Every variable keeps its type; a message is tried Retries times at most.
THEOREM ChatTyped == ChatSpec => []ChatTypeOK
<1>1. ChatInv => ChatTypeOK
  BY DEF ChatInv
<1> QED
  BY <1>1, ChatSound, PTL

\* The messages of a thread are one owner's, for every number of users,
\* tenants, sessions and turns and whatever thread the runtime's answers name,
\* unless it gave a thread to another while no session was bound to it; and a
\* turn puts its message on a thread at most once.
THEOREM MessagesStay == ChatSpec => []MessagesInPlace
<1>1. ChatInv => MessagesInPlace
  <2> SUFFICES ASSUME ChatInv PROVE MessagesInPlace
    OBVIOUS
  <2>1. ASSUME NEW h \in Threads, ~thread[h].strayed PROVE Cardinality(thread[h].heard) <= 1
    <3>1. CASE thread[h].heard = {}
      BY <3>1, FS_EmptySet
    <3>2. CASE thread[h].heard # {}
      <4>1. PICK o : thread[h].heard = {o}
        BY <2>1, <3>2 DEF ChatInv, OneOwner
      <4> QED
        BY <4>1, FS_Singleton, SMTT(30)
    <3> QED
      BY <3>1, <3>2
  <2>2. \A r \in Turns : turn[r].sent <= 1
    BY DEF ChatInv, Placed
  <2> QED
    BY <2>1, <2>2 DEF MessagesInPlace, ThreadsKeepApart, OneMessagePerTurn
<1> QED
  BY <1>1, ChatSound, PTL

\* A session its owner deleted leaves no thread behind, whichever request or
\* commit fails and whatever turn is under way.
THEOREM DeletedThreads == ChatSpec => []DeletedWithThread
<1>1. ChatInv => DeletedWithThread
  BY DEF ChatInv, RowSound, DeletedWithThread
<1> QED
  BY <1>1, ChatSound, PTL

\* A ticket is confirmed in the context it was proposed in, whatever roles
\* change meanwhile, and none comes of a governed turn that executed a tool.
THEOREM TicketsOwned == ChatSpec => []TicketIsOwned
<1>1. ChatInv => TicketIsOwned
  BY DEF ChatInv, Proposed, TicketIsOwned
<1> QED
  BY <1>1, ChatSound, PTL

\* As long as answers come whole, no turn consumes more time than it has, for
\* all caps and budgets.
THEOREM TurnsInBudget ==
  ASSUME "trickle" \notin Faults
  PROVE  ChatSpec => []TurnWithinBudget
<1>1. ChatInv => TurnWithinBudget
  BY DEF ChatInv, Timed, TurnWithinBudget
<1> QED
  BY <1>1, ChatSound, PTL

-----------------------------------------------------------------------------
(* ToolPolicy: what a tool may do that is executed for a turn.             *)

\* The tenant of a context is the caller's own, or one he is delegated to.
Entitled(c) == c.delegated \/ c.tenant = c.home

\* A turn that is about to execute a tool knows for whom and which.
Asking(r) ==
  LET q == turn[r] IN
  /\ q.pc \notin {"new", "done"} => Entitled(q.ctx)
  /\ q.pc = "tool" => q.ask \in Asks

ToolInv == ChatInv /\ \A r \in Turns : Asking(r)

\* The policy lets through what it has no ground to refuse.
LEMMA AllowedHasNoGround ==
  ASSUME NEW c, NEW ask, Evaluate(c, ask) = "allowed"
  PROVE  \A i \in 1..11 : ~Grounds(c, ask)[i][1]
<1> DEFINE grounds == Grounds(c, ask)
           holding == {i \in DOMAIN grounds : grounds[i][1]}
           first == CHOOSE i \in holding : \A j \in holding : i <= j
<1>1. DOMAIN grounds = 1..11
  BY DEF Grounds
<1>2. \A i \in 1..11 : grounds[i][2] # "allowed"
  <2> SUFFICES ASSUME NEW i \in 1..11 PROVE grounds[i][2] # "allowed"
    OBVIOUS
  <2>1. i \in {1, 2, 3, 4, 5, 6, 7, 8, 9, 10, 11}
    OBVIOUS
  <2> QED
    BY <2>1 DEF Grounds
<1>3. Evaluate(c, ask) = IF holding = {} THEN "allowed" ELSE grounds[first][2]
  BY DEF Evaluate
<1>4. holding \in SUBSET (1..11)
  BY <1>1
<1> HIDE DEF holding
<1>5. ASSUME holding # {} PROVE first \in holding
  <2>1. PICK k \in holding : TRUE
    BY <1>5
  <2>2. k \in {1, 2, 3, 4, 5, 6, 7, 8, 9, 10, 11} /\ holding \subseteq 1..11
    BY <1>4, <2>1
  <2>3. \E i \in holding : \A j \in holding : i <= j
    BY <2>1, <2>2, SMTT(30)
  <2> QED
    BY <2>3
<1> HIDE DEF first, grounds
<1>6. holding = {}
  BY <1>2, <1>3, <1>4, <1>5
<1> QED
  BY <1>1, <1>6 DEF holding, grounds

\* Whatever is executed over a port is a read, for somebody who may read.
LEMMA PortsOnlyRead ==
  ASSUME NEW c \in AllContexts, NEW ask \in [tool : Tools \cup {"unknown"}, args : Arguments],
         NEW way \in Ports, "allowed" \in ExecutedBy(way, c, ask)
  PROVE  /\ ask.tool \in Readers /\ ask.args = "good" /\ c.role \in AllowedRoles
         /\ c.role = "ADMIN_XOC" => c.delegated
         /\ way \in {"direct", "agentcore"}
<1>1. way \in {"direct", "agentcore"}
  BY DEF ExecutedBy, Ports
<1>2. Evaluate(c, ask) = "allowed"
  <2>1. CASE way = "direct"
    BY <2>1 DEF ExecutedBy, Executed
  <2>2. CASE way = "agentcore"
    BY <2>2 DEF ExecutedBy, ExecutedRemotely
  <2> QED
    BY <1>1, <2>1, <2>2
<1>3. ask.args # "wrong"
  <2>1. "allowed" \in Executed(c, ask)
    <3>1. CASE way = "direct"
      BY <3>1 DEF ExecutedBy
    <3>2. CASE way = "agentcore"
      <4>1. "allowed" \in ExecutedRemotely(c, ask)
        BY <3>2 DEF ExecutedBy
      <4> QED
        BY <1>2, <4>1 DEF ExecutedRemotely
    <3> QED
      BY <1>1, <3>1, <3>2
  <2> QED
    BY <1>2, <2>1 DEF Executed, Handled
<1>4. \A i \in 1..11 : ~Grounds(c, ask)[i][1]
  BY <1>2, AllowedHasNoGround
<1>5. /\ ask.args # "list" /\ ~HasOwnershipArgument(ask)
      /\ Access(ask.tool) \notin {"DESTRUCTIVE_BLOCKED", "WRITE_REQUIRES_APPROVAL", "WRITE_SAFE"}
      /\ ask.tool \in Tools /\ Enabled(ask.tool)
      /\ c.role \in AllowedRoles /\ ~Undelegated(c)
  <2>1. /\ ~Grounds(c, ask)[1][1] /\ ~Grounds(c, ask)[2][1] /\ ~Grounds(c, ask)[3][1]
        /\ ~Grounds(c, ask)[6][1] /\ ~Grounds(c, ask)[7][1] /\ ~Grounds(c, ask)[8][1]
        /\ ~Grounds(c, ask)[9][1] /\ ~Grounds(c, ask)[10][1] /\ ~Grounds(c, ask)[11][1]
    BY <1>4
  <2> QED
    BY <2>1 DEF Grounds
<1>6. ask.tool \in Readers
  BY <1>5 DEF Tools, Access, Enabled
<1>7. ask.args = "good"
  BY <1>3, <1>5 DEF Arguments, HasOwnershipArgument
<1> QED
  BY <1>1, <1>5, <1>6, <1>7 DEF Undelegated

\* A step after which a turn that goes on has the context it had, one that
\* runs a tool a request SOPHIA made, and none another result than it had.
Continues(q, p) ==
  /\ p.pc \notin {"new", "done"} => q.pc \notin {"new", "done"} /\ p.ctx = q.ctx
  /\ p.pc = "tool" => (q.pc = "tool" /\ p.ask = q.ask) \/ p.ask \in Asks
  /\ p.tool \in {q.tool, "none"}

LEMMA EndContinues ==
  ASSUME NEW r \in Turns
  PROVE  Continues(turn[r], At("done"))
BY DEF Continues, At

LEMMA OthersContinue ==
  ASSUME ChatInv, NEW r \in Turns, NEW p, turn' = [turn EXCEPT ![r] = p],
         Continues(turn[r], p)
  PROVE  \A t \in Turns : Continues(turn[t], turn'[t])
<1>1. turn'[r] = p /\ \A t \in Turns : t # r => turn'[t] = turn[t]
  BY OfTurn
<1> QED
  BY <1>1 DEF Continues

LEMMA EndsContinue ==
  ASSUME ChatInv, NEW r \in Turns, Ends(r)
  PROVE  \A t \in Turns : Continues(turn[t], turn'[t])
BY EndContinues, OthersContinue DEF Ends

LEMMA GoesContinue ==
  ASSUME ChatInv, NEW r \in Turns, NEW pc, pc # "tool", Goes(r, pc), turn[r].pc = "post"
  PROVE  \A t \in Turns : Continues(turn[t], turn'[t])
<1> DEFINE q == turn[r]
           p == [q EXCEPT !.pc = pc]
<1>1. turn' = [turn EXCEPT ![r] = p]
  BY DEF Goes
<1>2. p.pc = pc /\ p.ctx = q.ctx /\ p.tool = q.tool
  BY OfTurn DEF TurnType
<1> HIDE DEF p, q
<1>3. q.pc = "post"
  BY DEF q
<1>4. Continues(q, p)
  BY <1>2, <1>3 DEF Continues
<1> QED
  BY <1>1, <1>4, OthersContinue DEF q

LEMMA PostContinues ==
  ASSUME ChatInv, NEW r \in Turns, Post(r) \/ Retry(r)
  PROVE  \A t \in Turns : Continues(turn[t], turn'[t])
<1> DEFINE q == turn[r]
<1>1. ASSUME NEW h, Hears(r, h), q.pc = "post" PROVE \A t \in Turns : Continues(turn[t], turn'[t])
  <2> DEFINE p == [q EXCEPT !.pc = "first", !.on = h, !.sent = q.sent + 1]
  <2>1. turn' = [turn EXCEPT ![r] = p]
    BY <1>1 DEF Hears
  <2>2. p.pc = "first" /\ p.ctx = q.ctx /\ p.tool = q.tool
    BY OfTurn DEF TurnType
  <2> HIDE DEF p, q
  <2>3. Continues(q, p)
    BY <1>1, <2>2 DEF Continues
  <2> QED
    BY <2>1, <2>3, OthersContinue DEF q
<1>2. CASE Post(r)
  <2>1. /\ q.pc = "post"
        /\ Ends(r) \/ Goes(r, "active") \/ \E h : Hears(r, h)
    BY <1>2 DEF Post
  <2> QED
    BY <1>1, <2>1, EndsContinue, GoesContinue
<1>3. CASE Retry(r)
  <2>1. Ends(r) \/ turn' = [turn EXCEPT ![r] = [q EXCEPT !.pc = "post", !.tries = q.tries + 1]]
    BY <1>3 DEF Retry
  <2>2. CASE turn' = [turn EXCEPT ![r] = [q EXCEPT !.pc = "post", !.tries = q.tries + 1]]
    <3> DEFINE p == [q EXCEPT !.pc = "post", !.tries = q.tries + 1]
    <3>1. p.pc = "post" /\ p.ctx = q.ctx /\ p.tool = q.tool
      BY OfTurn DEF TurnType
    <3>2. turn' = [turn EXCEPT ![r] = p] /\ q.pc = "active"
      BY <1>3, <2>2 DEF Retry
    <3> HIDE DEF p, q
    <3>3. Continues(q, p)
      BY <3>1, <3>2 DEF Continues
    <3> QED
      BY <3>2, <3>3, OthersContinue DEF q
  <2> QED
    BY <2>1, <2>2, EndsContinue
<1> QED
  BY <1>2, <1>3

LEMMA ReplyContinues ==
  ASSUME ChatInv, NEW r \in Turns, Reply(r)
  PROVE  \A t \in Turns : Continues(turn[t], turn'[t])
<1> DEFINE q == turn[r]
<1>1. PICK named \in Named(r), ask \in Asks \cup {none}, plan \in BOOLEAN,
           time \in IF governed THEN Durations(Least(FirstCap, q.left)) ELSE {0} :
        IF ~Accepts(q.ctx, q.thread, named) \/ (ask # none /\ governed /\ named = none)
        THEN Ends(r) /\ Idle(q.on)
        ELSE /\ Takes(r, named)
             /\ turn' = [turn EXCEPT ![r] =
                  [@ EXCEPT !.pc = IF ask = none THEN "write" ELSE "tool",
                            !.on = none, !.thread = none, !.tries = 0,
                            !.named = named, !.ask = ask, !.plan = plan,
                            !.left = IF ask = none THEN Kept(q.left - time)
                                                   ELSE q.left - time]]
  BY DEF Reply
<1> DEFINE pc == IF ask = none THEN "write" ELSE "tool"
           n == IF ask = none THEN Kept(q.left - time) ELSE q.left - time
           p == [q EXCEPT !.pc = pc, !.on = none, !.thread = none, !.tries = 0,
                          !.named = named, !.ask = ask, !.plan = plan, !.left = n]
<1>2. CASE Ends(r)
  BY <1>2, EndsContinue
<1>3. CASE turn' = [turn EXCEPT ![r] = p]
  <2>1. p.pc = pc /\ p.ctx = q.ctx /\ p.tool = q.tool /\ p.ask = ask
    <3> HIDE DEF pc, n
    <3> QED
      BY OfTurn, Zenon DEF TurnType
  <2>2. q.pc = "first" /\ (pc = "tool" => ask \in Asks)
    BY DEF Reply
  <2> HIDE DEF p, q, pc
  <2>3. Continues(q, p)
    BY <2>1, <2>2 DEF Continues
  <2> QED
    BY <1>3, <2>3, OthersContinue DEF q
<1> QED
  BY <1>1, <1>2, <1>3

LEMMA ContinueContinues ==
  ASSUME ChatInv, NEW r \in Turns, Continue(r)
  PROVE  \A t \in Turns : Continues(turn[t], turn'[t])
<1> DEFINE q == turn[r]
<1>1. PICK n : turn' = [turn EXCEPT ![r] = [q EXCEPT !.pc = "write", !.plan = FALSE, !.left = n]]
  BY DEF Continue
<1> DEFINE p == [q EXCEPT !.pc = "write", !.plan = FALSE, !.left = n]
<1>2. p.pc = "write" /\ p.ctx = q.ctx /\ p.tool = q.tool
  BY OfTurn, Zenon DEF TurnType
<1>3. q.pc = "continue"
  BY DEF Continue
<1> HIDE DEF p
<1>4. Continues(q, p)
  BY <1>2, <1>3 DEF Continues
<1> QED
  BY <1>1, <1>4, OthersContinue DEF p

LEMMA WriteContinues ==
  ASSUME ChatInv, NEW r \in Turns, Write(r)
  PROVE  \A t \in Turns : Continues(turn[t], turn'[t])
<1> DEFINE p == [At("done") EXCEPT !.ctx = turn[r].ctx, !.tool = turn[r].tool]
<1>1. Ends(r) \/ turn' = [turn EXCEPT ![r] = p]
  BY DEF Write
<1>2. Continues(turn[r], p)
  BY DEF Continues, At
<1> HIDE DEF p
<1> QED
  BY <1>1, <1>2, EndsContinue, OthersContinue

\* Only a tool that is run gives a turn a result, and only the request that
\* begins it a context.
LEMMA ChatContinues ==
  ASSUME ChatInv, ChatNext
  PROVE  \/ \A t \in Turns : Continues(turn[t], turn'[t])
         \/ \E r \in Turns : Accept(r) \/ RunTool(r)
<1>1. ASSUME NEW r \in Turns, Serve(r), ~RunTool(r)
      PROVE  \A t \in Turns : Continues(turn[t], turn'[t])
  <2>1. Post(r) \/ Retry(r) \/ Reply(r) \/ Ends(r) \/ Continue(r) \/ Write(r)
    BY <1>1 DEF Serve, ErrorReply, Late, LateEnds
  <2> QED
    BY <2>1, PostContinues, ReplyContinues, EndsContinue, ContinueContinues, WriteContinues
<1>2. ASSUME UNCHANGED turn PROVE \A t \in Turns : Continues(turn[t], turn'[t])
  BY <1>2 DEF Continues
<1>3. ASSUME NEW r \in Turns, Confirm(r) PROVE UNCHANGED turn
  BY <1>3 DEF Confirm
<1>4. ASSUME NEW d \in Deletes, Remove(d) PROVE UNCHANGED turn
  BY <1>4 DEF Remove, StartDelete, RemoteDelete, LocalDelete
<1>5. ASSUME NEW h \in Threads, RunEnds(h) PROVE UNCHANGED turn
  BY <1>5 DEF RunEnds
<1>6. ASSUME NEW u \in Users, ChangeRole(u) PROVE UNCHANGED turn
  BY <1>6 DEF ChangeRole
<1> QED
  BY <1>1, <1>2, <1>3, <1>4, <1>5, <1>6 DEF ChatNext

LEMMA ContextsEntitle ==
  ASSUME ChatTypeOK, NEW u \in Users, NEW c \in Contexts(u)
  PROVE  Entitled(c)
<1>1. account[u] \in Roles
  BY DEF ChatTypeOK
<1> DEFINE operates == account[u] \in {"ADMIN_XOC", "SUPERADMIN"}
<1>3. PICK t \in IF operates THEN Tenants ELSE {Home[u]} :
        c = [user |-> u, role |-> account[u], home |-> Home[u], tenant |-> t,
             delegated |-> operates]
  BY DEF Contexts
<1> QED
  BY <1>3 DEF Entitled

LEMMA AcceptAsks ==
  ASSUME ToolInv, NEW r \in Turns, Accept(r)
  PROVE  /\ \A t \in Turns : Asking(t)'
         /\ turn'[r].tool = turn[r].tool
<1> DEFINE q == turn[r]
<1>1. PICK c, left, s, h :
        /\ Entitled(c)
        /\ turn' = [turn EXCEPT ![r] = [q EXCEPT !.pc = "post", !.ctx = c, !.left = left,
                                                 !.row = s, !.thread = h]]
  <2>1. PICK u \in Users, left \in IF governed THEN Budgets ELSE {0} :
          \E c \in Contexts(u) : \E s \in Owned(c) \cup {none} :
            turn' = [turn EXCEPT ![r] =
              [q EXCEPT !.pc = "post", !.ctx = c, !.left = left, !.row = s,
                        !.thread = IF s = none THEN none ELSE row[s].thread]]
    BY DEF Accept
  <2>2. PICK c \in Contexts(u) : \E s \in Owned(c) \cup {none} :
            turn' = [turn EXCEPT ![r] =
              [q EXCEPT !.pc = "post", !.ctx = c, !.left = left, !.row = s,
                        !.thread = IF s = none THEN none ELSE row[s].thread]]
    BY <2>1, Zenon
  <2>3. Entitled(c)
    BY ContextsEntitle DEF ToolInv, ChatInv
  <2>4. PICK s \in Owned(c) \cup {none} :
            turn' = [turn EXCEPT ![r] =
              [q EXCEPT !.pc = "post", !.ctx = c, !.left = left, !.row = s,
                        !.thread = IF s = none THEN none ELSE row[s].thread]]
    BY <2>2, Zenon
  <2> HIDE DEF q
  <2> QED
    BY <2>3, <2>4, Zenon
<1> DEFINE p == [q EXCEPT !.pc = "post", !.ctx = c, !.left = left, !.row = s, !.thread = h]
<1>2. p.pc = "post" /\ p.ctx = c /\ p.tool = q.tool
  BY OfTurn, Zenon DEF TurnType, ToolInv
<1>3. turn'[r] = p /\ \A t \in Turns : t # r => turn'[t] = turn[t]
  BY <1>1, OfTurn DEF ToolInv
<1> HIDE DEF p
<1>4. Asking(r)'
  BY <1>1, <1>2, <1>3 DEF Asking
<1>5. \A t \in Turns : t # r => Asking(t)'
  BY <1>3 DEF ToolInv, Asking
<1> QED
  BY <1>2, <1>3, <1>4, <1>5

\* A turn has the result of the tool it asked for, and goes on.
LEMMA RunToolGives ==
  ASSUME ChatInv, NEW r \in Turns, RunTool(r)
  PROVE  /\ turn[r].pc = "tool" /\ turn'[r].pc # "tool" /\ turn'[r].ctx = turn[r].ctx
         /\ turn'[r].tool = "allowed" => "allowed" \in ExecutedBy(port, turn[r].ctx, turn[r].ask)
         /\ \A t \in Turns : t # r => turn'[t] = turn[t]
<1> DEFINE q == turn[r]
<1>1. PICK pc, tool, n :
        /\ pc # "tool"
        /\ tool = "allowed" => "allowed" \in ExecutedBy(port, q.ctx, q.ask)
        /\ turn' = [turn EXCEPT ![r] = [q EXCEPT !.pc = pc, !.tool = tool, !.ask = none,
                                                 !.left = n]]
  <2>1. CASE /\ port = "agentcore" /\ ToolTime(r) < 1
             /\ turn' = [turn EXCEPT ![r] = [@ EXCEPT !.pc = "continue",
                                        !.tool = "refused", !.ask = none]]
    <3>1. [q EXCEPT !.pc = "continue", !.tool = "refused", !.ask = none]
            = [q EXCEPT !.pc = "continue", !.tool = "refused", !.ask = none, !.left = q.left]
      BY OfTurn DEF TurnType
    <3>2. turn' = [turn EXCEPT ![r] = [q EXCEPT !.pc = "continue", !.tool = "refused",
                                              !.ask = none, !.left = q.left]]
      BY <2>1, <3>1
    <3> QED
      BY <3>2
  <2>2. CASE \E code \in ExecutedBy(port, q.ctx, q.ask) : \E time :
               turn' = [turn EXCEPT ![r] =
                  [q EXCEPT !.pc = "continue", !.tool = Result(code), !.ask = none,
                            !.left = q.left - time]]
    <3>1. PICK code \in ExecutedBy(port, q.ctx, q.ask) : \E time :
            turn' = [turn EXCEPT ![r] =
                  [q EXCEPT !.pc = "continue", !.tool = Result(code), !.ask = none,
                            !.left = q.left - time]]
      BY <2>2
    <3>2. Result(code) = "allowed" => code = "allowed"
      BY DEF Result
    <3>3. PICK n : turn' = [turn EXCEPT ![r] =
                     [q EXCEPT !.pc = "continue", !.tool = Result(code), !.ask = none, !.left = n]]
      BY <3>1, Zenon
    <3> HIDE DEF q
    <3> QED
      BY <3>2, <3>3, Zenon
  <2>3. CASE \E code \in ExecutedBy(port, q.ctx, q.ask) : \E time :
               turn' = [turn EXCEPT ![r] =
                  [q EXCEPT !.pc = IF governed THEN "continue" ELSE "write",
                            !.tool = Result(code), !.ask = none,
                            !.left = IF governed THEN q.left - time ELSE 0]]
    <3>1. PICK code \in ExecutedBy(port, q.ctx, q.ask) : \E time :
            turn' = [turn EXCEPT ![r] =
                  [q EXCEPT !.pc = IF governed THEN "continue" ELSE "write",
                            !.tool = Result(code), !.ask = none,
                            !.left = IF governed THEN q.left - time ELSE 0]]
      BY <2>3
    <3>2. PICK time :
            turn' = [turn EXCEPT ![r] =
                  [q EXCEPT !.pc = IF governed THEN "continue" ELSE "write",
                            !.tool = Result(code), !.ask = none,
                            !.left = IF governed THEN q.left - time ELSE 0]]
      BY <3>1, Zenon
    <3>3. PICK pc : pc = (IF governed THEN "continue" ELSE "write") /\ pc # "tool"
      OBVIOUS
    <3>4. PICK n : n = IF governed THEN q.left - time ELSE 0
      OBVIOUS
    <3>5. turn' = [turn EXCEPT ![r] = [q EXCEPT !.pc = pc, !.tool = Result(code),
                                                !.ask = none, !.left = n]]
      BY <3>2, <3>3, <3>4
    <3>6. Result(code) = "allowed" => code = "allowed"
      BY DEF Result
    <3> HIDE DEF q
    <3> QED
      BY <3>3, <3>5, <3>6, Zenon
  <2> QED
    BY <2>1, <2>2, <2>3 DEF RunTool
<1> DEFINE p == [q EXCEPT !.pc = pc, !.tool = tool, !.ask = none, !.left = n]
<1>2. turn' = [turn EXCEPT ![r] = p]
  BY <1>1
<1>3. p.pc = pc /\ p.ctx = q.ctx /\ p.tool = tool
  BY OfTurn, Zenon DEF TurnType
<1>4. turn'[r] = p /\ \A t \in Turns : t # r => turn'[t] = turn[t]
  BY <1>2, OfTurn
<1> HIDE DEF p
<1> QED
  BY <1>1, <1>3, <1>4 DEF RunTool

LEMMA ToolStep == ToolInv /\ [ChatNext]_chatVars => ToolInv'
<1> SUFFICES ASSUME ToolInv, [ChatNext]_chatVars PROVE ToolInv'
  OBVIOUS
<1>1. ChatInv'
  BY ChatStep DEF ToolInv
<1>2. ASSUME NEW t \in Turns, Continues(turn[t], turn'[t]) PROVE Asking(t)'
  BY <1>2 DEF ToolInv, Asking, Continues
<1>3. ASSUME NEW r \in Turns, RunTool(r) PROVE \A t \in Turns : Asking(t)'
  BY <1>3, RunToolGives DEF ToolInv, Asking
<1>4. CASE UNCHANGED chatVars
  BY <1>4, <1>1 DEF chatVars, ToolInv, Asking
<1>5. CASE ChatNext
  <2>1. \A t \in Turns : Asking(t)'
    BY <1>2, <1>3, <1>5, AcceptAsks, ChatContinues DEF ToolInv
  <2> QED
    BY <1>1, <2>1 DEF ToolInv
<1> QED
  BY <1>4, <1>5

\* What a tool is executed for and with: a caller in his own tenant or a
\* delegate, whose role may use tools, a tool of those that read, and
\* arguments that name no owner.
Reads(c, ask) ==
  /\ c \in AllContexts /\ Entitled(c) /\ c.role \in AllowedRoles
  /\ c.role = "ADMIN_XOC" => c.delegated
  /\ ask.tool \in Readers /\ ask.args = "good"

\* A tool is executed for a turn only where the caller may read: whatever
\* SOPHIA asks for, the deployment and the roles that change meanwhile, a
\* result that was allowed comes of a reading tool with the arguments it
\* takes, over a port that executes, for a user of the tenant or a delegate.
THEOREM ToolsOnlyRead ==
  ChatSpec => [][\A r \in Turns :
                   turn[r].tool # "allowed" /\ turn'[r].tool = "allowed" =>
                     /\ turn[r].pc = "tool" /\ port # "disabled"
                     /\ Reads(turn[r].ctx, turn[r].ask)]_chatVars
<1> DEFINE Executes(r) ==
             turn[r].tool # "allowed" /\ turn'[r].tool = "allowed" =>
               /\ turn[r].pc = "tool" /\ port # "disabled"
               /\ Reads(turn[r].ctx, turn[r].ask)
<1>1. ChatInit => ToolInv
  <2> SUFFICES ASSUME ChatInit PROVE ToolInv
    OBVIOUS
  <2>1. \A r \in Turns : Asking(r)
    BY DEF ChatInit, Asking, At
  <2> QED
    BY <2>1, ChatBeginnings DEF ToolInv
<1>2. ToolInv /\ [ChatNext]_chatVars => [\A r \in Turns : Executes(r)]_chatVars
  <2> SUFFICES ASSUME ToolInv, ChatNext, NEW r \in Turns,
                      turn[r].tool # "allowed", turn'[r].tool = "allowed"
               PROVE  /\ turn[r].pc = "tool" /\ port # "disabled"
                      /\ Reads(turn[r].ctx, turn[r].ask)
    OBVIOUS
  <2>1. ~Continues(turn[r], turn'[r])
    BY DEF Continues
  <2>2. PICK t \in Turns : Accept(t) \/ RunTool(t)
    BY <2>1, ChatContinues DEF ToolInv
  <2>3. ~Accept(t) /\ r = t
    <3>1. CASE Accept(t)
      <4>1. \A s \in Turns : s # t => turn'[s] = turn[s]
        BY <3>1, OfTurn DEF ToolInv, Accept
      <4> QED
        BY <3>1, <4>1, AcceptAsks
    <3>2. CASE RunTool(t)
      <4>1. turn[t].pc = "tool"
        BY <3>2 DEF RunTool
      <4> QED
        BY <2>2, <3>2, <4>1, RunToolGives DEF ToolInv, Accept
    <3> QED
      BY <2>2, <3>1, <3>2
  <2>4. /\ turn[r].pc = "tool" /\ "allowed" \in ExecutedBy(port, turn[r].ctx, turn[r].ask)
    BY <2>2, <2>3, RunToolGives DEF ToolInv
  <2>5. /\ turn[r].ctx \in AllContexts /\ Entitled(turn[r].ctx)
        /\ turn[r].ask \in [tool : Tools \cup {"unknown"}, args : Arguments]
        /\ port \in Ports
    BY <2>4, OfTurn, ChatAssumption DEF ToolInv, Asking, Placed, Known, ChatInv, ChatTypeOK, port
  <2> QED
    BY <2>4, <2>5, PortsOnlyRead DEF Reads
<1>3. ChatSpec => []ToolInv
  BY <1>1, ToolStep, PTL DEF ChatSpec
<1> QED
  BY <1>2, <1>3, PTL DEF ChatSpec

=============================================================================
