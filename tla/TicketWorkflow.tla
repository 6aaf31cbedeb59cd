--------------------------- MODULE TicketWorkflow ---------------------------
(***************************************************************************)
(* One ticket, the Step Functions execution that automates it, and the API *)
(* requests of the people who decide on it.                                *)
(*                                                                         *)
(* The three share only the ticket item in DynamoDB and the task token the *)
(* execution waits on.  Every handler is a Lambda invocation made of       *)
(* several calls to those services, so it is several steps here, and any   *)
(* other handler may run between two of them.  A ticket update made with   *)
(* update_ticket_fields is two steps: the read that answers 404, and then  *)
(* an unconditional upsert.                                                *)
(***************************************************************************)
EXTENDS Naturals, FiniteSets, RiskConfig

CONSTANTS
  Requests,       \* the API requests that may be made, each one HTTP call
  Deliveries,     \* the deliveries of the ticket.created event
  Plans,          \* remediation plans that have at least one step
  Content,        \* the steps of each plan and what they declare and run
  CallerRoles,    \* the role ranks of the callers
  Kinds,          \* which decisions the requests may be
  PutBodies,      \* what the PUTs may write
  MaxAttempts,    \* 3 in the state machine
  MaxRetries,     \* Retry.MaxAttempts of every task, 3 in the state machine
  Faults,         \* the failures that may happen
  AllowDelete     \* may the ticket be deleted while it is being automated?

RoleRanks == 0..3  \* 0 is a role ROLE_HIERARCHY does not list

AllKinds == {"approve", "reject", "select", "custom",
             "callback", "callbackNo", "public", "publicNo", "put"}

AllFaults ==
  {"service",  \* Lambda.ServiceException before, during or after a handler
   "crash",    \* a task's Lambda dies or times out at any step
   "persist",  \* a ticket write the handler only logs the failure of
   "reply",    \* send_task_success is applied but its reply is lost
   "stale"}    \* CheckTicketStatus reads the item before the last write

Statuses == {"none", "PENDING", "PREAPROBADO", "APROBADO", "RECHAZADO",
             "DERIVADO", "RESUELTO", "FALLIDO", "EN_EJECUCION"}

NoPlan == "noPlan"
ASSUME NoPlanAssumption == NoPlan \notin Plans

VARIABLES
  ticket,   \* the item of the tickets table
  wf,       \* the execution ticket-<id> of the automation state machine
  req,      \* the API requests
  starter   \* the startAutomation invocations

vars == <<ticket, wf, req, starter>>

-----------------------------------------------------------------------------
(* The records.                                                            *)

\* pending_decision: the token the execution waits on, the role it demands,
\* whether its risk lets anybody approve it, the option that would be executed
\* and the options.  asked is history: waitForApproval wrote it, not a PUT.
Decision == [token : Nat, role : RoleRanks, open : BOOLEAN,
             rec : Plans \cup {NoPlan}, opts : SUBSET Plans, asked : BOOLEAN]

\* None, or null; what it does not say is read as USER and as basic.
NoDecision == [token |-> 0, role |-> 1, open |-> TRUE, rec |-> NoPlan,
               opts |-> {}, asked |-> FALSE]

Execs == {"none", "STARTED", "CANNOT_RESOLVE", "ASSESSMENT_FAILED",
          "AWAITING_APPROVAL", "EXECUTING", "EXECUTED", "FAILED", "REJECTED"}

\* A ghost is an item an upsert created after the ticket had been deleted:
\* it has the updated fields only, and no tenant_id.
NoItem == [item |-> "absent", status |-> "none", exec |-> "none",
           pending |-> NoDecision, plan |-> NoPlan,
           assessed |-> FALSE, arn |-> FALSE, touched |-> FALSE]

\* The body of a PUT names some fields and says what they shall be.
Writable == {"status", "execution_status", "execution_arn",
             "pending_decision", "action_plan"}

Bodies == [fields : SUBSET Writable, status : Statuses, exec : Execs,
           arn : BOOLEAN, pending : {d \in Decision : ~d.asked},
           plan : Plans \cup {NoPlan}]

\* One that names other fields only, as the subject.
OtherFields == [fields |-> {}, status |-> "none", exec |-> "none",
                arn |-> FALSE, pending |-> NoDecision, plan |-> NoPlan]

Tasks == {"AssessTicketAutomation", "SearchSimilarCases", "AssessTicketPlan",
          "MarkPlanUnavailable", "WaitForApproval", "ExecuteTicketPlan",
          "MarkExecutionFailed", "CheckTicketStatus", "RegisterSuccessfulCase",
          "RegisterFailedCase", "RegisterRejectedCase"}

\* ExecutionFailed and TimedOut are executions that stop with an error.
Ends == {"EndCannotResolve", "EndPlanUnavailable", "EndCaseRegistered",
         "ExecutionFailed", "TimedOut"}

Steps == {"start", "write", "done", "raise", "waiting"}

ReqPcs == {"idle", "get", "put", "looked", "routed", "checked",
           "resumed", "wrote", "conflict", "ok", "error"}

\* History: what the approval of a plan rests on, the plan's own risk, the
\* pending decision as waitForApproval wrote it, or some other.
Bases == {"none", "chosen", "asked", "other"}

IdleRequest == [pc |-> "idle", kind |-> "approve", role |-> 0, token |-> 0,
                plan |-> NoPlan, basis |-> "none", body |-> OtherFields]

\* touched is history: a PUT has written one of the two statuses, or the
\* ticket was deleted.
TicketItems ==
  [item : {"absent", "ghost", "whole"}, status : Statuses, exec : Execs,
   pending : Decision, plan : Plans \cup {NoPlan},
   assessed : BOOLEAN, arn : BOOLEAN, touched : BOOLEAN]

\* runs, succeeded, approver, basis and registered are history: how often
\* Victor executed a plan, whether one succeeded, the role that approved the
\* current one and on what, and the final status of the registered case.
Executions ==
  [at : Tasks \cup Ends \cup {"none"}, step : Steps,
   result : {"none", "yes", "no", "ok", "bad", "error"},
   attempt : 1..MaxAttempts, retries : 0..MaxRetries, token : Nat,
   rec : Plans \cup {NoPlan}, opts : SUBSET Plans,
   approved : Plans \cup {NoPlan}, approver : RoleRanks, basis : Bases,
   runs : Nat, succeeded : BOOLEAN,
   registered : {"none", "RESUELTO", "FALLIDO", "RECHAZADO"}]

RequestRecords ==
  [pc : ReqPcs, kind : AllKinds, role : RoleRanks, token : Nat,
   plan : Plans \cup {NoPlan}, basis : Bases, body : Bodies]

ASSUME ConstantsAssumption ==
  /\ Plans # {}
  /\ Content \in [Plans -> PlanContents]
  /\ CallerRoles \subseteq RoleRanks
  /\ Kinds \subseteq AllKinds
  /\ PutBodies \subseteq Bodies
  /\ MaxAttempts \in Nat \ {0, 1}
  /\ MaxRetries \in Nat
  /\ Faults \subseteq AllFaults
  /\ AllowDelete \in BOOLEAN

\* The type invariant: what the three records may hold.  The attempt counter
\* never passes MaxAttempts, nor the retry counter MaxRetries.
TypeOK ==
  /\ ticket \in TicketItems
  /\ wf \in Executions
  /\ req \in [Requests -> RequestRecords]
  /\ starter \in [Deliveries -> {"pending", "arn", "run", "done"}]

\* POST /tickets, or POST /tickets/agent; what SOPHIA creates is PENDING too.
\* A status the caller names instead is that of a PUT before the automation.
NewItem == [NoItem EXCEPT !.item = "whole", !.status = "PENDING"]

Init ==
  /\ ticket = NewItem
  /\ wf = [at |-> "none", step |-> "start", result |-> "none", attempt |-> 1,
           retries |-> 0, token |-> 0, rec |-> NoPlan, opts |-> {},
           approved |-> NoPlan, approver |-> 0, basis |-> "none",
           runs |-> 0, succeeded |-> FALSE, registered |-> "none"]
  /\ req = [r \in Requests |-> IdleRequest]
  /\ starter = [d \in Deliveries |-> "pending"]

-----------------------------------------------------------------------------
(* What the handlers ask of the ticket.                                    *)

\* Mutant: update_ticket_fields without the read that answers 404.
AssumeFound == TRUE

\* get_tenant_ticket_or_404 finds an item, whole or not.
Found == ticket.item # "absent"

\* The status a decision needs.
Preapproved == ticket.status = "PREAPROBADO"

\* Mutant: the decision is written without a ConditionExpression.
AlwaysWrite == TRUE

\* The ConditionExpression of the write of a decision.
WriteCondition == Preapproved

\* _assessment_guard: nothing but the start of the automation happened yet.
AssessmentGuard ==
  /\ ticket.item = "whole"
  /\ ticket.status = "PENDING"
  /\ ~ticket.assessed
  /\ ticket.exec \in {"none", "STARTED"}
  /\ ticket.plan = NoPlan
  /\ ticket.pending = NoDecision

\* is_role_sufficient for the required_approver_role of pending_decision.
MeetsContract(role) == role >= ticket.pending.role

\* Mutant: resolve_executable_plan looks at action_plan first.
RecordedFirst ==
  IF ticket.plan # NoPlan THEN ticket.plan ELSE ticket.pending.rec

\* resolve_executable_plan: the recommended option, else action_plan.
ExecutablePlan ==
  IF ticket.pending.rec # NoPlan THEN ticket.pending.rec ELSE ticket.plan

Basis == IF ticket.pending.asked THEN "asked" ELSE "other"

\* The upsert of update_ticket_fields: an absent item comes back as a ghost.
Upserted == IF ticket.item = "absent" THEN "ghost" ELSE ticket.item

WithStatus(status, exec) ==
  [ticket EXCEPT !.item = Upserted, !.status = status, !.exec = exec]

\* A token is good while the task it was made for is waiting.
TokenIsLive(token) == wf.at = "WaitForApproval" /\ token = wf.token

-----------------------------------------------------------------------------
(* The state machine.  A task invokes its Lambda, which takes the task's   *)
(* own steps; then TaskReturns, TaskRetries or TaskFails.                  *)

Running(task, step) == wf.at = task /\ wf.step = step

\* Enter a state.  $$.Task.Token is new each time the wait is entered.
Enter(state, token) ==
  [wf EXCEPT !.at = state, !.step = "start", !.result = "none",
             !.retries = 0, !.approved = NoPlan, !.approver = 0,
             !.basis = "none",
             !.token = IF state = "WaitForApproval" THEN token + 1 ELSE token]

\* CheckAttemptsRemaining: NumericLessThan 3 goes to approval.
AttemptsRemain(attempt) == attempt < MaxAttempts

AfterAttempt(attempt) ==
  IF AttemptsRemain(attempt) THEN "WaitForApproval" ELSE "RegisterFailedCase"

Step(step, result) == [wf EXCEPT !.step = step, !.result = result]

\* A write the handler logs and survives may be lost.
MayLoseWrite == "persist" \in Faults

\* sync_unresolvable_assessment: one conditional update, any failure of
\* which is logged only.
SyncUnresolvable(outcome) ==
  \/ /\ AssessmentGuard
     /\ ticket' = [ticket EXCEPT !.status = "DERIVADO", !.exec = outcome,
                                 !.assessed = TRUE]
  \/ (~AssessmentGuard \/ MayLoseWrite) /\ UNCHANGED ticket

\* Victor says whether it can resolve the ticket; every other answer, and no
\* answer, is recorded as unresolvable.
AssessTicketAutomation ==
  /\ Running("AssessTicketAutomation", "start")
  /\ \/ wf' = Step("done", "yes") /\ UNCHANGED ticket
     \/ /\ \E outcome \in {"CANNOT_RESOLVE", "ASSESSMENT_FAILED"} :
             SyncUnresolvable(outcome)
        /\ wf' = Step("done", "no")
  /\ UNCHANGED <<req, starter>>

\* Reads the cases table only.
SearchSimilarCases ==
  /\ Running("SearchSimilarCases", "start")
  /\ wf' = Step("done", "none")
  /\ UNCHANGED <<ticket, req, starter>>

\* Victor returns plans, of which the first is recommended, or none.
AssessTicketPlan ==
  /\ Running("AssessTicketPlan", "start")
  /\ \/ \E rec \in Plans, others \in SUBSET Plans :
          wf' = [wf EXCEPT !.rec = rec, !.opts = {rec} \cup others,
                           !.step = IF Found THEN "write" ELSE "done"]
     \/ wf' = Step("raise", "error")
  /\ UNCHANGED <<ticket, req, starter>>

\* The plan is persisted on the ticket, best effort.
PersistPlan ==
  /\ Running("AssessTicketPlan", "write")
  /\ \/ ticket' = [ticket EXCEPT !.item = Upserted, !.plan = wf.rec]
     \/ MayLoseWrite /\ UNCHANGED ticket
  /\ wf' = Step("done", "none")
  /\ UNCHANGED <<req, starter>>

\* Phase mark_derived.
MarkPlanUnavailable ==
  /\ Running("MarkPlanUnavailable", "start")
  /\ SyncUnresolvable("ASSESSMENT_FAILED")
  /\ wf' = Step("done", "none")
  /\ UNCHANGED <<req, starter>>

\* waitForApproval looks for the ticket and asks for the decision on it.
WaitForApproval ==
  /\ Running("WaitForApproval", "start")
  /\ wf' = Step(IF Found THEN "write" ELSE "done", "none")
  /\ UNCHANGED <<ticket, req, starter>>

\* approval_requirement of the recommended plan, for a given token.
Asked(token) ==
  LET role == RequiredRoleOf(Content[wf.rec])
  IN [token |-> token, role |-> role, open |-> role <= 1, rec |-> wf.rec,
      opts |-> wf.opts, asked |-> TRUE]

AskForDecision ==
  /\ Running("WaitForApproval", "write")
  /\ ticket' = [WithStatus("PREAPROBADO", "AWAITING_APPROVAL") EXCEPT
                  !.pending = Asked(wf.token)]
  /\ wf' = Step("done", "none")
  /\ UNCHANGED <<req, starter>>

\* The requests whose Lambda is running.
InFlight(r) == req[r].pc \in
  {"get", "put", "routed", "checked", "resumed", "wrote", "conflict"}

\* Mutant: the wait has no TimeoutSeconds.
WaitsForever == FALSE

\* Nobody decided in seven days, which outlast every request made before this
\* wait began.  The Catch has no ResultPath, so the error replaces the whole
\* input, and RegisterTimeoutCase's $.state.ticketId does not exist: the
\* execution fails there, before that handler is invoked.
ApprovalTimesOut ==
  /\ Running("WaitForApproval", "waiting")
  /\ \A r \in Requests :
       InFlight(r) => req[r].kind = "put" \/ req[r].token = wf.token
  /\ wf' = Enter("TimedOut", wf.token)
  /\ UNCHANGED <<ticket, req, starter>>

\* Victor executes the approved plan.  The outcome is on the ticket after
\* PersistOutcome; an execution error is on it only if none was before.
\* Every step went well, some did not, or there was no answer.
VictorResults == {"ok", "bad", "error"}

ExecuteTicketPlan ==
  /\ Running("ExecuteTicketPlan", "start")
  /\ \E outcome \in VictorResults :
       LET next == IF outcome = "error" THEN "raise" ELSE "done"
           kept == outcome = "error" /\ ticket.exec = "FAILED"
       IN wf' = [wf EXCEPT !.step = IF Found /\ ~kept THEN "write" ELSE next,
                           !.result = outcome, !.runs = @ + 1,
                           !.succeeded = @ \/ outcome = "ok"]
  /\ UNCHANGED <<ticket, req, starter>>

PersistOutcome ==
  /\ Running("ExecuteTicketPlan", "write")
  /\ \/ ticket' = IF wf.result = "ok" THEN WithStatus("RESUELTO", "EXECUTED")
                                      ELSE WithStatus("FALLIDO", "FAILED")
     \/ MayLoseWrite /\ UNCHANGED ticket
  /\ wf' = Step(IF wf.result = "error" THEN "raise" ELSE "done", wf.result)
  /\ UNCHANGED <<req, starter>>

\* Phase mark_failed, which keeps a failure recorded already.
MarkExecutionFailed ==
  /\ Running("MarkExecutionFailed", "start")
  /\ wf' = Step(IF Found /\ ticket.exec # "FAILED" THEN "write" ELSE "done",
                "none")
  /\ UNCHANGED <<ticket, req, starter>>

PersistFailure ==
  /\ Running("MarkExecutionFailed", "write")
  /\ \/ ticket' = WithStatus("FALLIDO", "FAILED")
     \/ MayLoseWrite /\ UNCHANGED ticket
  /\ wf' = Step("done", "none")
  /\ UNCHANGED <<req, starter>>

\* The read is eventually consistent; a ticket that is gone is an error.
CheckTicketStatus ==
  /\ Running("CheckTicketStatus", "start")
  /\ \/ Found /\ wf' = Step("done", IF ticket.status = "RESUELTO" THEN "yes"
                                                                  ELSE "no")
     \/ Found /\ "stale" \in Faults /\ wf' = Step("done", "no")
     \/ ~Found /\ wf' = Step("raise", "error")
  /\ UNCHANGED <<ticket, req, starter>>

-----------------------------------------------------------------------------
(* generateCase: the case is registered first, then the ticket is brought  *)
(* into line with it when its status differs.                              *)

FinalStatus(task) ==
  CASE task = "RegisterSuccessfulCase" -> "RESUELTO"
    [] task = "RegisterFailedCase"     -> "FALLIDO"
    [] OTHER                           -> "RECHAZADO"

CaseTasks ==
  {"RegisterSuccessfulCase", "RegisterFailedCase", "RegisterRejectedCase"}

\* Mutant: generateCase leaves the ticket alone.
NoAlignment(final) == FALSE

\* generateCase found the ticket in another status than the case's.
NeedsAlignment(final) == Found /\ ticket.status # final

RegisterCase ==
  /\ wf.at \in CaseTasks /\ wf.step = "start"
  /\ LET final == FinalStatus(wf.at)
         next  == IF NeedsAlignment(final) THEN "write" ELSE "done"
     IN wf' = [Step(next, "none") EXCEPT !.registered = final]
  /\ UNCHANGED <<ticket, req, starter>>

AlignTicket ==
  /\ wf.at \in CaseTasks /\ wf.step = "write"
  /\ LET final == FinalStatus(wf.at)
     IN ticket' = WithStatus(final, IF final = "RESUELTO" THEN "EXECUTED"
                                                          ELSE "FAILED")
  /\ wf' = Step("done", "none")
  /\ UNCHANGED <<req, starter>>

-----------------------------------------------------------------------------
(* Transitions of the state machine.                                       *)

\* Next, and the Choice states after it.
NextState ==
  CASE wf.at = "AssessTicketAutomation" ->
         IF wf.result = "yes" THEN "SearchSimilarCases" ELSE "EndCannotResolve"
    [] wf.at = "SearchSimilarCases"  -> "AssessTicketPlan"
    [] wf.at = "AssessTicketPlan"    -> AfterAttempt(1)
    [] wf.at = "MarkPlanUnavailable" -> "EndPlanUnavailable"
    [] wf.at = "ExecuteTicketPlan"   -> "CheckTicketStatus"
    [] wf.at = "MarkExecutionFailed" -> "RegisterFailedCase"
    [] wf.at = "CheckTicketStatus"   ->
         IF wf.result = "yes" THEN "RegisterSuccessfulCase"
                              ELSE AfterAttempt(wf.attempt + 1)
    [] OTHER                         -> "EndCaseRegistered"

\* Catch States.ALL, where a task has one.
CatchState ==
  CASE wf.at = "AssessTicketPlan"  -> "MarkPlanUnavailable"
    [] wf.at = "ExecuteTicketPlan" -> "MarkExecutionFailed"
    [] OTHER                       -> "ExecutionFailed"

\* The Lambda returned.  InitializeAttemptCounter and IncrementAttempt are
\* on the way; waitForTaskToken goes on waiting.
TaskReturns ==
  /\ wf.at \in Tasks /\ wf.step = "done"
  /\ wf' = CASE wf.at = "WaitForApproval"   -> Step("waiting", "none")
             [] wf.at = "CheckTicketStatus" ->
                  [Enter(NextState, wf.token) EXCEPT
                     !.attempt = IF wf.result = "no" THEN @ + 1 ELSE @]
             [] OTHER                       -> Enter(NextState, wf.token)
  /\ UNCHANGED <<ticket, req, starter>>

\* Mutant: one retry too many.
RetriesRemainInclusive == wf.retries <= MaxRetries

\* Retry.MaxAttempts counts the retries.
RetriesRemain == wf.retries < MaxRetries

Failing == wf.at \in Tasks /\ wf.step \in {"start", "write", "done"}

\* Retry invokes the handler from the beginning, the wait with a new token.
TaskRetries ==
  /\ "service" \in Faults /\ Failing
  /\ RetriesRemain
  /\ wf' = [Enter(wf.at, wf.token) EXCEPT !.retries = wf.retries + 1,
                                          !.approved = wf.approved,
                                          !.approver = wf.approver,
                                          !.basis = wf.basis]
  /\ UNCHANGED <<ticket, req, starter>>

\* The handler raised, its Lambda died, or the retries are used up.
TaskFails ==
  /\ \/ wf.at \in Tasks /\ wf.step = "raise"
     \/ "crash" \in Faults /\ Failing
     \/ "service" \in Faults /\ Failing /\ ~RetriesRemain
  /\ wf' = Enter(CatchState, wf.token)
  /\ UNCHANGED <<ticket, req, starter>>

-----------------------------------------------------------------------------
(* API requests.  A request that is refused before its first effect        *)
(* changes nothing and stays idle.                                         *)

Become(r, pc) == req' = [req EXCEPT ![r].pc = pc]

\* A response: of a request that succeeded the token it decided on matters.
Succeed(r) == req' = [req EXCEPT ![r] =
  [IdleRequest EXCEPT !.pc = "ok", !.kind = req[r].kind, !.token = req[r].token]]
Fail(r)    == req' = [req EXCEPT ![r] = [IdleRequest EXCEPT !.pc = "error"]]

Made(r, kind, pc, role, token, plan, basis) ==
  req' = [req EXCEPT ![r] = [pc |-> pc, kind |-> kind, role |-> role,
                             token |-> token, plan |-> plan,
                             basis |-> basis, body |-> OtherFields]]

May(r, kind) == kind \in Kinds /\ req[r].pc = "idle"

\* approve: the status, the role, the plan and the token are of one read.
Approve(r) ==
  /\ May(r, "approve")
  /\ ticket.item = "whole" /\ Preapproved
  /\ ticket.pending # NoDecision
  /\ \E role \in CallerRoles :
       /\ MeetsContract(role) /\ ExecutablePlan # NoPlan
       /\ Made(r, "approve", "checked", role, ticket.pending.token,
               ExecutablePlan, Basis)
  /\ UNCHANGED <<ticket, wf, starter>>

Reject(r) ==
  /\ May(r, "reject")
  /\ ticket.item = "whole" /\ Preapproved
  /\ ticket.pending # NoDecision
  /\ \E role \in CallerRoles :
       /\ MeetsContract(role)
       /\ Made(r, "reject", "checked", role, ticket.pending.token, NoPlan,
               "none")
  /\ UNCHANGED <<ticket, wf, starter>>

\* The role must reach the risk of the chosen steps; a level declared on the
\* plan itself is not handed on with them.
SelectionAllowed(role, plan) ==
  role >= RequiredRoleOf([Content[plan] EXCEPT !.level = "none"])

\* _plan_steps_for_option: the steps of an option that was offered.
OptionPlans == ticket.pending.opts

\* The steps the caller wrote, or Victor made of what he asked for; a failure
\* of Victor, or no step, is a refusal.
OwnPlans == Plans

\* decision/select and decision/custom; neither looks at the status.
Choose(r, kind, plans) ==
  /\ May(r, kind)
  /\ ticket.item = "whole" /\ ticket.pending # NoDecision
  /\ \E role \in CallerRoles, plan \in plans :
       /\ SelectionAllowed(role, plan)
       /\ Made(r, kind, "get", role, ticket.pending.token, plan, "chosen")
  /\ UNCHANGED <<ticket, wf, starter>>

Select(r) == Choose(r, "select", OptionPlans)
Custom(r) == Choose(r, "custom", OwnPlans)

\* The tokens a caller may name: those of earlier waits, and the one shown.
\* There is none before the first wait.
Shown(token) == token < wf.token \/ token \in {0, ticket.pending.token}

\* PUT, which takes whatever the caller says of the writable fields.
Put(r) ==
  /\ May(r, "put")
  /\ \E body \in PutBodies :
       /\ Shown(body.pending.token)
       /\ req' = [req EXCEPT ![r] = [IdleRequest EXCEPT
                     !.pc = "get", !.kind = "put", !.body = body]]
  /\ UNCHANGED <<ticket, wf, starter>>

\* The superadmin's PATCH finds the ticket first, whatever its tenant.
SuperadminPut(r) == ticket.item = "whole" /\ Put(r)

\* update_ticket_fields: the read ...
UpdateGet(r) ==
  /\ req[r].pc = "get"
  /\ IF Found THEN Become(r, "put") ELSE Fail(r)
  /\ UNCHANGED <<ticket, wf, starter>>

\* What the upsert of a PUT makes of the ticket.
PutBy(body) ==
  [ticket EXCEPT
     !.item    = Upserted,
     !.status  = IF "status" \in body.fields THEN body.status ELSE @,
     !.exec    = IF "execution_status" \in body.fields THEN body.exec ELSE @,
     !.arn     = IF "execution_arn" \in body.fields THEN body.arn ELSE @,
     !.pending = IF "pending_decision" \in body.fields THEN body.pending ELSE @,
     !.plan    = IF "action_plan" \in body.fields THEN body.plan ELSE @,
     !.touched = @ \/ body.fields \cap {"status", "execution_status"} # {}]

\* ... and the upsert.  select and custom record action_plan before they
\* resume the workflow.
UpdatePut(r) ==
  /\ req[r].pc = "put"
  /\ IF req[r].kind = "put"
     THEN /\ ticket' = PutBy(req[r].body)
          /\ Succeed(r)
     ELSE /\ ticket' = [ticket EXCEPT !.item = Upserted, !.plan = req[r].plan]
          /\ Become(r, "checked")
  /\ UNCHANGED <<wf, starter>>

\* approval/callback and public-approve: the caller has the token from an
\* earlier GET; whoever approves publicly need not be more than a USER.
CallbackLook(r) ==
  /\ \E kind \in {"callback", "callbackNo", "public", "publicNo"},
        role \in CallerRoles \cup {1} :
       /\ kind \in {"public", "publicNo"} => role = 1
       /\ kind \in {"callback", "callbackNo"} => role \in CallerRoles
       /\ May(r, kind)
       /\ ticket.item = "whole" /\ ticket.pending.token # 0
       /\ Made(r, kind, "looked", role, ticket.pending.token, NoPlan, "none")
  /\ UNCHANGED <<ticket, wf, starter>>

\* approval/callback: the route checks the role against one read of the
\* ticket, if any ...
CallbackRoute(r) ==
  /\ req[r].pc = "looked" /\ req[r].kind \in {"callback", "callbackNo"}
  /\ IF Found => MeetsContract(req[r].role)
       THEN req' = [req EXCEPT ![r].pc = "routed", ![r].basis = Basis]
       ELSE Fail(r)
  /\ UNCHANGED <<ticket, wf, starter>>

\* ... and approval_callback takes the plan from another.
CallbackResolve(r) ==
  /\ req[r].pc = "routed"
  /\ CASE req[r].kind = "callbackNo" -> Become(r, "checked")
       [] req[r].kind = "callback" /\ ExecutablePlan = NoPlan -> Fail(r)
       [] OTHER -> req' = [req EXCEPT
            ![r].pc = "checked", ![r].plan = ExecutablePlan,
            ![r].basis = IF ticket.pending.asked THEN @ ELSE "other"]
  /\ UNCHANGED <<ticket, wf, starter>>

\* public-approve: the risk must let anybody approve, and both it and the plan
\* are of one read.
PublicApprove(r) ==
  /\ req[r].pc = "looked" /\ req[r].kind \in {"public", "publicNo"}
  /\ IF \/ Found /\ ~ticket.pending.open
        \/ req[r].kind = "public" /\ ExecutablePlan = NoPlan
       THEN Fail(r)
       ELSE req' = [req EXCEPT ![r].pc = "checked",
                               ![r].basis = Basis,
                               ![r].plan = IF req[r].kind = "public"
                                             THEN ExecutablePlan ELSE NoPlan]
  /\ UNCHANGED <<ticket, wf, starter>>

Approving == {"approve", "select", "custom", "callback", "public"}

\* Those that leave the ticket to the execution.
TokenOnly == {"callback", "callbackNo", "public", "publicNo"}

\* Mutant: the exception of send_task_success is logged and no more.
RefusalSwallowed(r) ==
  IF req[r].kind \in TokenOnly THEN Succeed(r) ELSE Become(r, "resumed")

\* send_task_success raised: the handler answers 502, or 500, before it has
\* written any decision.
ResumeRefused(r) == Fail(r)

\* send_task_success, and CheckApproval after it.  The request learns that
\* the token is not good any more, or may not learn that it was.
Resume(r) ==
  /\ req[r].pc = "checked"
  /\ IF TokenIsLive(req[r].token)
     THEN /\ wf' = IF req[r].kind \in Approving
                   THEN [Enter("ExecuteTicketPlan", wf.token) EXCEPT
                           !.approved = req[r].plan,
                           !.approver = req[r].role,
                           !.basis = req[r].basis]
                   ELSE Enter("RegisterRejectedCase", wf.token)
          /\ \/ IF req[r].kind \in TokenOnly
                THEN Succeed(r) ELSE Become(r, "resumed")
             \/ "reply" \in Faults /\ ResumeRefused(r)
     ELSE ResumeRefused(r) /\ UNCHANGED wf
  /\ UNCHANGED <<ticket, starter>>

\* What approve, reject, and _mark_decision_approved of select and custom
\* write; only the last takes the pending decision away.
Approved == [ticket EXCEPT !.status = "APROBADO", !.exec = "EXECUTING"]
Rejected == [ticket EXCEPT !.status = "RECHAZADO", !.exec = "REJECTED"]
Marked == [Approved EXCEPT !.pending = NoDecision]

\* The conditional write of the decision.
WriteDecision(r) ==
  /\ req[r].pc = "resumed"
  /\ IF WriteCondition
     THEN /\ ticket' = CASE req[r].kind = "approve" -> Approved
                         [] req[r].kind = "reject"  -> Rejected
                         [] OTHER                   -> Marked
          /\ Become(r, "wrote")
     ELSE Become(r, "conflict") /\ UNCHANGED ticket
  /\ UNCHANGED <<wf, starter>>

\* After a failed condition an advanced status is an answer too
\* (_PROCESSED_APPROVAL_STATUSES).
Processed(kind) ==
  IF kind = "reject" THEN {"RECHAZADO", "DERIVADO"}
                     ELSE {"APROBADO", "EN_EJECUCION", "RESUELTO", "FALLIDO"}

Answer(r) ==
  /\ req[r].pc \in {"wrote", "conflict"}
  /\ LET answered == \/ req[r].pc = "wrote" /\ Found
                     \/ ticket.status \in Processed(req[r].kind)
     IN IF answered THEN Succeed(r) ELSE Fail(r)
  /\ UNCHANGED <<ticket, wf, starter>>

\* The Lambda of a request dies or runs into API Gateway's limit.
RequestDies(r) ==
  /\ "crash" \in Faults /\ InFlight(r)
  /\ Fail(r)
  /\ UNCHANGED <<ticket, wf, starter>>

\* DELETE, and the tenant's deletion.
DeleteTicket ==
  /\ AllowDelete /\ Found
  /\ ticket' = [NoItem EXCEPT !.touched = TRUE]
  /\ UNCHANGED <<wf, req, starter>>

-----------------------------------------------------------------------------
(* startAutomation, once for every delivery of ticket.created.             *)

\* start_execution is idempotent by name: an execution that runs is returned
\* again, one that ended is an error.
StartAutomation(d) ==
  /\ starter[d] = "pending"
  /\ wf' = IF wf.at = "none" THEN Enter("AssessTicketAutomation", 0) ELSE wf
  /\ starter' = [starter EXCEPT ![d] = IF wf.at \in Ends THEN "done" ELSE "arn"]
  /\ UNCHANGED <<ticket, req>>

\* record_automation_started: the ARN ...
RecordArn(d) ==
  /\ starter[d] = "arn"
  /\ IF ticket.item = "whole"
     THEN /\ ticket' = [ticket EXCEPT !.arn = TRUE]
          /\ starter' = [starter EXCEPT ![d] = "run"]
     ELSE starter' = [starter EXCEPT ![d] = "done"] /\ UNCHANGED ticket
  /\ UNCHANGED <<wf, req>>

\* Mutant: STARTED depends on the recorded ARN only.
ArnRecorded == ticket.item = "whole" /\ ticket.arn

\* ... and STARTED, which may come after the child execution has finished.
MayRecordStarted == AssessmentGuard /\ ticket.arn /\ ticket.exec = "none"

RecordStarted(d) ==
  /\ starter[d] = "run"
  /\ ticket' = IF MayRecordStarted THEN [ticket EXCEPT !.exec = "STARTED"]
                                   ELSE ticket
  /\ starter' = [starter EXCEPT ![d] = "done"]
  /\ UNCHANGED <<wf, req>>

-----------------------------------------------------------------------------
Workflow ==
  \/ AssessTicketAutomation \/ SearchSimilarCases
  \/ AssessTicketPlan \/ PersistPlan \/ MarkPlanUnavailable
  \/ WaitForApproval \/ AskForDecision \/ ApprovalTimesOut
  \/ ExecuteTicketPlan \/ PersistOutcome
  \/ MarkExecutionFailed \/ PersistFailure \/ CheckTicketStatus
  \/ RegisterCase \/ AlignTicket
  \/ TaskReturns \/ TaskRetries \/ TaskFails

Arrival(r) ==
  \/ Approve(r) \/ Reject(r) \/ Select(r) \/ Custom(r)
  \/ Put(r) \/ SuperadminPut(r)
  \/ CallbackLook(r) \/ CallbackRoute(r) \/ PublicApprove(r)

Advance(r) ==
  \/ UpdateGet(r) \/ UpdatePut(r) \/ CallbackResolve(r)
  \/ Resume(r) \/ WriteDecision(r) \/ Answer(r) \/ RequestDies(r)

Starter(d) == StartAutomation(d) \/ RecordArn(d) \/ RecordStarted(d)

Next ==
  \/ Workflow
  \/ \E r \in Requests : Arrival(r) \/ Advance(r)
  \/ \E d \in Deliveries : Starter(d)
  \/ DeleteTicket

Spec == Init /\ [][Next]_vars

\* Step Functions runs every task of an execution it started to an outcome
\* and keeps its timers; a request that has arrived returns or is killed.
\* Nothing makes a caller decide or an event be delivered.
FairSpec == Spec /\ WF_vars(Workflow) /\ \A r \in Requests : WF_vars(Advance(r))

-----------------------------------------------------------------------------
(* Safety.                                                                 *)

\* The role reaches what every step of the plan declares and implies.
Reaches(role, plan) ==
  \A step \in Content[plan].steps :
    \A risk \in {Declared(step)} \cup CommandRisks(step.command) :
      role >= RequiredRank[risk]

\* A plan is executed only on the word of a caller whose role reaches what
\* every step of that very plan declares and what its command implies, however
\* the requests, the attempts and the writes interleave.  It is so of select
\* and custom, and of approve, the callback and the public link as far as the
\* pending decision they read was the one waitForApproval wrote: a PUT may
\* write another, and a late select take it away.
GovernanceRespected ==
  wf.at = "ExecuteTicketPlan" =>
    /\ wf.approved \in Plans
    /\ wf.basis # "other" => Reaches(wf.approver, wf.approved)

\* Victor executes plans no more often than the attempts and the retries of
\* the ExecuteTicketPlan task allow, whoever approves how often.
ExecutionsBounded == wf.runs <= (MaxAttempts - 1) * (MaxRetries + 1)

\* The requests whose send_task_success went through.
Decided(r) ==
  \/ req[r].pc \in {"resumed", "wrote", "conflict"}
  \/ req[r].pc = "ok" /\ req[r].kind # "put"

\* Of the concurrent decisions on one wait at most one counts: a request whose
\* send_task_success was refused neither writes its decision on the ticket nor
\* is told that it was taken, and so says what another has decided.
OneDecisionPerWait ==
  \A r1, r2 \in Requests :
    Decided(r1) /\ Decided(r2) /\ req[r1].token = req[r2].token => r1 = r2

\* Status and execution_status, written by six handlers, tell one story:
\* no late write of one handler leaves half of another's.
StatusMatchesExecution ==
  /\ ticket.status = "PENDING"     => ticket.exec \in {"none", "STARTED"}
  /\ ticket.status = "PREAPROBADO" => ticket.exec = "AWAITING_APPROVAL"
  /\ ticket.status = "APROBADO"    => ticket.exec = "EXECUTING"
  /\ ticket.status = "RECHAZADO"   => ticket.exec \in {"REJECTED", "FAILED"}
  /\ ticket.status = "DERIVADO"    =>
       ticket.exec \in {"CANNOT_RESOLVE", "ASSESSMENT_FAILED"}
  /\ ticket.status = "RESUELTO"    => ticket.exec = "EXECUTED"
  /\ ticket.status = "FALLIDO"     => ticket.exec = "FAILED"

\* Whatever case was registered: once the execution has ended well the ticket
\* is in the final status of that very case.  Where it is in another one, its
\* alignment is still to come or the execution is seen to have failed.
EndAgreement ==
  /\ wf.at = "EndCaseRegistered" => ticket.status = wf.registered
  /\ wf.registered \notin {"none", ticket.status}
       => wf.at \in CaseTasks \cup {"ExecutionFailed"}
  /\ "RESUELTO" \in {ticket.status, wf.registered} => wf.succeeded

\* The execution was told to reject.
ToldNo ==
  \/ wf.at \in {"RegisterRejectedCase", "ExecutionFailed"}
  \/ wf.registered = "RECHAZADO"

\* Until somebody PUTs a status of his own or deletes the ticket, it agrees
\* with itself, with the case of its execution, and with what that was told.
TicketAgrees ==
  \/ ticket.touched
  \/ /\ StatusMatchesExecution /\ EndAgreement
     /\ ticket.status = "RECHAZADO" => ToldNo

(* Action properties.                                                      *)

\* What the ended execution left as the ticket's status stays, but for a PUT
\* or a deletion: no decision or starter that is still under way changes it.
EndedIsFinal ==
  [][wf.at = "EndCaseRegistered" /\ ~ticket'.touched
       => ticket'.status = ticket.status]_vars

\* An upsert that read the ticket before it was deleted may still be coming.
UpsertInFlight ==
  \/ wf.step = "write"
  \/ \E r \in Requests : req[r].pc = "put"

Gone == ticket.item = "absent" /\ ~UpsertInFlight

\* Once the upserts that had read the ticket before its deletion are through,
\* no handler starts another one, and the ticket never comes back.
DeletionIsPermanent == [][Gone => Gone']_vars

(* Liveness.                                                               *)

\* Every execution that starts comes to an end: no wait, retry or loop over
\* the attempts lasts for ever.
ExecutionEnds == (wf.at # "none") ~> (wf.at \in Ends)
=============================================================================
