# XOC API: models, checks and proofs

The XOC API is a backend of AWS Lambda functions behind API Gateway (FastAPI for the HTTP routes), with SQL,
DynamoDB, S3, SQS, EventBridge, Step Functions and a few remote agents (Victor, SOPHIA, a report writer)
around it; beside it the repository has a laboratory MCP server with its supervisor (`src/mcp`). Most state
is a row or an item that several handlers read and write without a lock, so what can go wrong lies in the
order of their calls. The modules here have those calls as actions.

Every definition follows the code under `src/`; its entry in `PROJECT.json` ("map") names file and lines.
Paths below are relative to `src/src/` unless they begin with `mcp/` or `serverless/`, which lie in `src/`.

## 1. Inventory

| Component | State | Operations | Interacts through | What is hard | What makes it correct |
|---|---|---|---|---|---|
| Ticket automation: `handlers/domains/tickets_dynamo.py`, `shared/tickets_store.py`, `shared/ticket_automation_sync.py`, `handlers/workers/{assess_ticket_automation, wait_for_approval, approval_callback, check_ticket_status, generate_case, public_approval, ...}.py`, `serverless/services/automation-resources.js` | ticket item, execution of the state machine with its task token | create, approve, reject, decision/select, decision/custom, callback, public link, PUT, the superadmin's PATCH, DELETE, start, and the phases of Victor | ticket item, task token, `ticket.created` | decisions race each other and the next attempt; resume and write are two calls; unconditional upserts; Lambda retries and crashes; a seven-day wait | one decision per wait, only plans the approver's role covers, ticket and execution agree, bounded executions, the execution ends |
| Risk configuration: `shared/risk_config.py` | none | risk of a command, a step, a plan; role comparison | the decisions | a declaration that hides a destructive command, a level on the plan that hides a step | the role demanded is that of the riskiest step |
| SOPHIA's ticket confirmation: `shared/chat_ticket_confirmations.py` | receipt item, ticket item, event | confirm_ticket (replayed, concurrent) | tickets table, EventBridge | lost replies of a transaction, a late transaction, deletion between reads, an event of unknown fate | one ticket, one event, true answers, no resurrection |
| Notifications: `notifications/*.py`, `handlers/workers/notification_events.py`, `shared/{user_notification_inbox, notification_campaigns, device_registry}.py` | event inbox, user inbox, campaigns, devices | claim, deliver, complete, fail, reclaim, read, archive, register, invalidate | SQS, push provider | crash after the claim, early redelivery, re-push on reclaim, too many devices | one Lambda at a time, a repeat only after a failure, nothing lost, campaigns that tell the truth |
| Report jobs: `reports/store.py`, `handlers/routes/reports.py`, `handlers/processors/report_orchestrator.py`, `handlers/workers/report_*.py`, `serverless/services/reports-resources.js` | job item, SQS message, execution, S3 artifacts | POST, orchestrate, collect, generate, validate, docx, pdf, complete, fail | SQS, Step Functions, S3 | duplicate messages, a status written after the start, a fast child, failures behind an effect | one notification, of a document that is there; every request ends |
| Contents of reports: `handlers/workers/{report_collect, report_generate_content, report_validate, report_generate_docx}.py`, `reports/{minority_foundry, minority_docx, minority_charts, authorization, schemas}.py` | scans, findings and tickets read; the payload; the document | read the scans of each provider, derive, let a model write, put the figures back, validate, render | SQL, the language model, S3 | scans arrive between the queries; every figure is derived on a way of its own; a model writes between them | one total everywhere, nothing invented among the evidence, an index of the numbered headings |
| Tenant deletion: `handlers/routes/superadmin.py`, `handlers/workers/tenant_delete.py` | plan_status, four stores, SQL rows | request, worker, failure report | SQS, documents in progress | partial failure, redelivery, the message before the commit | deleted is deleted everywhere, DELETING is watched |
| Users, tenants, tokens: `handlers/authorizers/jwt_authorizer.py`, `shared/{auth, dependencies, context}.py`, `handlers/routes/{auth, users, agents, superadmin}.py` | rows of users and tenants, signed tokens | login, refresh, delegation, agent tokens, create, promote, degrade, delete, onboarding | SQL transactions | rows read before a commit that comes after they changed; routes that trust the claims beside routes that read the row | platform and tenants are never mixed, a change is a living caller's |
| Ingestion: `handlers/routes/scans.py`, `handlers/processors/snapshot_processor.py` | pending_ingestions, S3 objects, artifacts, findings | upload-url, ingest, put, process, quarantine | S3 events, SQS, SQL locks | two claims of one upload, S3 moves before a commit, a crash after the claim | one artifact, no payload lost, every upload settles |
| Dashboards: `integrations/{dashboard_store, summary_store}.py`, `shared/{tenant_preferences, preventions_issues_store}.py`, `xoc_ops/summary_store.py`, `handlers/routes/{tenants, integrations, scans, dashboard, preventions_issues}.py` | none of their own but the preferences | home, pages, preventions, issues, lists, trends, analytics, the operators' status | SQL rows | the same rows counted by nine pieces of code; inclusive and exclusive days; caps and rounding | views agree, a list counts what it is made of once and leaves none of it out |
| Tool gateway and chat: `tool_gateway/*.py`, `handlers/routes/chat.py`, `shared/{sophia_tool_chat, sophia_tool_execution, sophia_thread_operations, sophia_agentcore_client}.py` | sessions, remote threads, proposals | POST /chat, tools, deletion, confirmation | the remote runtime | late, lost and foreign answers, a run that is active, seconds shared by two turns and a tool | a message once and in its own conversation, no orphan thread, a ticket only of its owner |
| MCP pool and gate: `mcp/xoc_mcp_lab_l6/{pool, server, probe}.py` | gate, lease, slots | admit, start, finish, open, renew, close | threads, control channel | abandoned awaiters, a lease that ends between admission and start | slots are conserved, nothing starts behind a closed gate |
| MCP supervisor: `mcp/xoc_mcp_lab_l6/{supervisor, control}.py` | generation, attempts, child | start, watch, retire, recover, stop | control channel, processes | stale reports, hung children, budgets | one child at a time, bounded recoveries, a declared residue |
| MCP HTTP server: `mcp/xoc_mcp_lab_l4/*.py`, `mcp/xoc_mcp_lab/{adapter, request_envelope}.py` | jobs, slots, the process | request, time out, cancel, stop, unwire | event loop, threads | a thread cannot be stopped | a slot per running job, one answer, no unwiring under a job |
| MCP query worker: `mcp/xoc_mcp_lab/{query_worker, budget}.py` | semaphore, child, tasks | run | stdio child | the budget, a crash, a child that does not die | no slot is free for a living child, an answer is clean, the call ends |

`PROJECT.json` lists every component with its status, and the hazards with the line where each bites and the
properties that speak of it. What has no module is in section 7.

## 2. Plan

In the order of importance; all of it is done unless it says otherwise.

1. `TicketWorkflow` with `RiskConfig`: the automation and its governance.
2. `SophiaConfirmation` against `ConfirmOnce`.
3. `NotificationDelivery`.
4. `ReportJobs`, `TenantDeletion` on top of it, `ReportContent` for what the tasks compute.
5. `McpPool` against `BoundedSlots`, `McpSupervisor`, `McpServer`, `QueryWorker`.
6. `SnapshotIngestion`, `Dashboards` for what is shown of the result.
7. `ToolPolicy` and `Chat`; `Accounts`.
8. Proofs (section 5) of the type invariant of every module with a state machine, and of every safety
   invariant, action property and refinement that the runs check. What the runs check beyond that is liveness.

Compositions: `TenantDeletion` extends `ReportJobs` (documents are made while their tenant is deleted),
`Chat` extends `ToolPolicy`, `TicketWorkflow` extends `RiskConfig`, and `IngestionAndBoards` puts
`SnapshotIngestion` and `Dashboards` side by side. Components that share no state are
checked in one run as a sum (`part` says which of them a behaviour is of); this adds their states and does
not multiply them.

## 3. Modules

### TicketWorkflow and RiskConfig

One ticket, one execution of the state machine, and any number of API requests.

| Variable | Code |
|---|---|
| `ticket` | the item: `status`, `execution_status` (`exec`), `pending_decision` (`pending`: token, recommended plan, options), `action_plan` (`plan`), the assessment marker, `execution_arn`. `item` says whether it is whole, absent, or a *ghost*: an item an upsert made after the deletion. `touched` (a PUT wrote one of the two statuses, or the ticket was deleted) and `pending.asked` (waitForApproval wrote the pending decision, not a PUT) are history |
| `wf` | the state of the state machine (`at`), how far the Lambda of the task is (`step`), its result, attempt and retry counters, the token of the present wait, the plans, the approved plan. `runs`, `succeeded`, `approver`, `basis` (what the approval rests on) and `registered` (the final status of the registered case) are history, read by properties only |
| `req` | each API request: where its handler is, and what it read and has to use later (role, token, plan) |
| `starter` | each delivery of `ticket.created` |

A handler is as many actions as it makes calls that others can come between. approve, for example, is `Approve`
(the read and all its checks), `Resume` (`send_task_success`), `WriteDecision` (the conditional update),
`Answer` (the read behind the answer). select and custom are `Select` and `Custom`, which differ in where the
plan comes from (`OptionPlans`, `OwnPlans`), then the upsert of `action_plan` (`UpdateGet`, `UpdatePut`), then
the same. PUT writes any of the fields that something reads (`Writable`): status, execution_status,
execution_arn, pending_decision with whatever token, role and options, and action_plan (`PutBy`); a body that
names others only is `OtherFields`. A task is its handler's steps, then `TaskReturns`, `TaskRetries` or
`TaskFails`, which are Next, Retry and Catch. Choice and Pass states belong to the transition that passes them.
Faults: `"crash"` (a Lambda is killed), `"service"` (a Lambda service error before, during or after the
handler), `"reply"` (a lost reply of `send_task_success`), `"persist"` (a ticket write whose failure the worker
only logs), `"stale"` (the eventually consistent read of `check_ticket_status`).

`RiskConfig` has the risk of a command (its segments, each a tool with what the rules look for in its
arguments, and the marks of the whole text), of a step (declared, floored by the command) and of a plan. The
regular expressions that find these are not modelled. A plan of `TicketWorkflow` is a model value whose
`Content` is a plan of `RiskConfig`. A pending decision that a PUT wrote without a token, a role or options is
one with the values the code then takes (`NoDecision`: no token, USER, anybody); the tokens a PUT may name are
those that somebody was shown (`Shown`).

Abstractions: a counter stands for Step Functions' task tokens (0 is none). `SearchSimilarCases` changes
nothing here. AssessTicketPlan and AssessTicketPlanWithSimilar differ by their prompts only. A request that is
refused before its first effect stays idle. Victor's endpoint
stays configured once it has assessed the ticket: the empty plan that `_fallback_response` gives later phases
is not modelled. A ticket may be created with another status by its caller; that is a PUT before the
automation starts.

### SophiaConfirmation and ConfirmOnce

`ConfirmOnce` is the promise: a proposal becomes at most one ticket, which is live until deleted and never
comes back, is announced at most once, and is the ticket everybody is told of.

`SophiaConfirmation` is `confirm_ticket`, any number of invocations (`Callers`) for one `proposal_id`. An
invocation makes its own ticket id, so the id *is* the caller. `receipt` and `tickets` are the table,
`inflight` the transactions sent and not yet decided, `call` the invocations, `events` what EventBridge
took. Reading the receipt and reading the ticket are two steps, as are sending a transaction, its being
applied (`Apply`, done by DynamoDB at any time after the send, even after the sender gave up), and its
answer. `Content` is everything the fingerprint hashes. `told` and the `Once` instance are the refinement
mapping: `chosen` is the ticket in the receipt, `live` whether it is in the table.

### NotificationDelivery

One notification event, all of its copies in SQS, one recipient. The event is a SELF event of a ticket, the
kind that has an inbox item as well.

| Variable | Code |
|---|---|
| `msg` | the SQS messages with the event's dedupe key, and how often each was received |
| `ledger` | `status` of the item in the event inbox (`notifications/inbox.py`) |
| `try` | a Lambda at work on one receive of one message: where it is in `process_notification_event`, the devices it has still to push to with the tokens it read, its counters |
| `campaign` | the campaign item each try made; campaign ids are unique, so the id is the try |
| `device`, `dead` | the registry items with their push token (a number), and the tokens the provider rejects by now |
| `note`, `session` | `status` of the user's inbox item, and the sessions between their read of it and their write |
| `reached` | history: the devices each try delivered the push to |

Every call to DynamoDB is an action. `CallFails` takes the call the Lambda is at to where its error goes:
out of the handler before the claim, to the except clause (`FailEvent`) after it. Faults: `"crash"`,
`"early"` (a message becomes visible while it is processed: the visibility timeout is the worker's timeout,
`serverless/services/ops-resources.js:105`, and begins before the worker does), `"error"` (a call fails),
`"failwrite"` (that of the except clause fails too), `"reply"` (a call takes effect and its reply is lost),
`"stale"` (the eventually consistent `get_item` of the claim).

Abstractions: a batch is its records one by one; the pages of the device query are one read;
`register_device` and `delete_device` read the item only for `createdAt` and for a 404, so they are their
write; an error of the push client and a push the provider refuses are the same to the counters.

### ReportJobs, ReportContent, TenantDeletion

`ReportJobs`: `request`, `job`, `message`, `execution`, `artifacts`, `notices` of each document; `faults` bounds
what goes wrong with it. `update_document_status` is a read and an update without a condition, hence two steps.
`get_document_job` is an eventually consistent read: with a fault it is behind, and does not find a job that is
there, or finds one PENDING that is not any more (`Reading`, `Finds`). The orchestrator acknowledges a message
whose job it does not find. A task reads what the task before it wrote (`Needs`, `Makes`), and may fail before
or behind its effect, be retried (`MaxRetries`) or caught (`CatchState`). `tenant` is there for
`TenantDeletion`.

`ReportContent` is one document from the request to the DOCX. `step` goes through
new, collect, latest and previous for each provider (two queries, between which scans arrive), assemble,
generate, validate, docx, and ends done or failed. `CollectAgain` is a retry of a task. `domains`, `evidence`,
`content` and `document` are what `report_collect`, `report_generate_content` and the renderer build: the severity
counts from findings or from a scan's own counts (`SeverityOf`), samples (`Sample`), pending findings,
coverage, comparison, the figures of the charts, the compact payload for the model, what of the model's answer is
taken (`Final`), the index, the headings with a number (`Numbered`), the callouts under each, whose headings have
none (`Callouts`), the blocks and the tables. A language model that may write anything is the value
`Invented`; words of the template that were left in a text are the value `Tainted`. The orders of lists are
spelled out by where each element goes (`Places`, `InOrder`; `Kept` for what a condition leaves) and not with
`SortSeq` and `SelectSeq`, of which the prover knows nothing.

`TenantDeletion` extends `ReportJobs` with the superadmins' requests (`route`), whose message is sent inside
the transaction that holds the tenant's row (`holder`), the worker (`order`), which empties the stores in
turn and deletes the rows, and its failure report.

### Accounts

`user`, `tenantRows`, `tokens` (the claims), and for each request what it is about to commit
(`transaction`): `Begin...` reads the caller, his tenant and the target and decides, `Commit` applies it,
unless a foreign key (the audit row's actor, the new user's tenant) is gone. `removal` is the worker's
transaction that deletes a tenant, with the users it has listed. A delegated token has the operator's role,
the tenant it acts in, and no tenant of its own.

### SnapshotIngestion and Dashboards

`SnapshotIngestion`: all uploads are of one scan and one agent key. `row` is pending_ingestions, `pending`,
`quarantine` and `product` the keys in S3, `message` each copy of the event with the processor on it. The
processor's transaction flushes the mark "key used" before its first query, and so holds `keyLock` to its
end; this, and no constraint of a table, keeps the artifact unique.

`Dashboards` has no handlers that run beside each other but the PUTs of preferences (`saving`): its state is the
rows, integrations, keys and preferences, and its operators are the views: `Home`, the page of a provider,
preventions with the health index and the issues behind them (`Issues`, `InTab`, `IssueList`, `Overview`), the
lists of users and agents (`ScanList`, `ScanFindings`, `AgentScans`, `AgentFindings`), trends by day and by
scan, analytics and the operators' status. insightvm's lists of hosts and CVEs are made of the `RecentLimit` (5
in the code) newest findings of its newest scan, whatever the range, by functions of their own; those of the
other scanners of all findings of the range, by queries (`Listed`, `CveList`, `HostList`). The properties
compare them. Time is counted in half days, so that an inclusive end of a day differs from the start of the
next. Divisions are done in thousandths.

`IngestionAndBoards` has the two as a sum: they share no variable, and an upload ends as a row of scans,
which `Dashboards` takes as given.

### ToolPolicy and Chat

`ToolPolicy` is the registry, the policy (the first reason that holds), the executor and the two ports, over
kinds of arguments. `Chat` has the sessions (`row`), the remote threads (`thread`: alive, a run active, and
whose messages they have; `strayed` is history: the runtime gave the thread to another while no session was bound
to it), the turns of POST /chat with the seconds they have left, the deletions, the
proposals (`token`) and who confirmed them (`ticket`). Faults: an answer that is late, lost or names another
thread, whichever there is, bound or not; a failed commit, a refused remote deletion.

### McpPool and BoundedSlots, McpSupervisor, McpServer, QueryWorker

`McpPool` is one server: `gate` (state, end of the lease, sequence number, whether it was ever opened),
`channel` (the supervisor's frames), `call`, `free` and `permits`, the clock. Under one lock the code's
critical sections are single steps. `BoundedSlots` is what it implements: a call acquires a slot at most
once, gives it back once, or is refused; `holding` is the calls that have a job that is not finished.

`McpSupervisor` is the other end: a process that starts a server, probes it, opens it, renews its lease,
retires it (close, drain, terminate, kill, reap) and replaces it at most `MaxRecoveries` times. Every wait
may end without what it waits for. The servers are processes that crash, hang, lose their channel or refuse
to die.

`McpServer` is the HTTP server of the laboratory: requests on one event loop, their jobs on threads, the
deadline of their envelopes, the end of the process. `QueryWorker` is one query over stdio: the caller, the
exchange task, the guard task, the child, and one budget of four readings of the clock.

### Proof modules and MC modules

Eight modules hold the theorems: `TicketWorkflowProofs`, `SophiaConfirmationProofs` (with those of `Chat` and
`ToolPolicy`), `NotificationDeliveryProofs`, `ReportsAndTenantsProofs` (`ReportJobs`, `TenantDeletion`,
`Accounts`, `ReportContent`), `IngestionAndBoardsProofs` (`SnapshotIngestion`, `Dashboards`), `McpPoolProofs`,
`McpProofs` (supervisor, HTTP server and query worker), and `SumTheorems`: what a sum over a finite set, a
number of elements and a maximum are, for the modules that compare figures. The MC
modules give TLC values and symmetries, and put together the
components that a run checks side by side. No liveness run uses symmetry.

## 4. Runs

Each run is exhaustive in its instance, without a state constraint. The bounds named "bound" in the modules
are in the guards.

| Run | What it asks | Instance |
|---|---|---|
| `decisions` | two concurrent requests over three attempts: `GovernanceRespected`, `OneDecisionPerWait`, `ExecutionsBounded`, `TicketAgrees` (status, execution_status, the registered case and what the execution was told), `EndedIsFinal` | 2 requests; 2 ranks of callers; faults crash, reply, service; in the part "people" approve, reject, select, callback, public link and PUT of action_plan and pending_decision, with two plans of which one hides its risk; in the part "retries" 1 retry of each task, and approve, reject, select of a plan for anybody |
| `retries` | `DeletionIsPermanent`, and under `FairSpec` `ExecutionEnds` | 1 request of every kind, PUT of the status included; 1 retry; 2 deliveries of ticket.created; deletion; faults crash, service, persist, stale |
| `confirmations` | `AnnouncedOnce`, `AnswersAreTrue`, and `ImplementsOnce`, the refinement | 3 invocations, two with one content; 3 attempts each |
| `delivery` | `NothingLost`, and under `DeliveryFairSpec` `EventSettles` | 3 messages, one malformed, 2 receives; 2 devices of which 1 is allowed; calls fail |
| `redelivery` | `DeliveredInTurn`, `CampaignsAreTrue`, `NoteNeverGoesBack` | 1 message, 2 receives, 2 devices, 2 sessions; early receives, crashes, stale reads, a failing failure path |
| `reports` | `NotifiedOnce`, `ReadyIsTrue`, `NotForgotten`, `RequestEnds`; `ReportTellsEvidence`; `WorkersAreBounded`, `CallsEnd` | 1 document, 2 copies, 3 receives, 3 retries, 4 faults, stale reads among them; 5 scans of 3 providers, limits of 1 to 3; 2 calls for 1 slot |
| `deletion` | `DeletionIsSound`; `SidesNeverCross`, `ChangesStayInside` | 1 document, 2 deletions, 2 troubles, 2 receives; 3 users, 2 tenants, 2 requests, 1 token at a time |
| `pool` | `ClosedForGood`, `StartsNeedSupervisor`, and `ImplementsSlots`, the refinement | 4 calls, one private, 2 slots, a lease of 2 ticks, 3 ticks, 3 frames |
| `supervisor` | `HandoverIsSafe`, `NoRearm`, `LossIsHandled`; `ServerIsBounded`, `RequestsEnd` | 2 recoveries, a job, 1 frame each way; 2 requests, 1 thread |
| `ingestion` | `UploadsSettle`; `ViewsAgree`, `ViewsAreComplete` | 2 uploads, 2 copies, 3 receives, 1 fault each; 9 possible rows, 4 changes, 2 PUTs of preferences, 3 newest findings of a list |
| `chat` | `MessagesInPlace`, `DeletedWithThread`, `TicketIsOwned`, `TurnWithinBudget` | 2 turns, 1 earlier session, 1 deletion, 2 threads, a tenant's user and an operator of two tenants, 3 deployments |
| `doc_polling` | a statement of the documentation that the code does not keep (section 6) | violation |

The type invariants are not in the cfgs: they are checked while a module is made, and each is a theorem.

### Why the bounds are enough

- Two requests are what it takes for a decision of an earlier wait to meet one of the present wait; a third
  plays the part of one of the two, whose record is reset when it is answered. `MaxAttempts` is 3 as in the
  code, so there are two waits. One retry tells retried from not retried and used up. What a retry repeats is a
  task, and what a caller may do to a plan's risk is done between tasks, so that retries and plans of two
  risks are in two parts of the run; the proofs have them together. custom differs from select in where the
  plan comes from, and is in `retries`.
- Confirmations: two callers of one content and one of another give replay, race and mismatch; three
  attempts let a late transaction overlap each of them.
- Notifications: two messages with two receives give a retry, a duplicate, a duplicate of a retry and a
  message out of receives; one device more than `MaxDevices` is what the query stops at.
- Documents: two copies and three receives give a duplicate in every state of the execution; four faults use
  a task's retries up. Five scans are a provider with none, one, two and three scans, counts without findings,
  findings without titles, more findings than are read; limits of one or two are passed by them.
- Deletion: documents fail in `reports`; here what fails is the deletion. Two deletions overlap, and two
  receives are a first one and a repeated one.
- Accounts: three users are the platform's first operator, the tenant's administrator and one who is created;
  a second tenant is one to onboard, or to act in. One token at a time is what is presented; that of another
  caller is in his transaction.
- Pool: with two slots and three public calls one is refused; two ticks are a lease. Supervisor: 2 recoveries
  as in the code, three generations. One job is a server that has one and one that has none.
- Ingestion: two uploads of two copies each may overlap in all ways; the third receive tells a retry from an
  end. Dashboards: the nine rows differ in every respect a view distinguishes (today, yesterday, a week, a
  quarter ago; running; another tenant; findings and counts that differ), and any four of them are there. One
  scan has more findings than three, the limit of insightvm's lists here (5 in the code), so that its lists
  leave some out.
- Chat: a turn that creates a session and one that continues it or another; threads of the two owners, and one
  that no session is bound to.

`CHECK_DEADLOCK FALSE` stands in every cfg because executions, requests, messages and calls of an instance
come to an end, after which nothing happens.

### Which faults a property bears

- `TicketAgrees` and `EndedIsFinal` hold with every fault, until a PUT writes one of the two statuses or the
  ticket is deleted, which both say themselves (proved). After a lost write of RESUELTO, or a stale read behind
  it, the code does put an executed plan up again; `ExecutionsBounded`, which covers retries after an effect and
  holds with every fault (proved), bounds the executions, not to one per approval.
- `GovernanceRespected` holds in every interleaving, with every fault and any PUT (proved), and says of which
  approvals: of select and custom always, and of approve, the callback and the public link if the pending
  decision they read was one that waitForApproval wrote. After a PUT of another pending decision
  approve goes by that one, and when a late select has taken the pending decision away between its two reads the
  callback goes by action_plan (section 6). Of these it says only that what is executed is a plan.
- `DeliveredInTurn` holds as long as no reply of DynamoDB is lost (proved).
- `NothingLost` and `EventSettles` hold when calls fail (the first is proved), and neither Lambdas die nor
  messages come early. Each of the other faults breaks `NothingLost`: TLC finds a lost event with a crash or
  a lost reply alone, and with a stale read, an early receive or a failing failure path next to an error.
- `CampaignsAreTrue` holds with every fault but a lost reply, behind which the push did go out (proved).
- `NotForgotten` and `UploadsSettle` say what becomes of a document or an upload of which nothing failed;
  one that died in its claim stays PROCESSING, or processing, and a document whose job one read did not find
  stays PENDING (section 6). `RequestEnds` counts all of these as rest.
- `ThreadsKeepApart` speaks of the threads that did not stray: of one that no session is bound to the code
  cannot know whose it is (section 6).
- `GoneIsEmpty` speaks of documents that were at rest when the deletion was sent.
- `TurnWithinBudget` holds as long as answers come whole: `requests` has a time-out per read.
- `WiredWhileWorking` holds of a process that returns from `run`; not of an interrupted one.

### Fairness

Weak fairness, unless said otherwise, of what the platform does by itself: Step Functions runs every task of
a started execution and its timers (`Workflow`, `Execute`), SQS offers a visible message until it is deleted
or dead-lettered and every Lambda ends by itself or at its limit (`Orchestrate`, the queue and the Lambdas of
`DeliveryFairSpec`, `Post` and `Advance` of a request that has come), the event loop and asyncio's timers go
on (`Loop`, `Tick`, `Caller`, `CallerTimesOut`), and the supervisor goes on attending to its server
(`Attend`, `Recover`; strong fairness of `ShutDown`, since stop is looked at between other steps of the same
loop, each of which ends). Nothing makes a person approve, ask or read, an event arrive, or a child exit.
The runs that check two components restate the fairness of each for the behaviours of that component.

## 5. Proofs

All for every value of the constants that satisfies the named assumptions (`ConstantsAssumption` and
`NoPlanAssumption`, `ConfirmationAssumption`, `ChatAssumption`, `DeliveryAssumption`, `ReportAssumption`,
`DeletionAssumption`, `AccountsAssumption`, `ContentAssumption`, `IngestionAssumption`, `BoardsAssumption`,
`PoolAssumption`, `SupervisorAssumption`, `ServerAssumption`, `WorkerAssumption`), which TLC evaluates in the
runs: sets that are counted are finite, bounds are numbers, and a null is not one of the values it stands
beside. A theorem that needs more says so in its statement, and below why. TLC has checked each inductive
invariant as an invariant before it was proved, on a run's instance or a variant of it.

The proofs have one layout: a predicate for the shape of a step (what it may do to the state the invariant
speaks of), a lemma that a step of that shape keeps the invariant, and a lemma for each group of actions that
they are of that shape.

### TicketWorkflow

- `TypeCorrect`: `Spec => []TypeOK`. `TypeOK` is not inductive: that the attempt counter stays within
  `MaxAttempts` needs `LoopInv` (the counter is below the bound in the loop's states, and the recommended
  plan is there by then).
- `OneDecision`: `Spec => []OneDecisionPerWait`: of the decisions on one wait at most one is written and
  answered as taken. `TokenInv` is the reason: a request that is past its send_task_success has a token not
  above the execution's, and below it while the execution waits, because leaving the wait ends the token and
  entering it makes a new one, and because a handler whose send was refused goes no further (`ResumeRefused`).
  `IndInv` is `TypeOK /\ LoopInv /\ TokenInv`.
- `PlanRiskIsCeiling`: the role a plan demands is not below what any step declares or any command implies.
- `Governance`: `Spec => []GovernanceRespected`, for every kind of request, PUT of any field included.
  `AskedInv`: a pending decision that waitForApproval wrote is on the plan recommended by now, which no later
  attempt changes, and demands the role it takes. `ApprovalInv`: a request past its check carries a plan that
  its role reaches, unless it rests on a pending decision of another origin; a callback between its two reads
  carries a role for the recommended plan, so that two reads of two waits do no harm.
- `ExecutesBounded`: `Spec => []ExecutionsBounded`, with any fault. `RunsInv` gives the executions so far for
  every state: those of the attempts before (`Upto`), and of this one the retries of the task.
- `Agreement`: `Spec => []TicketAgrees`, and `EndIsFinal`, that `EndedIsFinal`, with any fault and any request.
  Both are `Story`: `ticket.touched`, or `Tale`, which adds to the agreement of the two statuses that
  RESUELTO, or the answer yes of the check, is only there after Victor's success (`SuccessInv`), that the
  ticket is in the status of the task's case once that has aligned it (`ClosingInv`), and that it is RECHAZADO
  only if the execution was told so. `RegInv` says which case is registered where, and that one is before an
  execution ends well; `ToldInv` that a rejection which resumed the execution has told it so, for as long as
  its write is still to come.
- `DeletionLasts`: `DeletionIsPermanent`, from `TypeOK` alone: with nobody between the read and the write of
  an upsert, every handler finds the ticket absent.

### SophiaConfirmation

One inductive invariant, `ConfirmTypeOK /\ TableInv /\ CallInv`. `TableInv`: the table has the receipt's
ticket or none. `CallInv` says for every invocation that what it remembers of the receipt is still so
(`CallOK`), and ties its events, its step and the receipt's `event_status` together (`EventOK`): the status
stays UNCONFIRMED until the creator has answered. It is inductive because a receipt, once there, is never
replaced. From it follow `CallsTyped`, `Agreement`, `OneEvent`, `EventStatus`, `TrueAnswers`,
`ConflictsExplained`, `NeverResurrected`, and `Refinement`, which maps `Apply` to `Confirm`, `DeleteTicket`
to `Delete`, an event that was taken to `Announce`, an answer with a ticket to `Tell`, and everything else to
a stutter.

### Chat and ToolPolicy

`ChatTyped`, `MessagesStay`, `DeletedThreads`, `TicketsOwned` and, if `"trickle" \notin Faults`,
`TurnsInBudget`, from `ChatInv` for any number of users, tenants, threads and turns. `OneOwner` (a thread has no
messages or those of one owner, unless it strayed) is not inductive: a turn sends to a thread it chose before
others sent theirs. `Placed` says of each turn that what it remembers of its session and its threads is still so
and is its own: a thread it is about to continue has messages already, and those are its owner's unless it
strayed. `MessagesStay` is for answers that name any thread: a foreign one is refused if a session is bound to
it, and what `strayed` leaves out is only that none was. That a message is put on a thread once holds of these
too. `RowSound` says the same of the stored sessions, and that a deleted one has a deleted thread. `Proposed`
follows a proposal from the turn that made it to the ticket. `Timed` bounds what each call may still consume; a
trickling answer restarts the time-out of `requests` with each read, which is why it is excluded.

`ToolsOnlyRead`: a turn has the result of an executed tool only of a tool that reads, with the arguments it
takes, for a caller whose role may use tools and who is in his own tenant or a delegate. No cfg lists it; TLC
has checked it beside the runs. It joins the policy with the turns: `AllowedHasNoGround` (what the policy lets
through has none of the eleven grounds for a refusal), `PortsOnlyRead` (so for each way a tool can be executed),
and the invariant `Asking` (a turn under way has a context its caller was entitled to, and one that runs a
tool a request SOPHIA made), which every action keeps because it continues the turn with what it had
(`Continues`), but for `Accept` and `RunTool`.

### NotificationDelivery

- `DeliveryTyped`: `DeliverySpec => []DeliveryTypeOK`, for all faults.
- `NoteStays`: `NoteNeverGoesBack`, for all faults.
- `SingleOwner`, `InTurn`, `RepeatedPushes` and `CompletedStays`, if `"reply" \notin Faults`, from `OwnInv`
  and `Fresh`. Every step of a Lambda is of one of four kinds (`Enters`, `StaysOut`, `StaysIn`, `Leaves`), and
  the invariant is shown for the kinds. Ownership alone is not inductive: that a claim finds nobody else at
  the event needs "an owned event is PROCESSING", and that two tries do not both deliver needs `Settled`,
  that a try which has delivered and is through without having put the event up again leaves it PROCESSING
  or COMPLETED. `Fresh` says that a receive to come has done nothing.
- `CompletedTruly`: `CompletedIsDelivered`, for all faults, lost replies included. `DeliveredInv`: a try is past a
  point only if it did what comes before it, and the campaign that stands behind a completed event is one of a
  try that never writes its campaign again (`Late`).
- `CampaignsTold`: `CampaignsAreTrue`, if `"reply" \notin Faults`: a push whose answer is lost counts as failed
  although it arrives. `TallyInv` balances the books of each try at every point: the devices of its campaign
  are those it reached, those that failed and those still to do, one address for each device.
- `NoneLost`: `NothingLost`, if `Faults \subseteq {"error"}`. `ForgetInv`: a message in flight has one try at
  work, its latest; a claimed event has an owner; a failed one has a message that nobody is about to
  delete, or was refused for its size. With any other fault beside `"error"` TLC finds an event that is lost
  (a crash leaves PROCESSING; section 6 has the others), so the assumption cannot be weakened.

### ReportJobs and TenantDeletion

- `ReportTyped`, `ToldOnce`, `ToldTruly`, `NoneForgotten` from `ReportInv`. `Finishes`: the artifacts are there
  before the job has its key, and the key before the notice, after which the execution never comes back to where
  it tells (`AfterNotice`). `Remembered`: as long as nothing of a document has failed and no read of it was
  behind, PENDING has a copy of the event before the step that marks it, and any later status has an execution
  or a copy about to start it.
- `DeletionTyped`, `DeletedSoundly` (`DeletionIsSound`) from `DeletionInv`, with all steps of the documents in
  between. `Emptied`: what a worker has passed is empty. It stays so because documents that were at rest are not
  written (`RestingIsLeft`), by any copy or task; that is what the history `old` is for. `OrderSound`: the
  tenant's row is the request's from the flush to the answer, until which its worker cannot end.

### Accounts

`AccountsTyped`, `SidesApart` (`SidesNeverCross`) and `ChangesInside` (`ChangesStayInside`) from `AccountsInv`.
That rows keep their side is not inductive: a request commits what it decided from rows it had read before.
`TokenHolds` says that what a token says of its user stays true of the row, but for a tenant that is gone;
`RequestHolds` says it of what a request has checked of its caller and its target. Both survive because rows
change in few ways (`RowsGoOn`): a row may go, lose its tenant with the tenant, or change its role on its own
side, and ids are not given twice (`IdsInv`).

### SnapshotIngestion

`IngestTyped` and `UploadsComeToAnEnd` (`UploadsSettle`) from `IngestInv`. `Locked`: the transaction that holds
the key's row is the only one, and has found the artifact that there is; without it two first uploads would
both insert. `OnCourse`: as long as an upload has one event and no failure, the place of that event tells its
row and its object.

### Dashboards

`EveryViewAgrees` (`ViewsAgree`) and `EveryViewIsComplete` (`ViewsAreComplete`), for any set of rows, any
integrations and preferences. `BoardsAssumption` says what the processors write and the PUTs accept: a row
is of a supported provider, its counts are numbers, its findings finitely many; a body names known severities
and providers. `BoardsInv` adds to `BoardsTypeOK` that there are finitely many rows, without which a sum means
nothing. `SideBySide` brings the invariant to the composition that the run checks.

The state says little; the matter is that one figure comes about in several ways. Home adds up severities
over providers, a page those of one provider, preventions the findings behind them, a trend the rows of each
day. Each law is an identity between sums over finite sets, and `SumTheorems` has the identities: a sum of sums
in either order (`SumExchange`), a sum split by a key (`SumByKey`; days, providers, severities), a count split
the same way (`CountByKey`), a sum over an image (`SumOfImage`). These are inductions over a finite set, which
the library's theorems would do with an operator as a parameter. `GrowingFamily` does it with a set instead:
the subsets that have the property are a family that contains the empty set and grows by any element, and the
least counterexample (`WFMin`) is none.

`ListsSay` is `ListsAgree` for whatever a page is given (`ListedFindings`: all findings of the range, or the
newest of insightvm's scan): both ways to a list of hosts come to the same (`HostsAgree`, `HostsListed`); those to a
list of CVEs do not, since one groups by score as well, but neither loses a CVE, a host of one or its worst score
(`CvesListed`).

### ReportContent

`ContentTyped` and `ReportIsTold` (`ReportTellsEvidence`), for any scans, findings, tickets, limits and
requests, and whatever the model writes. `ContentAssumption`: scans are as ingestion stores them (no two of a
provider at one moment), limits are numbers, a null is no value, and what is invented differs from
anything that was collected. The last is what the property is about.

`ContentInv` is `CollectInv /\ WritingInv`. `CollectInv`: every domain that was built is sound (`DomainIsSound`:
its total is the sum of its severities, no more is shown than there is, the scan it is compared with is the
earlier one), and the domains built and the providers left are together all providers; it holds while scans
arrive between the two queries. `WritingInv`: the evidence is what follows from the domains, the content is what
`Generated` makes of it from some draft, and the document what is written of the content. From there on it is
about what is written. The totals agree because the severities are added up by severity or by domain
(`TotalsExchange`); lists agree because an order has each element once (`InOrderHasAll`) and flattening joins
(`FlattenIsJoin`); nothing of the evidence is invented because its figures are put back over the draft's
(`FinalKeeps`) and none of them is the model's (`FiguresAreNotInvented`); the index is the headings with a
number but those of the news, and the document ends with its limitations (`IndexDoesMatch`). `GeneratedIsValid`
shows on the way that the validation never refuses a generated report: one fails at the DOCX only, with words of
the template in a text.

### McpPool

- `PoolTypes`, `AccountsAgree`, `ProbedBeforeOpen` from `PoolInv`. `StepOfCalls` reduces every action to
  what it does to the calls (become a job, stop being one, be refused, or none of these), `StepOfGate` to
  what it does to the gate; `StaysReconciled` is then one counting argument instead of one per action.
- `ClosedIsForGood`, `NoStartWithoutSupervisor`: the action properties of the run `pool`. The latter needs
  `LeaseInv`: no lease, read or still in the channel, ends more than `Lease` after the supervisor's last word.
- `PoolIsBounded`: `PoolSpec => ImplementsSlots`, the refinement, from `AccountsAgree`.

### McpSupervisor, McpServer, QueryWorker

- `SupTyped`, `HandoverSafe` (`HandoverIsSafe`) and the action property `NeverRearmed` (`NoRearm`) from `SupInv`.
  `Owning`: only the present server may be alive, and only under a supervisor that owns it. `Closing`: an
  acknowledgement, read or still in the channel, is of a gate that is closed for good; without the part about
  the channel it is not inductive. `Counting` and `Fallen`: each start is a counted attempt, and nothing that
  was UNAVAILABLE is on its way to one.
- `ServerTyped`, `ServerBounded` (`ServerIsBounded`) from `ServerInv`, which adds that a request that has not begun
  an answer has begun none whatever became of its job, that one that was not dispatched has no job, and that a
  process that has ended in order has none either.
- `WorkersTyped`, `WorkersBounded` (`WorkersAreBounded`) from `CallSound`, what is true of one call at every
  moment, and `SlotsAddUp`; a step changes one call, and the semaphore by what that call takes or gives.

### What is only model-checked

- Liveness (`ExecutionEnds`, `EventSettles`, `RequestEnds`, `CallsEnd`, `LossIsHandled`, `RequestsEnd`): the prover
  has neither `ENABLED` nor fairness. `NoneForgotten`, `NoneLost` and `UploadsComeToAnEnd` are the safety half of
  some of them: what has not ended has somebody who will go on with it.
- Of `RiskConfig`, `PlanRiskIsCeiling` is proved. What the rules find in the text of a command is not modelled,
  so nothing is proved of it.
- Everything is proved of the models. That these are the code's is what the map and its reading are for.

## 6. Where the code and its text disagree

`doc_polling` is a run that TLC finds violated, and a finding with its quotation in `PROJECT.json`: the
orchestrator writes PROCESSING with the execution's ARN over the COMPLETED of an execution that was faster.

The rest of this section was met while modelling. Each is a behaviour of the models, or of code they abstract
from, where a text says more than the code does; they have no runs.

Ticket automation
- `automation-resources.js:165`: the Catch of WaitForApproval has no ResultPath, so that States.Timeout
  replaces the input; RegisterTimeoutCase reads `$.state.ticketId` from it (line 254) and fails. The ticket
  stays PREAPROBADO, not DERIVADO as `automation-resources.js:271` and `docs/api-guide.md:287` have it.
- `tickets_dynamo.py:431`: a decision whose conditional write comes after the next attempt has begun to wait
  lands in that wait. The ticket is APROBADO while its execution waits, and nobody can approve it any more;
  select may also take the pending decision of the next wait away, and the callback then checks for USER,
  whatever the plan's risk.
- `tickets_dynamo.py:373`: PUT writes pending_decision and action_plan like any other field: the role that approve
  demands afterwards, and the plan it hands on, are then those of the PUT and not those of waitForApproval.
- An approval that was applied is answered with a conflict if the next attempt waits when the handler reads
  the ticket. A plan task that persisted a plan, failed afterwards and got none when retried ends in
  EndPlanUnavailable ("ticket marked as DERIVADO") with the ticket PENDING (`ticket_automation_sync.py:38`).
- `generate_case.py:26`: a retry registers the case again under a new case_id.

Notifications
- `notification_events.py:276`: when the write of FAILED fails too, or the Lambda dies after its claim, the
  event stays PROCESSING, and its retry is acknowledged as a duplicate (the comment at 274 has it retried).
- When the completion takes effect and its reply is lost, FAILED is written over COMPLETED and the event is
  delivered again, although "completed events remain idempotent". When the reply of the claim is lost
  (`inbox.py:54`), the next try finds PROCESSING and drops the event.
- A receive that comes before the first is done is acknowledged as a duplicate, which deletes the message; if
  the first then fails, nothing retries the event.
- `devices.py:237`: a device that registers a new token between a push to the old one and its rejection is
  marked INVALID.

Documents and deletion
- `report_orchestrator.py:32-35`: a job that an eventually consistent read (`store.py:185`) does not find is logged
  and its message acknowledged: the document stays PENDING, and nothing has failed.
- A duplicate that passes the status check, or comes after the end, fails with ExecutionAlreadyExists and
  writes FAILED over the report that is being made, or was made (`report_orchestrator.py:67`).
- "Active jobs block deletion" (`docs/api-guide.md:558`) is a check before an act: a document requested in
  between is deleted while it is made, and its tasks' updates bring parts of it back.
- The comment of `report_generate_content.py` that the controlled sections contain no invented news: a
  document of a client administrator without news of his own keeps the model's, and one without modules and
  tickets the model's weekly actions. `results_obtained` of module actions is overwritten by the next `if`.
- small_report (and informe_soporte, which no role may request) has the same figures for every tenant. The
  figures of `data_base` and `results_obtained` count the sampled findings, at most 12 of a domain.
- "alto", "medio", "bajo" are counted as high, medium, low and ranked last; "alta", "media", "baja" are
  counted as informational and ranked first. A scan stored as "tenable" or "rapid7" is not found by the
  normalised name. Texts with "change for", "change." or "lorem" in any evidence make every try at the DOCX
  fail. The index leaves the headings of the news and of the callouts out.
- The variant of a document is decided when it is requested: a USER of the tenant may read an ADMIN's.

Tenants, users, chat
- `users.tenant_id` has ON DELETE SET NULL: a user who is created while the tenant is deleted has none
  afterwards. Tokens of deleted users are good until they expire on routes that trust claims (5 minutes, an hour
  if delegated or an agent's). A tenant may lose its last administrator.
- `superadmin.py:790` changes the settings of an agent instance in place, which SQLAlchemy does not notice.
- Preferences, runtime settings and the toggle of an agent key lose updates when two are made at once.
- `chat.py:86`: in direct mode a time-out of 60 s exceeds the Lambda's 26 s; the time-outs are per read. A
  thread that nobody has bound yet is not recognised as foreign (271-291), after a first turn that timed out, a
  failed commit or the deletion of its session: two owners may adopt the same one. A first turn that times out leaves
  a thread without a session. After a lost reply of a remote deletion the row may stay undeletable.

Ingestion and dashboards
- A processor that dies after the claim leaves `processing`, which no redelivery claims;
  `requeue_failed_ingestions.py` looks for a status nobody writes. `docs/api-guide.md:729` requires an
  idempotency_key that the code takes as optional. upload-url and ingest are the same code.
- The health index is never below 30, so that the operators' "critical" (below 30) is unreachable. Home's alerts
  of wazuh leave info out, its page and preventions do not. Hiding a severity can lower the index when the
  visible penalty is at its cap. Custom ranges are swapped and capped by the page and refused by analytics.
  Preventions' issues ignore hidden severities and show providers that are no longer configured. The agent's
  lists stay in the domain soc if only `scanner_type` is given. The trend by scan of wazuh takes the oldest 20.
  insightvm's page shows hosts and CVEs of five findings of its newest scan, whatever range is asked for
  (`dashboard_store.py:717-721`, `summary_store.py:67`). `GET /integrations` knows neither openvas nor
  insightvm. The SQL table of tickets, which home and the report read, is written by nobody.

MCP
- `pool.py:118`: a renewal that comes after the lease ran out is accepted if nobody has looked at the gate in
  between (`mcp/docs/evidence/l5-acceptance-contract.md:61`); calls of the meantime are refused all the same.
- `mcp/xoc_mcp_lab_l4/server.py:347`: "do not restore real providers under unfinished work": uvicorn raises the
  captured signal again after its shutdown, and an interrupt then passes by the look at `active`.

## 7. Not modelled

- Integrations and remediation (`integrations/*_client.py`, `remediation/`): clients of remote services, one
  call after the other, without a state of their own.
- Rendering of the other reports (`reports/{context_builder, docx_renderer}.py`, the conversion to PDF):
  constants of the code and layout. Of the minority report, fonts, layout and the wording of sentences;
  `fill_minority_template_in_place` and the planner, which no handler uses.
- Infrastructure and scripts: declarative resources, seeds, back-fills; builds, harness and acceptance tests
  of the MCP laboratory (`mcp/packaging`, `mcp/scripts`, `mcp/*/harness.py`), which drive the components modelled
  here and keep no state of the system. `src/experiments` and `.agents` are no part of the program.
- Live voice, alerts, audit reads, health: one read or one insert each.
- Of modelled components: the content of cases; notification events without an inbox item, and TENANT_ADMINS
  events, which fail for good; POST /notifications/test and /send; a ticket's subject, texts and logs, the
  preview of a plan (it changes nothing), the lists of tickets; reads through the global index, which may be
  stale; the read that ends `update_document_status` and answers with the item; passwords, names and e-mails of
  users; tenant-owned rows but those above; demo modes, titles and affinity cookies of the chat; the mapping of
  a payload to rows, and uploads of several scans or keys; rows of the table Vulnerability, which only seeds
  fill; metrics in a scan's meta_info; the observer and the fault profiles of the MCP server; the supervisor's
  budgets as times.
- A second ticket, proposal or event: they share nothing but quotas. A ticket of a proposal that a late
  upsert of the automation makes a ghost after its deletion is the matter of `DeletionIsPermanent`.
