--------------------------- MODULE TenantDeletion ---------------------------
(***************************************************************************)
(* The deletion of a tenant beside its documents: DELETE                   *)
(* /superadmin/tenants/{id} counts what is active, marks the tenant        *)
(* DELETING and sends a message; a worker empties the four stores of the   *)
(* tenant one after the other and then deletes its rows in SQL.            *)
(*                                                                         *)
(* The route sends the message inside its transaction, after a flush that  *)
(* holds the tenant's row until the commit, so that the worker may be done *)
(* with the stores before the tenant is DELETING, but not with SQL.        *)
(***************************************************************************)
EXTENDS ReportJobs

CONSTANTS
  Deletes,     \* the DELETE requests of superadmins
  MaxTroubles  \* bound: calls that fail and Lambdas that die in a deletion

ASSUME DeletionAssumption == MaxTroubles \in Nat /\ "none" \notin Deletes

VARIABLES
  plan,      \* plan_status of the tenant, as committed
  holder,    \* the request whose transaction holds the tenant's row, if any
  route,     \* where each request is
  order,     \* where its message, and the worker on it, is
  stores,    \* the tenant's other stores that are not empty
  old,       \* history: the documents at rest when the first message was sent
  troubles

deletionVars == <<plan, holder, route, order, stores, old, troubles>>
allVars == <<reportVars, deletionVars>>

None == "none"

Work == {"tickets", "jobs", "documents", "legacy", "sql", "rescue"}

\* A message ends deleted, or in the dead-letter queue: after a worker that
\* has marked the tenant DELETING_FAILED, or after one that could not.
DeletionTypeOK ==
  /\ plan \in {"ACTIVE", "DELETING", "DELETING_FAILED"}
  /\ holder \in Deletes \cup {None}
  /\ route \in [Deletes -> {"idle", "counted", "flushed", "sent", "answered"}]
  /\ order \in [Deletes -> [at : Work \cup {"none", "queued", "deleted",
                                            "reported", "lost"},
                            receives : 0..MaxReceives]]
  /\ stores \subseteq {"tickets", "legacy"}
  /\ old \subseteq Documents
  /\ troubles \in 0..MaxTroubles

DeletionInit ==
  /\ ReportInit
  /\ plan = "ACTIVE" /\ holder = None
  /\ route = [r \in Deletes |-> "idle"]
  /\ order = [r \in Deletes |-> [at |-> "none", receives |-> 0]]
  /\ stores = {"tickets", "legacy"}
  /\ old = {}
  /\ troubles = 0

RouteAt(r, at) == route' = [route EXCEPT ![r] = at]
OrderAt(r, at) == order' = [order EXCEPT ![r] = [@ EXCEPT !.at = at]]
Trouble == troubles < MaxTroubles /\ troubles' = troubles + 1

-----------------------------------------------------------------------------
(* The route.                                                              *)

Active(d) == job[d].status \in {"PENDING", "PROCESSING"}

\* Other requests are refused, or told that the deletion is in progress.
Count(r) ==
  /\ route[r] = "idle" /\ tenant
  /\ plan # "DELETING" /\ ~\E d \in Documents : Active(d)
  /\ RouteAt(r, "counted")
  /\ UNCHANGED <<reportVars, plan, holder, order, stores, old, troubles>>

\* Mutant: no session.flush() before the message is sent.
FlushNothing(r) ==
  /\ route[r] = "counted" /\ RouteAt(r, "flushed")
  /\ UNCHANGED <<reportVars, plan, holder, order, stores, old, troubles>>

\* The UPDATE waits for the row; of a tenant that is gone it fails.
Flush(r) ==
  /\ route[r] = "counted" /\ holder = None
  /\ IF tenant THEN RouteAt(r, "flushed") /\ holder' = r
               ELSE RouteAt(r, "answered") /\ UNCHANGED holder
  /\ UNCHANGED <<reportVars, plan, order, stores, old, troubles>>

Sent(r) ==
  /\ OrderAt(r, "queued")
  /\ old' = IF \A s \in Deletes : order[s].at = "none"
              THEN {d \in Documents : Quiet(d)} ELSE old

Send(r) ==
  /\ route[r] = "flushed"
  /\ Sent(r) /\ RouteAt(r, "sent")
  /\ UNCHANGED <<reportVars, plan, holder, stores, troubles>>

\* The call fails, if only for the route, and the transaction is rolled back.
SendFails(r) ==
  /\ route[r] = "flushed" /\ Trouble
  /\ Sent(r) \/ UNCHANGED <<order, old>>
  /\ RouteAt(r, "answered") /\ holder' = None
  /\ UNCHANGED <<reportVars, plan, stores>>

Commit(r) ==
  /\ route[r] = "sent"
  /\ plan' = "DELETING"
  /\ RouteAt(r, "answered") /\ holder' = None
  /\ UNCHANGED <<reportVars, order, stores, old, troubles>>

\* The message is sent all the same.
CommitFails(r) ==
  /\ route[r] = "sent" /\ Trouble
  /\ RouteAt(r, "answered") /\ holder' = None
  /\ UNCHANGED <<reportVars, plan, order, stores, old>>

\* PUT /superadmin/tenants/{id} accepts any plan, whatever the present one.
SetPlan ==
  /\ tenant /\ holder = None /\ plan # "ACTIVE"
  /\ plan' = "ACTIVE"
  /\ UNCHANGED <<reportVars, holder, route, order, stores, old, troubles>>

-----------------------------------------------------------------------------
(* The worker.                                                             *)

Take(r) ==
  /\ order[r].at = "queued"
  /\ order' = [order EXCEPT ![r] = [at |-> "tickets", receives |-> @.receives + 1]]
  /\ UNCHANGED <<reportVars, plan, holder, route, stores, old, troubles>>

DeleteTickets(r) ==
  /\ order[r].at = "tickets" /\ OrderAt(r, "jobs")
  /\ stores' = stores \ {"tickets"}
  /\ UNCHANGED <<reportVars, plan, holder, route, old, troubles>>

DeleteJobs(r) ==
  /\ order[r].at = "jobs" /\ OrderAt(r, "documents")
  /\ job' = [d \in Documents |-> NoJob]
  /\ UNCHANGED <<tenant, request, message, execution, artifacts, notices, faults,
                 plan, holder, route, stores, old, troubles>>

DeleteDocuments(r) ==
  /\ order[r].at = "documents" /\ OrderAt(r, "legacy")
  /\ artifacts' = [d \in Documents |-> {}]
  /\ UNCHANGED <<tenant, request, job, message, execution, notices, faults,
                 plan, holder, route, stores, old, troubles>>

DeleteLegacy(r) ==
  /\ order[r].at = "legacy" /\ OrderAt(r, "sql")
  /\ stores' = stores \ {"legacy"}
  /\ UNCHANGED <<reportVars, plan, holder, route, old, troubles>>

\* Mutant: the rows go first and the stores after them.
DeleteRowsFirst(r) ==
  /\ order[r].at \in {"tickets", "sql"} /\ holder = None
  /\ OrderAt(r, IF order[r].at = "sql" THEN "deleted" ELSE "jobs")
  /\ tenant' = FALSE
  /\ UNCHANGED <<request, job, message, execution, artifacts, notices, faults,
                 plan, holder, route, stores, old, troubles>>

\* The tenant's users and the tenant; nothing if it is gone.
DeleteRows(r) ==
  /\ order[r].at = "sql" /\ holder = None
  /\ OrderAt(r, "deleted") /\ tenant' = FALSE
  /\ UNCHANGED <<request, job, message, execution, artifacts, notices, faults,
                 plan, holder, route, stores, old, troubles>>

Raise(r) ==
  /\ order[r].at \in Work \ {"rescue"} /\ Trouble
  /\ OrderAt(r, "rescue")
  /\ UNCHANGED <<reportVars, plan, holder, route, stores, old>>

Retry(r, last) == OrderAt(r, IF order[r].receives < MaxReceives
                               THEN "queued" ELSE last)

\* The except clause, in a transaction of its own; then the message's retry.
MarkDeletingFailed(r) ==
  /\ order[r].at = "rescue" /\ holder = None
  /\ plan' = IF tenant THEN "DELETING_FAILED" ELSE plan
  /\ Retry(r, "reported")
  /\ UNCHANGED <<reportVars, holder, route, stores, old, troubles>>

\* A timeout, or a failure of the except clause itself.
WorkerDies(r) ==
  /\ order[r].at \in Work /\ Trouble
  /\ Retry(r, "lost")
  /\ UNCHANGED <<reportVars, plan, holder, route, stores, old>>

-----------------------------------------------------------------------------
Answer(r) == Flush(r) \/ Send(r) \/ SendFails(r) \/ Commit(r) \/ CommitFails(r)

Worker(r) ==
  \/ Take(r) \/ DeleteTickets(r) \/ DeleteJobs(r) \/ DeleteDocuments(r)
  \/ DeleteLegacy(r) \/ DeleteRows(r) \/ Raise(r) \/ MarkDeletingFailed(r)
  \/ WorkerDies(r)

DeletionNext ==
  \/ ReportNext /\ UNCHANGED deletionVars
  \/ \E r \in Deletes : Count(r) \/ Answer(r) \/ Worker(r)
  \/ SetPlan

DeletionSpec == DeletionInit /\ [][DeletionNext]_allVars

-----------------------------------------------------------------------------
(* Properties.                                                             *)

\* When the tenant's rows are gone, so is everything it had when its deletion
\* began, whichever step failed and was repeated; what the documents then in
\* progress write later is another matter.
GoneIsEmpty ==
  ~tenant =>
    /\ stores = {}
    /\ \A d \in old : ~Exists(d) /\ artifacts[d] = {}

\* A tenant that stays DELETING, and that the route therefore refuses to
\* delete again, has a worker to come, or one that died on the last receive.
DeletingIsWatched ==
  plan = "DELETING" /\ tenant =>
    \E r \in Deletes : order[r].at \in Work \cup {"queued", "lost"}

\* A deletion leaves nothing behind, and no tenant that nobody deletes.
DeletionIsSound == GoneIsEmpty /\ DeletingIsWatched
=============================================================================
