----------------------------- MODULE ReportJobs -----------------------------
(***************************************************************************)
(* Documents: POST /documents stores a PENDING job and publishes           *)
(* document.requested; the orchestrator takes the event from its queue and *)
(* starts a Step Functions execution; the tasks of the execution make the  *)
(* artifacts in S3, write the end of the job and announce the document.    *)
(*                                                                         *)
(* The status of a job has writers that know nothing of each other: every  *)
(* copy of the event, and the execution.  update_document_status reads the *)
(* job and then updates it without a condition, which are two steps here;  *)
(* what happens between them matters when somebody deletes the job, which  *)
(* the module TenantDeletion adds.                                         *)
(*                                                                         *)
(* get_document_job asks for no consistent read, so that any read of the   *)
(* job may see it as it was, or not at all.  Such a read is counted with   *)
(* the calls that fail: nothing is logged, but the document may be lost.   *)
(***************************************************************************)
EXTENDS Naturals, FiniteSets

CONSTANTS
  Documents,
  Copies,       \* the copies of a document's event in the queue
  MaxReceives,  \* maxReceiveCount of the queue, 3
  MaxRetries,   \* MaxAttempts of a task's Retry, 3
  MaxFaults     \* bound: calls that fail, Lambdas that die and reads that
                \* are behind, per document

ASSUME ReportAssumption ==
  /\ Copies # {} /\ IsFiniteSet(Copies)
  /\ MaxReceives \in Nat \ {0} /\ MaxRetries \in Nat /\ MaxFaults \in Nat

NoJob == [status |-> "none", key |-> FALSE]

VARIABLES
  tenant,     \* whether the tenant and its users exist in SQL
  request,    \* where the POST of each document is
  job,        \* its item in the documents table; key: it has an s3_key
  message,    \* where each copy of its event, and the orchestrator on it, is
  execution,  \* where its execution is
  artifacts,  \* what S3 holds of it
  notices,    \* how often its REPORT_GENERATED was published
  faults      \* what has gone wrong with it: calls, Lambdas, stale reads

reportVars == <<tenant, request, job, message, execution, artifacts, notices,
                faults>>

Stages == {"collect", "generate", "validate", "docx", "pdf"}
Closed == {"succeeded", "failed", "aborted"}
Handling == {"find", "mark", "start", "findArn", "arn", "findFail", "fail"}
Statuses == {"PENDING", "PROCESSING", "COMPLETED", "FAILED"}
Objects  == {"collected", "generated", "document", "preview"}

\* What a task reads, beside what it was handed, and the object it writes.
Needs == [generate |-> "collected", validate |-> "generated",
          docx |-> "generated", pdf |-> "document"]
Makes == [collect |-> {"collected"}, generate |-> {"generated"},
          validate |-> {}, docx |-> {"document"}, pdf |-> {"preview"}]

\* Mutant: the last stage leads back to the first.
ThenAgain == [collect |-> "generate", generate |-> "validate",
              validate |-> "docx", docx |-> "pdf", pdf |-> "collect"]

Then  == [collect |-> "generate", generate |-> "validate",
          validate |-> "docx", docx |-> "pdf", pdf |-> "find"]

Points == {"none", "find", "complete", "notify", "sign", "findFail", "fail"}
            \cup Stages \cup Closed

\* The type invariant.
ReportTypeOK ==
  /\ tenant \in BOOLEAN
  /\ request \in [Documents -> {"new", "authorized", "stored", "accepted"}]
  /\ job \in [Documents -> [status : Statuses \cup {"none"}, key : BOOLEAN]]
  /\ message \in [Documents \X Copies ->
                    [at : {"none", "queued", "acked", "dead"} \cup Handling,
                     receives : 0..MaxReceives]]
  /\ execution \in [Documents -> [at : Points, read : BOOLEAN,
                                  tries : 0..MaxRetries]]
  /\ artifacts \in [Documents -> SUBSET Objects]
  /\ notices \in [Documents -> Nat]
  /\ faults \in [Documents -> 0..MaxFaults]

ReportInit ==
  /\ tenant = TRUE
  /\ request = [d \in Documents |-> "new"]
  /\ job = [d \in Documents |-> NoJob]
  /\ message = [m \in Documents \X Copies |-> [at |-> "none", receives |-> 0]]
  /\ execution = [d \in Documents |-> [at |-> "none", read |-> FALSE,
                                       tries |-> 0]]
  /\ artifacts = [d \in Documents |-> {}]
  /\ notices = [d \in Documents |-> 0]
  /\ faults = [d \in Documents |-> 0]

Exists(d) == job[d] # NoJob

\* update_item: an upsert, so that a job deleted since its read comes back.
Write(d, status, key) ==
  job' = [job EXCEPT ![d] = [status |-> status, key |-> @.key \/ key]]

Goes(m, at) == message' = [message EXCEPT ![m] = [@ EXCEPT !.at = at]]

Reaches(d, at) ==
  execution' = [execution EXCEPT ![d] = [at |-> at, read |-> FALSE,
                                         tries |-> 0]]

Fault(d) == /\ faults[d] < MaxFaults
            /\ faults' = [faults EXCEPT ![d] = @ + 1]

\* Whether a read of the job is behind its last write.  Every job was once
\* absent and once PENDING, so that such a read may have either answer.
Reading(d, behind) == IF behind THEN Fault(d) ELSE UNCHANGED faults

\* Whether get_document_job finds the job.
Finds(d, behind) == Exists(d) # behind

-----------------------------------------------------------------------------
(* POST /documents.                                                        *)

Authorize(d) ==
  /\ request[d] = "new" /\ tenant
  /\ request' = [request EXCEPT ![d] = "authorized"]
  /\ UNCHANGED <<tenant, job, message, execution, artifacts, notices, faults>>

Store(d) ==
  /\ request[d] = "authorized"
  /\ request' = [request EXCEPT ![d] = "stored"]
  /\ job' = [job EXCEPT ![d] = [status |-> "PENDING", key |-> FALSE]]
  /\ UNCHANGED <<tenant, message, execution, artifacts, notices, faults>>

\* EventBridge and SQS deliver an event once or more often.
Publish(d) ==
  /\ request[d] = "stored"
  /\ request' = [request EXCEPT ![d] = "accepted"]
  /\ \E some \in (SUBSET Copies) \ {{}} :
       message' = [m \in DOMAIN message |->
                     IF m[1] = d /\ m[2] \in some
                       THEN [at |-> "queued", receives |-> 0] ELSE message[m]]
  /\ UNCHANGED <<tenant, job, execution, artifacts, notices, faults>>

\* The failure is logged and the answer is 202 all the same.
PublishFails(d) ==
  /\ request[d] = "stored" /\ Fault(d)
  /\ request' = [request EXCEPT ![d] = "accepted"]
  /\ UNCHANGED <<tenant, job, message, execution, artifacts, notices>>

-----------------------------------------------------------------------------
(* The orchestrator, on one copy of the event.                             *)

\* A message whose Lambda failed is visible again, or dead-lettered.
AfterFailure(m) == IF message[m].receives < MaxReceives THEN "queued" ELSE "dead"

\* Mutant: the orchestrator takes a new job for one that is under way.
OnlyFailed(d) == job[d].status = "FAILED"

Startable(d) == job[d].status \in {"PENDING", "FAILED"}

\* A job that is not found, or is under way or made, is nothing to do: the
\* message is deleted.
Receive(d, c) ==
  LET m == <<d, c>> IN
  \E behind \in BOOLEAN :
    /\ message[m].at = "queued" /\ Reading(d, behind)
    /\ message' = [message EXCEPT ![m] =
                     [at |-> IF Startable(d) # behind THEN "find" ELSE "acked",
                      receives |-> @.receives + 1]]
    /\ UNCHANGED <<tenant, request, job, execution, artifacts, notices>>

\* get_document_job_or_404, before each of the three status updates.
Find(d, c) ==
  LET m == <<d, c>> IN
  \E behind \in BOOLEAN :
    /\ Reading(d, behind)
    /\ \/ message[m].at = "find" /\ Finds(d, behind) /\ Goes(m, "mark")
       \/ message[m].at = "findArn" /\ Finds(d, behind) /\ Goes(m, "arn")
       \/ message[m].at = "findFail" /\ Finds(d, behind) /\ Goes(m, "fail")
       \/ message[m].at \in {"find", "findFail"} /\ ~Finds(d, behind)
          /\ Goes(m, AfterFailure(m))
       \/ message[m].at = "findArn" /\ ~Finds(d, behind) /\ Goes(m, "findFail")
    /\ UNCHANGED <<tenant, request, job, execution, artifacts, notices>>

Mark(d, c) ==
  LET m == <<d, c>> IN
  /\ message[m].at = "mark"
  /\ Write(d, "PROCESSING", FALSE)
  /\ Goes(m, "start")
  /\ UNCHANGED <<tenant, request, execution, artifacts, notices, faults>>

\* Mutant: the execution's name is not the document's.
StartedAnew(d) == Reaches(d, "collect")

\* StartExecution with the name document-<id>: once for each document.  The
\* same call again gets the execution while it runs, and an error after it.
Started(d) ==
  IF execution[d].at = "none" THEN Reaches(d, "collect")
                              ELSE UNCHANGED execution

Start(d, c) ==
  LET m == <<d, c>> IN
  /\ message[m].at = "start"
  /\ IF execution[d].at \in Closed
       THEN Goes(m, "findFail") /\ UNCHANGED execution
       ELSE Goes(m, "findArn") /\ Started(d)
  /\ UNCHANGED <<tenant, request, job, artifacts, notices, faults>>

\* The call fails, before or after it took effect.
StartFails(d, c) ==
  LET m == <<d, c>> IN
  /\ message[m].at = "start" /\ execution[d].at \notin Closed /\ Fault(d)
  /\ Goes(m, "findFail")
  /\ Started(d) \/ UNCHANGED execution
  /\ UNCHANGED <<tenant, request, job, artifacts, notices>>

RecordArn(d, c) ==
  LET m == <<d, c>> IN
  /\ message[m].at = "arn"
  /\ Write(d, "PROCESSING", FALSE)
  /\ Goes(m, "acked")
  /\ UNCHANGED <<tenant, request, execution, artifacts, notices, faults>>

\* The update of the execution's ARN failed: the except covers it too.
RecordFails(d, c) ==
  LET m == <<d, c>> IN
  /\ message[m].at \in {"findArn", "arn"} /\ Fault(d)
  /\ Goes(m, "findFail")
  /\ \/ message[m].at = "arn" /\ Write(d, "PROCESSING", FALSE)
     \/ UNCHANGED job
  /\ UNCHANGED <<tenant, request, execution, artifacts, notices>>

MarkFailed(d, c) ==
  LET m == <<d, c>> IN
  /\ message[m].at = "fail"
  /\ Write(d, "FAILED", FALSE)
  /\ Goes(m, "acked")
  /\ UNCHANGED <<tenant, request, execution, artifacts, notices, faults>>

\* The Lambda dies, times out, or an update outside the try raises, which it
\* may do after it was applied.
OrchestratorDies(d, c) ==
  LET m == <<d, c>> IN
  /\ message[m].at \in Handling /\ Fault(d)
  /\ Goes(m, AfterFailure(m))
  /\ \/ message[m].at \in {"mark", "arn"} /\ Write(d, "PROCESSING", FALSE)
     \/ message[m].at = "fail" /\ Write(d, "FAILED", FALSE)
     \/ UNCHANGED job
  /\ UNCHANGED <<tenant, request, execution, artifacts, notices>>

-----------------------------------------------------------------------------
(* The execution.                                                          *)

\* download_artifact and download_document_file: by bucket and key.
Downloadable(d, object) == object \in artifacts[d]

\* What the task reads first: the job, or an artifact, which S3 has at once.
Available(d, behind) ==
  IF execution[d].at = "collect"
    THEN Finds(d, behind) ELSE Downloadable(d, Needs[execution[d].at])

TaskReads(d) ==
  \E behind \in BOOLEAN :
    /\ execution[d].at \in Stages /\ ~execution[d].read
    /\ behind => execution[d].at = "collect"
    /\ Reading(d, behind)
    /\ IF Available(d, behind)
         THEN execution' = [execution EXCEPT ![d] = [@ EXCEPT !.read = TRUE]]
         ELSE Reaches(d, "findFail")
    /\ UNCHANGED <<tenant, request, job, message, artifacts, notices>>

\* upload_artifact, upload_document and upload_preview_pdf: the keys are made
\* of the document's id, so that a second upload replaces the first.
Upload(d) == artifacts' = [artifacts EXCEPT ![d] = @ \cup Makes[execution[d].at]]

TaskEnds(d) ==
  /\ execution[d].at \in Stages /\ execution[d].read
  /\ Upload(d)
  /\ Reaches(d, Then[execution[d].at])
  /\ UNCHANGED <<tenant, request, job, message, notices, faults>>

\* Mutant: a task that fails goes on to the next one.
NextState(d) ==
  IF execution[d].at \in Stages THEN Then[execution[d].at] ELSE "findFail"

\* Catch: States.ALL.
CatchState(d) == "findFail"

\* The task raises, or times out, or its content does not validate.
TaskFails(d) ==
  /\ execution[d].at \in Stages /\ Fault(d)
  /\ Reaches(d, CatchState(d))
  /\ UNCHANGED <<tenant, request, job, message, artifacts, notices>>

\* An error of the Lambda service, which may come after the task's upload.
TaskRetried(d) ==
  LET e == execution[d] IN
  /\ e.at \in Stages /\ Fault(d)
  /\ IF e.tries < MaxRetries
       THEN execution' = [execution EXCEPT ![d] =
                            [at |-> e.at, read |-> FALSE, tries |-> e.tries + 1]]
       ELSE Reaches(d, CatchState(d))
  /\ IF e.read THEN Upload(d) ELSE UNCHANGED artifacts
  /\ UNCHANGED <<tenant, request, job, message, notices>>

\* CompleteReport: the read of update_document_status, its update, ...
FindToComplete(d) ==
  \E behind \in BOOLEAN :
    /\ execution[d].at = "find" /\ Reading(d, behind)
    /\ Reaches(d, IF Finds(d, behind) THEN "complete" ELSE "findFail")
    /\ UNCHANGED <<tenant, request, job, message, artifacts, notices>>

Complete(d) ==
  /\ execution[d].at = "complete"
  /\ Write(d, "COMPLETED", TRUE)
  /\ Reaches(d, "notify")
  /\ UNCHANGED <<tenant, request, message, artifacts, notices, faults>>

\* ... the notification, whose failure is only logged, ...
Notify(d) ==
  /\ execution[d].at = "notify"
  /\ notices' = [notices EXCEPT ![d] = @ + 1]
  /\ Reaches(d, "sign")
  /\ UNCHANGED <<tenant, request, job, message, artifacts, faults>>

NotifyFails(d) ==
  /\ execution[d].at = "notify" /\ Fault(d)
  /\ Reaches(d, "sign")
  /\ UNCHANGED <<tenant, request, job, message, artifacts, notices>>

\* ... and the presigned URL.
Sign(d) ==
  /\ execution[d].at = "sign"
  /\ Reaches(d, "succeeded")
  /\ UNCHANGED <<tenant, request, job, message, artifacts, notices, faults>>

\* CompleteReport raises or times out at any point: it has no Retry.
CompleteFails(d) ==
  /\ execution[d].at \in {"find", "complete", "notify", "sign"} /\ Fault(d)
  /\ Reaches(d, CatchState(d))
  /\ UNCHANGED <<tenant, request, job, message, artifacts, notices>>

\* FailReport: the same Lambda with the status FAILED.
FindToFail(d) ==
  \E behind \in BOOLEAN :
    /\ execution[d].at = "findFail" /\ Reading(d, behind)
    /\ Reaches(d, IF Finds(d, behind) THEN "fail" ELSE "aborted")
    /\ UNCHANGED <<tenant, request, job, message, artifacts, notices>>

Fail(d) ==
  /\ execution[d].at = "fail"
  /\ Write(d, "FAILED", FALSE)
  /\ Reaches(d, "failed")
  /\ UNCHANGED <<tenant, request, message, artifacts, notices, faults>>

\* It has neither Retry nor Catch; its update may have been applied.
FailFails(d) ==
  /\ execution[d].at \in {"findFail", "fail"} /\ Fault(d)
  /\ Reaches(d, "aborted")
  /\ \/ execution[d].at = "fail" /\ Write(d, "FAILED", FALSE)
     \/ UNCHANGED job
  /\ UNCHANGED <<tenant, request, message, artifacts, notices>>

-----------------------------------------------------------------------------
Post(d) == Authorize(d) \/ Store(d) \/ Publish(d) \/ PublishFails(d)

Orchestrate(d, c) ==
  \/ Receive(d, c) \/ Find(d, c) \/ Mark(d, c) \/ Start(d, c)
  \/ StartFails(d, c) \/ RecordArn(d, c) \/ RecordFails(d, c)
  \/ MarkFailed(d, c) \/ OrchestratorDies(d, c)

Execute(d) ==
  \/ TaskReads(d) \/ TaskEnds(d) \/ TaskFails(d) \/ TaskRetried(d)
  \/ FindToComplete(d) \/ Complete(d) \/ Notify(d) \/ NotifyFails(d)
  \/ Sign(d) \/ CompleteFails(d) \/ FindToFail(d) \/ Fail(d) \/ FailFails(d)

ReportNext ==
  \E d \in Documents :
    Post(d) \/ Execute(d) \/ \E c \in Copies : Orchestrate(d, c)

ReportSpec == ReportInit /\ [][ReportNext]_reportVars

(* A request that was authorized is answered, SQS offers its messages, and *)
(* Lambdas and executions come to an end.  Nobody has to ask for one.      *)
ReportFairness ==
  \A d \in Documents :
    /\ WF_reportVars(request[d] # "new" /\ Post(d))
    /\ WF_reportVars(Execute(d))
    /\ \A c \in Copies : WF_reportVars(Orchestrate(d, c))

ReportFairSpec == ReportSpec /\ ReportFairness

-----------------------------------------------------------------------------
(* Properties.                                                             *)

\* The owner is told of a document once, however often its event is
\* delivered, its message received or its tasks retried.
NotifiedOnce == \A d \in Documents : notices[d] <= 1

\* A document he is told of, or that the API gives a downloadUrl for, is in
\* S3 (the comment in report_complete.py), as long as nobody deletes it.
ReadyIsTrue ==
  \A d \in Documents :
    tenant /\ (notices[d] > 0 \/ (job[d].status = "COMPLETED" /\ job[d].key)) =>
      {"document", "preview"} \subseteq artifacts[d]

\* Nothing handles the document any more.
Quiet(d) ==
  /\ request[d] = "accepted"
  /\ \A c \in Copies : message[<<d, c>>].at \in {"none", "acked", "dead"}
  /\ execution[d].at \in {"none"} \cup Closed

\* A document none of whose calls failed, none of whose Lambdas died and none
\* of whose reads was behind does not stay PENDING, and one that stays
\* PROCESSING had an execution that ended, whose outcome the orchestrator's
\* RecordArn overtook.  With one read behind it may stay PENDING for good, and
\* nothing in the logs but "not found": its event is acknowledged by Receive.
NotForgotten ==
  \A d \in Documents :
    Quiet(d) /\ faults[d] = 0 /\ Exists(d) =>
      /\ job[d].status # "PENDING"
      /\ execution[d].at # "none"

\* Every document that is stored comes to rest.
RequestEnds == \A d \in Documents : request[d] = "stored" ~> Quiet(d)

\* docs/frontend-api-consumption.md: "Cortar polling en COMPLETED o FAILED":
\* the client that has read one of them reads no other status later.
PollingEnds ==
  [][\A d \in Documents :
       job[d].status \in {"COMPLETED", "FAILED"} =>
         job'[d].status = job[d].status]_job
=============================================================================
