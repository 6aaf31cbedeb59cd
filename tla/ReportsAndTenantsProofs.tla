----------------------- MODULE ReportsAndTenantsProofs -----------------------
(***************************************************************************)
(* Theorems about ReportJobs for every set of documents and copies of      *)
(* their events: the owner is told of a document once and truly, and a     *)
(* document is not forgotten but by a failure or a stale read.  About      *)
(* TenantDeletion beside it, for every set of requests: a tenant that is   *)
(* gone has left nothing, and one that is DELETING is not left so.  About  *)
(* Accounts for any number of users, tenants, tokens and overlapping       *)
(* requests: the platform's side and the tenants' side never mix, and      *)
(* nobody changes a user of another tenant.  And about ReportContent for   *)
(* any scans, findings, tickets and limits: a report tells what was        *)
(* collected, the same in every place.                                     *)
(***************************************************************************)
EXTENDS TenantDeletion, Accounts, ReportContent, SumTheorems, SequenceTheorems

\* Where an execution that has told the owner may be.
AfterNotice == {"sign", "succeeded", "findFail", "fail", "failed", "aborted"}

\* Where an execution is that has made everything.
Made == {"find", "complete", "notify", "sign", "succeeded"}

Both == {"document", "preview"}

\* A message that is visible again has receives left.
Received == \A m \in Documents \X Copies :
              message[m].at = "queued" => message[m].receives < MaxReceives

\* The artifacts are there before anything says so.
Finishes(d) ==
  /\ notices[d] <= 1
  /\ notices[d] > 0 => execution[d].at \in AfterNotice
  /\ execution[d].at = "pdf" /\ execution[d].read => "document" \in artifacts[d]
  /\ execution[d].at \in Made \/ job[d].key \/ notices[d] > 0 =>
       Both \subseteq artifacts[d]

\* The event is there before the answer, and the job is PROCESSING before its
\* execution is started.
HasStarted(d) ==
  \/ execution[d].at # "none"
  \/ \E c \in Copies : message[<<d, c>>].at = "start"

Remembered(d) ==
  /\ request[d] # "accepted" => \A c \in Copies : message[<<d, c>>].at = "none"
  /\ request[d] \in {"stored", "accepted"} <=> job[d].status # "none"
  /\ execution[d].at # "none" => request[d] = "accepted"
  /\ faults[d] = 0 /\ request[d] = "accepted" =>
       \E c \in Copies : message[<<d, c>>].at # "none"
  /\ faults[d] = 0 /\ job[d].status = "PENDING" =>
       \A c \in Copies : message[<<d, c>>].at \in {"none", "queued", "find", "mark"}
  /\ faults[d] = 0 /\ job[d].status \notin {"none", "PENDING"} => HasStarted(d)

ReportInv ==
  /\ ReportTypeOK /\ Received
  /\ \A d \in Documents : Finishes(d) /\ Remembered(d)

-----------------------------------------------------------------------------
(* The shape of the steps.                                                 *)

JobType == [status : Statuses \cup {"none"}, key : BOOLEAN]
MessageType == [at : {"none", "queued", "acked", "dead"} \cup Handling,
                receives : 0..MaxReceives]
ExecutionType == [at : Points, read : BOOLEAN, tries : 0..MaxRetries]

\* Nothing of another document changes.
Frame(d) ==
  \A e \in Documents \ {d} :
    /\ request'[e] = request[e] /\ job'[e] = job[e]
    /\ \A c \in Copies : message'[<<e, c>>] = message[<<e, c>>]
    /\ execution'[e] = execution[e] /\ artifacts'[e] = artifacts[e]
    /\ notices'[e] = notices[e] /\ faults'[e] = faults[e]

LEMMA Records ==
  ASSUME ReportTypeOK
  PROVE  /\ \A d \in Documents :
              /\ job[d] = [status |-> job[d].status, key |-> job[d].key]
              /\ execution[d] = [at |-> execution[d].at, read |-> execution[d].read,
                                 tries |-> execution[d].tries]
         /\ \A d \in Documents, c \in Copies :
              message[<<d, c>>] = [at |-> message[<<d, c>>].at,
                                   receives |-> message[<<d, c>>].receives]
BY DEF ReportTypeOK

LEMMA GoesTo ==
  ASSUME ReportTypeOK, NEW d \in Documents, NEW c \in Copies, NEW at,
         Goes(<<d, c>>, at)
  PROVE  message' = [message EXCEPT ![<<d, c>>] =
                       [at |-> at, receives |-> message[<<d, c>>].receives]]
<1>1. [message[<<d, c>>] EXCEPT !.at = at] =
        [at |-> at, receives |-> message[<<d, c>>].receives]
  <2>1. \A r, a, n : r = [at |-> a, receives |-> n] =>
          [r EXCEPT !.at = at] = [at |-> at, receives |-> n]
    OBVIOUS
  <2>2. message[<<d, c>>] = [at |-> message[<<d, c>>].at,
                             receives |-> message[<<d, c>>].receives]
    BY Records
  <2> QED
    BY <2>1, <2>2
<1> QED
  BY <1>1 DEF Goes

LEMMA Writes ==
  ASSUME ReportTypeOK, NEW d \in Documents, NEW status, NEW key \in BOOLEAN,
         Write(d, status, key)
  PROVE  job' = [job EXCEPT ![d] = [status |-> status, key |-> job[d].key \/ key]]
BY DEF Write

\* A message of the document goes on; nothing else of messages changes.
LEMMA MessageGoes ==
  ASSUME ReportTypeOK, NEW d \in Documents, NEW c \in Copies, NEW at,
         NEW n, message' = [message EXCEPT ![<<d, c>>] = [at |-> at, receives |-> n]]
  PROVE  /\ message'[<<d, c>>].at = at /\ message'[<<d, c>>].receives = n
         /\ \A b \in Copies \ {c} : message'[<<d, b>>] = message[<<d, b>>]
         /\ \A e \in Documents \ {d}, b \in Copies :
              message'[<<e, b>>] = message[<<e, b>>]
         /\ (at \in {"none", "queued", "acked", "dead"} \cup Handling
              /\ n \in 0..MaxReceives =>
              message' \in [Documents \X Copies -> MessageType])
<1>1. <<d, c>> \in Documents \X Copies
  OBVIOUS
<1>2. message \in [Documents \X Copies -> MessageType]
  BY DEF ReportTypeOK, MessageType
<1>3. \A e \in Documents, b \in Copies : <<e, b>> \in Documents \X Copies
        /\ (<<e, b>> = <<d, c>> => e = d /\ b = c)
  OBVIOUS
<1>4. ASSUME at \in {"none", "queued", "acked", "dead"} \cup Handling,
             n \in 0..MaxReceives
      PROVE  message' \in [Documents \X Copies -> MessageType]
  <2>1. [at |-> at, receives |-> n] \in MessageType
    BY <1>4 DEF MessageType
  <2> QED
    BY <1>1, <1>2, <2>1
<1> QED
  BY <1>1, <1>2, <1>3, <1>4

Faulty(d) ==
  \/ faults' = faults
  \/ faults[d] < MaxFaults /\ faults' = [faults EXCEPT ![d] = faults[d] + 1]

-----------------------------------------------------------------------------
(* The orchestrator.                                                       *)

\* What a step of the orchestrator on one copy does, where at and n are what
\* becomes of the copy.
Orchestrated(d, c, at, n) ==
  LET from == message[<<d, c>>].at IN
  /\ UNCHANGED <<tenant, request, artifacts, notices>> /\ Faulty(d)
  /\ message' = [message EXCEPT ![<<d, c>>] = [at |-> at, receives |-> n]]
  /\ from # "none" /\ at \in {"queued", "acked", "dead"} \cup Handling
  /\ n \in 0..MaxReceives /\ (at = "queued" => n < MaxReceives)
  /\ \/ job' = job
     \/ \E s \in {"PROCESSING", "FAILED"} :
          /\ job' = [job EXCEPT ![d] = [status |-> s, key |-> job[d].key]]
          /\ faults' = faults => at = "start" \/ from \in {"arn", "fail"}
  /\ \/ execution' = execution
     \/ /\ execution[d].at = "none" /\ from = "start"
        /\ execution' = [execution EXCEPT ![d] =
                           [at |-> "collect", read |-> FALSE, tries |-> 0]]
  /\ faults' = faults =>
       /\ from = "start" => execution'[d].at # "none"
       /\ from = "queued" /\ job[d].status = "PENDING" => at = "find"
       /\ from = "find" /\ job[d].status = "PENDING" => at = "mark"
       /\ from = "mark" => job'[d].status = "PROCESSING"

LEMMA OrchestratorSteps ==
  ASSUME ReportTypeOK, Received, NEW d \in Documents, NEW c \in Copies,
         Orchestrate(d, c)
  PROVE  \E at, n : Orchestrated(d, c, at, n)
<1> DEFINE m == <<d, c>>
           was == message[m].receives
<1>0. /\ m \in Documents \X Copies /\ was \in 0..MaxReceives
      /\ message[m].at = "queued" => was < MaxReceives
      /\ MaxReceives \in Nat
      /\ faults[d] \in 0..MaxFaults
      /\ job \in [Documents -> JobType]
      /\ execution \in [Documents -> ExecutionType]
  BY ReportAssumption DEF ReportTypeOK, Received, JobType, ExecutionType
<1>1. /\ AfterFailure(m) \in {"queued", "dead"}
      /\ AfterFailure(m) = "queued" => was < MaxReceives
  BY DEF AfterFailure
<1>2. \A at : Goes(m, at) =>
        message' = [message EXCEPT ![m] = [at |-> at, receives |-> was]]
  BY GoesTo
<1>3. \A s : Write(d, s, FALSE) =>
        job' = [job EXCEPT ![d] = [status |-> s, key |-> job[d].key]]
  BY <1>0, Writes, ZenonT(60) DEF JobType
<1>4. job[d].status = "PENDING" => Exists(d) /\ Startable(d)
  BY DEF Exists, Startable, NoJob
<1>5. Fault(d) => faults[d] < MaxFaults /\ faults' = [faults EXCEPT ![d] = faults[d] + 1]
                   /\ faults' # faults
  BY <1>0 DEF Fault, ReportTypeOK
<1>15. \A behind \in BOOLEAN : Reading(d, behind) =>
         Faulty(d) /\ (behind => faults' # faults)
  BY <1>5 DEF Reading, Faulty
<1> HIDE DEF was
<1>6. CASE Receive(d, c)
  <2>0. PICK behind \in BOOLEAN :
          /\ message[m].at = "queued" /\ Reading(d, behind)
          /\ message' = [message EXCEPT ![m] =
                           [at |-> IF Startable(d) # behind THEN "find" ELSE "acked",
                            receives |-> @.receives + 1]]
          /\ UNCHANGED <<tenant, request, job, execution, artifacts, notices>>
    BY <1>6 DEF Receive
  <2> DEFINE to == IF Startable(d) # behind THEN "find" ELSE "acked"
  <2>1. message' = [message EXCEPT ![m] = [at |-> to, receives |-> was + 1]]
    BY <2>0 DEF was
  <2>2. /\ was + 1 \in 0..MaxReceives /\ to \in {"find", "acked"}
        /\ job[d].status = "PENDING" /\ ~behind => to = "find"
    BY <1>0, <1>4, <2>0
  <2> HIDE DEF to
  <2>3. Orchestrated(d, c, to, was + 1)
    BY <1>15, <2>0, <2>1, <2>2 DEF Orchestrated, Handling
  <2> QED
    BY <2>3
<1>7. CASE Find(d, c)
  <2>0. PICK behind \in BOOLEAN :
          /\ Reading(d, behind)
          /\ \E at : /\ Goes(m, at)
                     /\ \/ /\ message[m].at = "find"
                           /\ at \in {"mark", AfterFailure(m)}
                           /\ Finds(d, behind) => at = "mark"
                        \/ message[m].at = "findArn" /\ at \in {"arn", "findFail"}
                        \/ /\ message[m].at = "findFail"
                           /\ at \in {"fail", AfterFailure(m)}
          /\ UNCHANGED <<tenant, request, job, execution, artifacts, notices>>
    BY <1>7 DEF Find
  <2>1. PICK at : /\ Goes(m, at)
                  /\ \/ /\ message[m].at = "find"
                        /\ at \in {"mark", AfterFailure(m)}
                        /\ Finds(d, behind) => at = "mark"
                     \/ message[m].at = "findArn" /\ at \in {"arn", "findFail"}
                     \/ /\ message[m].at = "findFail"
                        /\ at \in {"fail", AfterFailure(m)}
    BY <2>0
  <2>2. job[d].status = "PENDING" /\ ~behind => Finds(d, behind)
    BY <1>4 DEF Finds, Exists
  <2>3. Orchestrated(d, c, at, was)
    BY <1>0, <1>1, <1>2, <1>15, <2>0, <2>1, <2>2 DEF Orchestrated, Handling
  <2> QED
    BY <2>3
<1>8. CASE Mark(d, c)
  <2>0. job' = [job EXCEPT ![d] = [status |-> "PROCESSING", key |-> job[d].key]]
    BY <1>3, <1>8 DEF Mark
  <2>1. job'[d].status = "PROCESSING"
    BY <1>0, <2>0
  <2>2. Orchestrated(d, c, "start", was)
    BY <1>0, <1>2, <1>8, <2>0, <2>1 DEF Mark, Orchestrated, Faulty, Handling
  <2> QED
    BY <2>2
<1>9. CASE Start(d, c)
  <2>1. CASE execution[d].at \in Closed
    <3>1. Orchestrated(d, c, "findFail", was)
      BY <1>0, <1>2, <1>9, <2>1 DEF Start, Orchestrated, Faulty, Handling, Closed
    <3> QED
      BY <3>1
  <2>2. CASE execution[d].at \notin Closed
    <3>1. Orchestrated(d, c, "findArn", was)
      BY <1>0, <1>2, <1>9, <2>2 DEF Start, Started, Reaches, Orchestrated,
        Faulty, Handling, Closed
    <3> QED
      BY <3>1
  <2> QED
    BY <2>1, <2>2
<1>10. CASE StartFails(d, c)
  <2>1. Orchestrated(d, c, "findFail", was)
    BY <1>0, <1>2, <1>5, <1>10 DEF StartFails, Started, Reaches, Orchestrated,
      Faulty, Handling
  <2> QED
    BY <2>1
<1>11. CASE RecordArn(d, c)
  <2>1. Orchestrated(d, c, "acked", was)
    BY <1>0, <1>2, <1>3, <1>11 DEF RecordArn, Orchestrated, Faulty, Handling
  <2> QED
    BY <2>1
<1>12. CASE RecordFails(d, c)
  <2>1. Orchestrated(d, c, "findFail", was)
    BY <1>0, <1>2, <1>3, <1>5, <1>12 DEF RecordFails, Orchestrated, Faulty, Handling
  <2> QED
    BY <2>1
<1>13. CASE MarkFailed(d, c)
  <2>1. Orchestrated(d, c, "acked", was)
    BY <1>0, <1>2, <1>3, <1>13 DEF MarkFailed, Orchestrated, Faulty, Handling
  <2> QED
    BY <2>1
<1>14. CASE OrchestratorDies(d, c)
  <2>1. Orchestrated(d, c, AfterFailure(m), was)
    BY <1>0, <1>1, <1>2, <1>3, <1>5, <1>14 DEF OrchestratorDies, Orchestrated,
      Faulty, Handling
  <2> QED
    BY <2>1
<1> QED
  BY <1>6, <1>7, <1>8, <1>9, <1>10, <1>11, <1>12, <1>13, <1>14 DEF Orchestrate

-----------------------------------------------------------------------------
(* The execution.                                                          *)

\* What a step of the execution does, which goes to e.
Executed(d, e) ==
  LET from == execution[d].at IN
  /\ UNCHANGED <<tenant, request, message>> /\ Faulty(d)
  /\ from # "none" /\ e.at # "none" /\ e \in ExecutionType
  /\ execution' = [execution EXCEPT ![d] = e]
  /\ \E new \in SUBSET Objects :
       /\ artifacts[d] \subseteq new
       /\ artifacts' = [artifacts EXCEPT ![d] = new]
       /\ e.at = "pdf" /\ e.read => "document" \in new
       /\ e.at \in Made => Both \subseteq new
  /\ from \in AfterNotice => e.at \in AfterNotice
  /\ \/ notices' = notices
     \/ /\ from = "notify" /\ e.at = "sign"
        /\ notices' = [notices EXCEPT ![d] = notices[d] + 1]
  /\ \/ job' = job
     \/ \E s \in {"COMPLETED", "FAILED"}, key \in BOOLEAN :
          /\ job' = [job EXCEPT ![d] = [status |-> s, key |-> job[d].key \/ key]]
          /\ key => e.at = "notify"

LEMMA ExecutionSteps ==
  ASSUME ReportTypeOK, NEW d \in Documents, Finishes(d), Execute(d)
  PROVE  \E e : Executed(d, e)
<1> DEFINE now == execution[d]
           To(at) == [at |-> at, read |-> FALSE, tries |-> 0]
<1>0. /\ job \in [Documents -> JobType] /\ artifacts[d] \in SUBSET Objects
      /\ execution \in [Documents -> ExecutionType] /\ now \in ExecutionType
      /\ now = [at |-> now.at, read |-> now.read, tries |-> now.tries]
      /\ notices \in [Documents -> Nat] /\ artifacts = [artifacts EXCEPT ![d] = @]
      /\ MaxRetries \in Nat /\ faults[d] \in 0..MaxFaults
  BY Records, ReportAssumption DEF ReportTypeOK, JobType, ExecutionType
<1>1. \A at \in Points \ {"none"} :
        Reaches(d, at) => execution' = [execution EXCEPT ![d] = To(at)]
                          /\ To(at) \in ExecutionType /\ To(at).at = at
                          /\ ~To(at).read
  BY <1>0 DEF Reaches, ExecutionType
<1>2. Fault(d) => faults[d] < MaxFaults /\ faults' = [faults EXCEPT ![d] = faults[d] + 1]
  BY DEF Fault
<1>3. /\ now.at = "pdf" /\ now.read => "document" \in artifacts[d]
      /\ now.at \in Made => Both \subseteq artifacts[d]
  BY DEF Finishes
<1>4. \A s : \A key \in BOOLEAN : Write(d, s, key) =>
        job' = [job EXCEPT ![d] = [status |-> s, key |-> job[d].key \/ key]]
  BY Writes
<1>16. \A behind \in BOOLEAN : Reading(d, behind) => Faulty(d)
  BY <1>2 DEF Reading, Faulty
<1> HIDE DEF now, To
<1>5. CASE TaskReads(d)
  <2>0. PICK behind \in BOOLEAN :
          /\ now.at \in Stages /\ ~now.read /\ Reading(d, behind)
          /\ IF Available(d, behind)
               THEN execution' = [execution EXCEPT ![d] = [@ EXCEPT !.read = TRUE]]
               ELSE Reaches(d, "findFail")
          /\ UNCHANGED <<tenant, request, job, message, artifacts, notices>>
    BY <1>5 DEF TaskReads, now
  <2>1. CASE Available(d, behind)
    <3> DEFINE e == [at |-> now.at, read |-> TRUE, tries |-> now.tries]
    <3>1. execution' = [execution EXCEPT ![d] = e] /\ e \in ExecutionType
      BY <1>0, <2>0, <2>1 DEF ExecutionType, now
    <3>2. now.at = "pdf" => "document" \in artifacts[d]
      BY <2>1 DEF Available, Downloadable, Needs, now
    <3>3. Executed(d, e)
      BY <1>0, <1>16, <2>0, <3>1, <3>2 DEF Executed, Stages, Made, AfterNotice, now
    <3> QED
      BY <3>3
  <2>2. CASE ~Available(d, behind)
    <3>1. Executed(d, To("findFail"))
      BY <1>0, <1>1, <1>16, <2>0, <2>2 DEF Executed, Stages, Made, AfterNotice,
        Points, now
    <3> QED
      BY <3>1
  <2> QED
    BY <2>1, <2>2
<1>6. CASE TaskEnds(d)
  <2> DEFINE new == artifacts[d] \cup Makes[now.at]
  <2>1. /\ new \subseteq Objects /\ Then[now.at] \in Points \ {"none"}
        /\ Then[now.at] \in Made => now.at = "pdf" /\ Both \subseteq new
        /\ artifacts' = [artifacts EXCEPT ![d] = new]
    BY <1>0, <1>3, <1>6 DEF TaskEnds, Upload, Makes, Then, Objects, Stages, Points,
      Made, Both, now
  <2>2. now.at \in Stages /\ Reaches(d, Then[now.at])
    BY <1>6 DEF TaskEnds, now
  <2> HIDE DEF new
  <2>3. Executed(d, To(Then[now.at]))
    BY <1>0, <1>1, <1>6, <2>1, <2>2 DEF TaskEnds, Executed, Faulty, Stages,
      AfterNotice, new, now
  <2> QED
    BY <2>3
<1>7. CASE TaskFails(d) \/ CompleteFails(d)
  <2>1. Executed(d, To("findFail"))
    BY <1>0, <1>1, <1>2, <1>7 DEF TaskFails, CompleteFails, CatchState, Executed,
      Faulty, Stages, Made, AfterNotice, Points, now
  <2> QED
    BY <2>1
<1>8. CASE TaskRetried(d)
  <2> DEFINE new == IF now.read THEN artifacts[d] \cup Makes[now.at] ELSE artifacts[d]
  <2>1. /\ new \subseteq Objects /\ artifacts[d] \subseteq new
        /\ artifacts' = [artifacts EXCEPT ![d] = new] /\ now.at \in Stages
    <3>1. now.at \in Stages /\ Makes[now.at] \subseteq Objects
      BY <1>8 DEF TaskRetried, Makes, Objects, Stages, now
    <3>2. artifacts' = IF now.read THEN [artifacts EXCEPT ![d] = @ \cup Makes[now.at]]
                                   ELSE artifacts
      BY <1>8 DEF TaskRetried, Upload, now
    <3> QED
      BY <1>0, <3>1, <3>2
  <2> HIDE DEF new
  <2>2. CASE now.tries < MaxRetries
    <3> DEFINE e == [at |-> now.at, read |-> FALSE, tries |-> now.tries + 1]
    <3>1. execution' = [execution EXCEPT ![d] = e]
      BY <1>8, <2>2 DEF TaskRetried, now
    <3>2. now.tries + 1 \in 0..MaxRetries
      BY <1>0, <2>2 DEF ExecutionType
    <3>3. e \in ExecutionType
      BY <1>0, <3>2 DEF ExecutionType
    <3>4. Executed(d, e)
      BY <1>0, <1>2, <1>8, <2>1, <3>1, <3>3 DEF TaskRetried, Executed, Faulty,
        Stages, Made, AfterNotice, now
    <3> QED
      BY <3>4
  <2>3. CASE ~(now.tries < MaxRetries)
    <3>1. Executed(d, To("findFail"))
      BY <1>0, <1>1, <1>2, <1>8, <2>1, <2>3 DEF TaskRetried, CatchState, Executed,
        Faulty, Stages, Made, AfterNotice, Points, now
    <3> QED
      BY <3>1
  <2> QED
    BY <2>2, <2>3
<1>9. CASE FindToComplete(d)
  <2>1. PICK to \in {"complete", "findFail"} :
          /\ now.at = "find" /\ Reaches(d, to) /\ Faulty(d)
          /\ UNCHANGED <<tenant, request, job, message, artifacts, notices>>
    BY <1>9, <1>16 DEF FindToComplete, now
  <2>2. Executed(d, To(to))
    BY <1>0, <1>1, <1>3, <2>1 DEF Executed, Made, AfterNotice, Points, now
  <2> QED
    BY <2>2
<1>10. CASE Complete(d)
  <2>1. Executed(d, To("notify"))
    BY <1>0, <1>1, <1>3, <1>4, <1>10 DEF Complete, Executed, Faulty, Made,
      AfterNotice, Points, now
  <2> QED
    BY <2>1
<1>11. CASE Notify(d) \/ NotifyFails(d)
  <2>1. Executed(d, To("sign"))
    BY <1>0, <1>1, <1>2, <1>3, <1>11 DEF Notify, NotifyFails, Executed, Faulty,
      Made, AfterNotice, Points, now
  <2> QED
    BY <2>1
<1>12. CASE Sign(d)
  <2>1. Executed(d, To("succeeded"))
    BY <1>0, <1>1, <1>3, <1>12 DEF Sign, Executed, Faulty, Made, AfterNotice,
      Points, Closed, now
  <2> QED
    BY <2>1
<1>13. CASE FindToFail(d)
  <2>1. PICK to \in {"fail", "aborted"} :
          /\ now.at = "findFail" /\ Reaches(d, to) /\ Faulty(d)
          /\ UNCHANGED <<tenant, request, job, message, artifacts, notices>>
    BY <1>13, <1>16 DEF FindToFail, now
  <2>2. Executed(d, To(to))
    BY <1>0, <1>1, <2>1 DEF Executed, Made, AfterNotice, Points, Closed, now
  <2> QED
    BY <2>2
<1>14. CASE Fail(d)
  <2>1. Executed(d, To("failed"))
    BY <1>0, <1>1, <1>4, <1>14 DEF Fail, Executed, Faulty, Made, AfterNotice,
      Points, Closed, now
  <2> QED
    BY <2>1
<1>15. CASE FailFails(d)
  <2>1. Executed(d, To("aborted"))
    BY <1>0, <1>1, <1>2, <1>4, <1>15 DEF FailFails, Executed, Faulty, Made,
      AfterNotice, Points, Closed, now
  <2> QED
    BY <2>1
<1> QED
  BY <1>5, <1>6, <1>7, <1>8, <1>9, <1>10, <1>11, <1>12, <1>13, <1>14, <1>15
     DEF Execute

-----------------------------------------------------------------------------
(* The invariant.                                                          *)

LEMMA ReportInvInit == ReportInit => ReportInv
<1> SUFFICES ASSUME ReportInit PROVE ReportInv
  OBVIOUS
<1>1. ReportTypeOK
  BY ReportAssumption DEF ReportInit, ReportTypeOK, NoJob, Points, Statuses
<1>2. Received
  BY DEF ReportInit, Received
<1>3. ASSUME NEW d \in Documents PROVE Finishes(d)
  BY <1>3 DEF ReportInit, Finishes, NoJob, Made
<1>4. ASSUME NEW d \in Documents PROVE Remembered(d)
  BY <1>4 DEF ReportInit, Remembered, NoJob
<1> QED
  BY <1>1, <1>2, <1>3, <1>4 DEF ReportInv

LEMMA FaultyKeeps ==
  ASSUME ReportTypeOK, NEW d \in Documents, Faulty(d)
  PROVE  /\ faults' \in [Documents -> 0..MaxFaults]
         /\ faults'[d] = 0 => faults' = faults
         /\ \A e \in Documents \ {d} : faults'[e] = faults[e]
<1>1. CASE faults' = faults
  BY <1>1 DEF ReportTypeOK
<1>2. CASE faults[d] < MaxFaults /\ faults' = [faults EXCEPT ![d] = faults[d] + 1]
  <2>1. MaxFaults \in Nat /\ faults \in [Documents -> 0..MaxFaults]
    BY ReportAssumption DEF ReportTypeOK
  <2>2. faults[d] + 1 \in 0..MaxFaults /\ faults[d] + 1 # 0
    BY <1>2, <2>1
  <2> QED
    BY <1>2, <2>1, <2>2
<1> QED
  BY <1>1, <1>2 DEF Faulty

\* What is not of the document stays as it was, and so does what holds of it.
LEMMA OthersKeep ==
  ASSUME NEW d \in Documents, Frame(d), NEW e \in Documents \ {d},
         Finishes(e), Remembered(e)
  PROVE  Finishes(e)' /\ Remembered(e)'
<1>1. /\ request'[e] = request[e] /\ job'[e] = job[e]
      /\ execution'[e] = execution[e] /\ artifacts'[e] = artifacts[e]
      /\ notices'[e] = notices[e] /\ faults'[e] = faults[e]
      /\ \A c \in Copies : message'[<<e, c>>] = message[<<e, c>>]
  BY DEF Frame
<1> QED
  BY <1>1 DEF Finishes, Remembered, HasStarted

LEMMA OrchestratorKeeps ==
  ASSUME ReportInv, NEW d \in Documents, NEW c \in Copies, Orchestrate(d, c)
  PROVE  /\ ReportTypeOK' /\ Received' /\ Frame(d)
         /\ Finishes(d)' /\ Remembered(d)'
<1>0. ReportTypeOK /\ Received /\ Finishes(d) /\ Remembered(d)
  BY DEF ReportInv
<1>1. PICK at, n : Orchestrated(d, c, at, n)
  BY <1>0, OrchestratorSteps
<1>2. /\ message'[<<d, c>>].at = at /\ message'[<<d, c>>].receives = n
      /\ \A b \in Copies \ {c} : message'[<<d, b>>] = message[<<d, b>>]
      /\ \A e \in Documents \ {d}, b \in Copies :
           message'[<<e, b>>] = message[<<e, b>>]
      /\ message' \in [Documents \X Copies -> MessageType]
  BY <1>0, <1>1, MessageGoes DEF Orchestrated
<1>3. /\ faults' \in [Documents -> 0..MaxFaults]
      /\ faults'[d] = 0 => faults' = faults
      /\ \A e \in Documents \ {d} : faults'[e] = faults[e]
  BY <1>0, <1>1, FaultyKeeps DEF Orchestrated
<1>4. /\ job' \in [Documents -> JobType] /\ job'[d].key = job[d].key
      /\ job'[d].status # job[d].status => job'[d].status \in {"PROCESSING", "FAILED"}
      /\ job'[d].status # job[d].status /\ faults' = faults =>
           at = "start" \/ message[<<d, c>>].at \in {"arn", "fail"}
      /\ \A e \in Documents \ {d} : job'[e] = job[e]
  <2>0. job \in [Documents -> JobType]
    BY <1>0 DEF ReportTypeOK, JobType
  <2>1. CASE job' = job
    BY <2>0, <2>1
  <2>2. CASE job' # job
    <3>1. PICK s \in {"PROCESSING", "FAILED"} :
            /\ job' = [job EXCEPT ![d] = [status |-> s, key |-> job[d].key]]
            /\ faults' = faults => at = "start" \/ message[<<d, c>>].at \in {"arn", "fail"}
      BY <1>1, <2>2 DEF Orchestrated
    <3>2. [status |-> s, key |-> job[d].key] \in JobType
      BY <2>0 DEF JobType, Statuses
    <3> QED
      BY <2>0, <3>1, <3>2
  <2> QED
    BY <2>1, <2>2
<1>5. /\ execution' \in [Documents -> ExecutionType]
      /\ \A e \in Documents \ {d} : execution'[e] = execution[e]
      /\ \/ execution'[d] = execution[d]
         \/ execution[d].at = "none" /\ execution'[d].at = "collect"
  <2>0. execution \in [Documents -> ExecutionType] /\ MaxRetries \in Nat
    BY <1>0, ReportAssumption DEF ReportTypeOK, ExecutionType
  <2>1. [at |-> "collect", read |-> FALSE, tries |-> 0] \in ExecutionType
    BY <2>0 DEF ExecutionType, Points, Stages
  <2>2. \/ execution' = execution
        \/ /\ execution[d].at = "none"
           /\ execution' = [execution EXCEPT ![d] =
                              [at |-> "collect", read |-> FALSE, tries |-> 0]]
    BY <1>1 DEF Orchestrated
  <2>3. execution' \in [Documents -> ExecutionType]
    BY <2>0, <2>1, <2>2
  <2>4. \A e \in Documents \ {d} : execution'[e] = execution[e]
    BY <2>0, <2>2
  <2>5. \/ execution'[d] = execution[d]
        \/ execution[d].at = "none" /\ execution'[d].at = "collect"
    BY <2>0, <2>2
  <2> QED
    BY <2>3, <2>4, <2>5
<1>6. UNCHANGED <<tenant, request, artifacts, notices>>
  BY <1>1 DEF Orchestrated
<1>7. ReportTypeOK'
  BY <1>0, <1>2, <1>3, <1>4, <1>5, <1>6 DEF ReportTypeOK, JobType, MessageType,
    ExecutionType
<1>8. Received'
  <2> SUFFICES ASSUME NEW e \in Documents, NEW b \in Copies,
                      message'[<<e, b>>].at = "queued"
               PROVE  message'[<<e, b>>].receives < MaxReceives
    BY DEF Received
  <2>1. CASE e = d /\ b = c
    BY <1>1, <1>2, <2>1 DEF Orchestrated
  <2>2. CASE ~(e = d /\ b = c)
    <3>1. message'[<<e, b>>] = message[<<e, b>>] /\ <<e, b>> \in Documents \X Copies
      BY <1>2, <2>2
    <3> QED
      BY <1>0, <3>1 DEF Received
  <2> QED
    BY <2>1, <2>2
<1>9. Frame(d)
  BY <1>2, <1>3, <1>4, <1>5, <1>6 DEF Frame
<1>10. Finishes(d)'
  BY <1>0, <1>4, <1>5, <1>6 DEF Finishes, AfterNotice, Made
<1>11. Remembered(d)'
  <2> DEFINE from == message[<<d, c>>].at
  <2>0. /\ from # "none" /\ at # "none"
        /\ faults' = faults =>
             /\ from = "start" => execution'[d].at # "none"
             /\ from = "queued" /\ job[d].status = "PENDING" => at = "find"
             /\ from = "find" /\ job[d].status = "PENDING" => at = "mark"
             /\ from = "mark" => job'[d].status = "PROCESSING"
    BY <1>1 DEF Orchestrated, Handling
  <2>1. request'[d] = "accepted" /\ job[d].status # "none"
    BY <1>0, <1>6, <2>0 DEF Remembered
  <2>2. job'[d].status # "none"
    BY <1>4, <2>1
  <2>3. \E b \in Copies : message'[<<d, b>>].at # "none"
    BY <1>2, <2>0
  <2>4. ASSUME faults'[d] = 0, job'[d].status = "PENDING", NEW b \in Copies
        PROVE  message'[<<d, b>>].at \in {"none", "queued", "find", "mark"}
    <3>1. job[d].status = "PENDING" /\ faults' = faults
      BY <1>3, <1>4, <2>4
    <3>2. message[<<d, b>>].at \in {"none", "queued", "find", "mark"}
      BY <1>0, <2>4, <3>1 DEF Remembered
    <3>3. CASE b = c
      BY <1>2, <2>0, <2>4, <3>1, <3>2, <3>3
    <3> QED
      BY <1>2, <3>2, <3>3
  <2>5. ASSUME faults'[d] = 0, job'[d].status \notin {"none", "PENDING"}
        PROVE  HasStarted(d)'
    <3>1. faults' = faults /\ faults[d] = 0
      BY <1>3, <2>5
    <3>2. CASE execution[d].at # "none"
      BY <1>5, <3>2 DEF HasStarted
    <3>3. CASE execution[d].at = "none" /\ job[d].status = "PENDING"
      <4>1. from \in {"none", "queued", "find", "mark"}
        BY <1>0, <3>1, <3>3 DEF Remembered
      <4>2. at = "start"
        BY <1>4, <2>5, <3>1, <3>3, <4>1
      <4> QED
        BY <1>2, <4>2 DEF HasStarted
    <3>4. CASE execution[d].at = "none" /\ job[d].status # "PENDING"
      <4>1. PICK b \in Copies : message[<<d, b>>].at = "start"
        BY <1>0, <2>1, <3>1, <3>4 DEF Remembered, HasStarted
      <4>2. CASE b = c
        BY <2>0, <3>1, <4>1, <4>2 DEF HasStarted
      <4>3. CASE b # c
        BY <1>2, <4>1, <4>3 DEF HasStarted
      <4> QED
        BY <4>2, <4>3
    <3> QED
      BY <3>2, <3>3, <3>4
  <2> QED
    BY <2>1, <2>2, <2>3, <2>4, <2>5 DEF Remembered
<1> QED
  BY <1>7, <1>8, <1>9, <1>10, <1>11

LEMMA ExecutionKeeps ==
  ASSUME ReportInv, NEW d \in Documents, Execute(d)
  PROVE  /\ ReportTypeOK' /\ Received' /\ Frame(d)
         /\ Finishes(d)' /\ Remembered(d)'
<1>0. ReportTypeOK /\ Received /\ Finishes(d) /\ Remembered(d)
  BY DEF ReportInv
<1>1. PICK e : Executed(d, e)
  BY <1>0, ExecutionSteps
<1>2. UNCHANGED <<tenant, request, message>>
  BY <1>1 DEF Executed
<1>3. /\ faults' \in [Documents -> 0..MaxFaults]
      /\ faults'[d] = 0 => faults' = faults
      /\ \A f \in Documents \ {d} : faults'[f] = faults[f]
  BY <1>0, <1>1, FaultyKeeps DEF Executed
<1>4. /\ execution' \in [Documents -> ExecutionType] /\ execution'[d] = e
      /\ execution[d].at # "none" /\ e.at # "none"
      /\ \A f \in Documents \ {d} : execution'[f] = execution[f]
  <2>1. execution \in [Documents -> ExecutionType]
    BY <1>0 DEF ReportTypeOK, ExecutionType
  <2> QED
    BY <1>1, <2>1 DEF Executed
<1>5. PICK new \in SUBSET Objects :
        /\ artifacts[d] \subseteq new
        /\ artifacts' = [artifacts EXCEPT ![d] = new]
        /\ e.at = "pdf" /\ e.read => "document" \in new
        /\ e.at \in Made => Both \subseteq new
  BY <1>1 DEF Executed
<1>6. /\ artifacts' \in [Documents -> SUBSET Objects] /\ artifacts'[d] = new
      /\ \A f \in Documents \ {d} : artifacts'[f] = artifacts[f]
  BY <1>0, <1>5 DEF ReportTypeOK
<1>7. /\ notices' \in [Documents -> Nat]
      /\ \/ notices'[d] = notices[d]
         \/ /\ execution[d].at = "notify" /\ e.at = "sign"
            /\ notices'[d] = notices[d] + 1
      /\ \A f \in Documents \ {d} : notices'[f] = notices[f]
  <2>1. notices \in [Documents -> Nat] /\ notices[d] + 1 \in Nat
    BY <1>0 DEF ReportTypeOK
  <2>2. \/ notices' = notices
        \/ /\ execution[d].at = "notify" /\ e.at = "sign"
           /\ notices' = [notices EXCEPT ![d] = notices[d] + 1]
    BY <1>1 DEF Executed
  <2> QED
    BY <2>1, <2>2
<1>8. /\ job' \in [Documents -> JobType]
      /\ job'[d].key => job[d].key \/ e.at = "notify"
      /\ job'[d].status # job[d].status => job'[d].status \in {"COMPLETED", "FAILED"}
      /\ \A f \in Documents \ {d} : job'[f] = job[f]
  <2>0. job \in [Documents -> JobType] /\ job[d].key \in BOOLEAN
    BY <1>0 DEF ReportTypeOK, JobType
  <2>1. CASE job' = job
    BY <2>0, <2>1
  <2>2. CASE job' # job
    <3>1. PICK s \in {"COMPLETED", "FAILED"}, key \in BOOLEAN :
            /\ job' = [job EXCEPT ![d] = [status |-> s, key |-> job[d].key \/ key]]
            /\ key => e.at = "notify"
      BY <1>1, <2>2 DEF Executed
    <3>2. (job[d].key \/ key) \in BOOLEAN
      BY <2>0
    <3>3. [status |-> s, key |-> job[d].key \/ key] \in JobType
      BY <3>2 DEF JobType, Statuses
    <3>4. job'[d] = [status |-> s, key |-> job[d].key \/ key]
      BY <2>0, <3>1
    <3>5. job'[d].key = (job[d].key \/ key) /\ job'[d].status = s
      BY <3>4
    <3> QED
      BY <2>0, <3>1, <3>3, <3>5
  <2> QED
    BY <2>1, <2>2
<1>9. ReportTypeOK'
  BY <1>0, <1>2, <1>3, <1>4, <1>6, <1>7, <1>8 DEF ReportTypeOK, JobType,
    ExecutionType
<1>10. Received'
  BY <1>0, <1>2 DEF Received
<1>11. Frame(d)
  BY <1>2, <1>3, <1>4, <1>6, <1>7, <1>8 DEF Frame
<1>12. Finishes(d)'
  <2>1. execution[d].at \in AfterNotice => e.at \in AfterNotice
    BY <1>1 DEF Executed
  <2>2. notices[d] \in Nat
    BY <1>0 DEF ReportTypeOK
  <2>3. notices'[d] <= 1 /\ (notices'[d] > 0 => e.at \in AfterNotice)
    BY <1>0, <1>7, <2>1, <2>2 DEF Finishes, AfterNotice
  <2>4. notices'[d] > 0 => notices[d] > 0 \/ e.at \in Made
    BY <1>7, <2>2 DEF Made
  <2>5. job'[d].key => job[d].key \/ e.at \in Made
    BY <1>8 DEF Made
  <2>6. e.at \in Made \/ job'[d].key \/ notices'[d] > 0 => Both \subseteq new
    BY <1>0, <1>5, <2>4, <2>5 DEF Finishes
  <2> QED
    BY <1>4, <1>5, <1>6, <2>3, <2>6 DEF Finishes
<1>13. Remembered(d)'
  <2>1. request[d] = "accepted" \/ request[d] # "accepted"
    OBVIOUS
  <2>2. job'[d].status \in {job[d].status, "COMPLETED", "FAILED"}
    BY <1>8
  <2> QED
    BY <1>0, <1>2, <1>3, <1>4, <1>8, <2>2 DEF Remembered, HasStarted
<1> QED
  BY <1>9, <1>10, <1>11, <1>12, <1>13

\* The request: the job is stored, and then its event published.
LEMMA PostKeeps ==
  ASSUME ReportInv, NEW d \in Documents, Post(d)
  PROVE  /\ ReportTypeOK' /\ Received' /\ Frame(d)
         /\ Finishes(d)' /\ Remembered(d)'
<1>0. /\ ReportTypeOK /\ Received /\ Finishes(d) /\ Remembered(d)
      /\ request \in [Documents -> {"new", "authorized", "stored", "accepted"}]
      /\ job \in [Documents -> JobType]
  BY DEF ReportInv, ReportTypeOK, JobType
<1>1. CASE Authorize(d)
  <2>1. /\ UNCHANGED <<tenant, job, message, execution, artifacts, notices, faults>>
        /\ request' = [request EXCEPT ![d] = "authorized"] /\ request[d] = "new"
    BY <1>1 DEF Authorize
  <2>2. request' \in [Documents -> {"new", "authorized", "stored", "accepted"}]
    BY <1>0, <2>1
  <2>3. ReportTypeOK' /\ Received' /\ Frame(d)
    BY <1>0, <2>1, <2>2 DEF ReportTypeOK, Received, Frame
  <2>4. Finishes(d)' /\ Remembered(d)'
    BY <1>0, <2>1 DEF Finishes, Remembered, HasStarted
  <2> QED
    BY <2>3, <2>4
<1>2. CASE Store(d)
  <2>1. /\ UNCHANGED <<tenant, message, execution, artifacts, notices, faults>>
        /\ request' = [request EXCEPT ![d] = "stored"] /\ request[d] = "authorized"
        /\ job' = [job EXCEPT ![d] = [status |-> "PENDING", key |-> FALSE]]
    BY <1>2 DEF Store
  <2>2. [status |-> "PENDING", key |-> FALSE] \in JobType
    BY DEF JobType, Statuses
  <2>3. /\ request' \in [Documents -> {"new", "authorized", "stored", "accepted"}]
        /\ job' \in [Documents -> JobType]
        /\ job'[d] = [status |-> "PENDING", key |-> FALSE] /\ request'[d] = "stored"
    BY <1>0, <2>1, <2>2
  <2>4. ReportTypeOK' /\ Received'
    BY <1>0, <2>1, <2>3 DEF ReportTypeOK, Received, JobType
  <2>5. Frame(d)
    BY <1>0, <2>1 DEF Frame
  <2>6. Finishes(d)'
    BY <1>0, <2>1, <2>3 DEF Finishes
  <2>7. Remembered(d)'
    BY <1>0, <2>1, <2>3 DEF Remembered, HasStarted
  <2> QED
    BY <2>4, <2>5, <2>6, <2>7
<1>3. CASE Publish(d)
  <2>1. PICK some \in (SUBSET Copies) \ {{}} :
          message' = [m \in DOMAIN message |->
                        IF m[1] = d /\ m[2] \in some
                          THEN [at |-> "queued", receives |-> 0] ELSE message[m]]
    BY <1>3 DEF Publish
  <2>2. /\ UNCHANGED <<tenant, job, execution, artifacts, notices, faults>>
        /\ request' = [request EXCEPT ![d] = "accepted"] /\ request[d] = "stored"
    BY <1>3 DEF Publish
  <2>3. /\ DOMAIN message = Documents \X Copies
        /\ message \in [Documents \X Copies -> MessageType]
    BY <1>0 DEF ReportTypeOK, MessageType
  <2>4. \A e \in Documents, c \in Copies :
          message'[<<e, c>>] = IF e = d /\ c \in some
            THEN [at |-> "queued", receives |-> 0] ELSE message[<<e, c>>]
    BY <2>1, <2>3
  <2>5. [at |-> "queued", receives |-> 0] \in MessageType /\ 0 < MaxReceives
    BY ReportAssumption DEF MessageType
  <2>6. message' \in [Documents \X Copies -> MessageType]
    BY <2>1, <2>3, <2>5
  <2>7. request' \in [Documents -> {"new", "authorized", "stored", "accepted"}]
    BY <1>0, <2>2
  <2>8. ReportTypeOK'
    BY <1>0, <2>2, <2>6, <2>7 DEF ReportTypeOK, MessageType
  <2>9. Received'
    <3> SUFFICES ASSUME NEW e \in Documents, NEW c \in Copies,
                        message'[<<e, c>>].at = "queued"
                 PROVE  message'[<<e, c>>].receives < MaxReceives
      BY DEF Received
    <3>1. CASE e = d /\ c \in some
      BY <2>4, <2>5, <3>1
    <3>2. CASE ~(e = d /\ c \in some)
      <4>1. message'[<<e, c>>] = message[<<e, c>>] /\ <<e, c>> \in Documents \X Copies
        BY <2>4, <3>2
      <4> QED
        BY <1>0, <4>1 DEF Received
    <3> QED
      BY <3>1, <3>2
  <2>10. Frame(d)
    BY <1>0, <2>2, <2>4 DEF Frame
  <2>11. Finishes(d)'
    BY <1>0, <2>2 DEF Finishes
  <2>12. Remembered(d)'
    <3>1. \A c \in Copies : message[<<d, c>>].at = "none"
      BY <1>0, <2>2 DEF Remembered
    <3>2. \A c \in Copies : message'[<<d, c>>].at \in {"none", "queued"}
      BY <2>4, <3>1
    <3>0. some \subseteq Copies /\ some # {}
      BY <2>1
    <3>3. PICK c \in Copies : c \in some
      BY <3>0
    <3>4. message'[<<d, c>>].at = "queued"
      BY <2>4, <3>3
    <3>5. request'[d] = "accepted"
      BY <1>0, <2>2
    <3>6. job[d].status # "none"
      BY <1>0, <2>2 DEF Remembered
    <3>7. faults[d] = 0 /\ job[d].status # "PENDING" => execution[d].at # "none"
      BY <1>0, <3>1, <3>6 DEF Remembered, HasStarted
    <3> QED
      BY <2>2, <3>2, <3>4, <3>5, <3>6, <3>7 DEF Remembered, HasStarted
  <2> QED
    BY <2>8, <2>9, <2>10, <2>11, <2>12
<1>4. CASE PublishFails(d)
  <2>1. /\ UNCHANGED <<tenant, job, message, execution, artifacts, notices>>
        /\ request' = [request EXCEPT ![d] = "accepted"] /\ request[d] = "stored"
        /\ Faulty(d) /\ faults'[d] # 0
    BY <1>4, <1>0, ReportAssumption DEF PublishFails, Fault, Faulty, ReportTypeOK
  <2>2. request' \in [Documents -> {"new", "authorized", "stored", "accepted"}]
    BY <1>0, <2>1
  <2>3. /\ faults' \in [Documents -> 0..MaxFaults]
        /\ \A e \in Documents \ {d} : faults'[e] = faults[e]
    BY <1>0, <2>1, FaultyKeeps
  <2>4. ReportTypeOK' /\ Received'
    BY <1>0, <2>1, <2>2, <2>3 DEF ReportTypeOK, Received
  <2>5. Frame(d)
    BY <1>0, <2>1, <2>3 DEF Frame
  <2>6. Finishes(d)' /\ Remembered(d)'
    BY <1>0, <2>1 DEF Finishes, Remembered, HasStarted
  <2> QED
    BY <2>4, <2>5, <2>6
<1> QED
  BY <1>1, <1>2, <1>3, <1>4 DEF Post

LEMMA ReportInvNext == ReportInv /\ [ReportNext]_reportVars => ReportInv'
<1> SUFFICES ASSUME ReportInv, [ReportNext]_reportVars PROVE ReportInv'
  OBVIOUS
<1>1. CASE UNCHANGED reportVars
  BY <1>1, ZenonT(60) DEF reportVars, ReportInv, ReportTypeOK, Received, Finishes, Remembered,
    HasStarted
<1>2. CASE ReportNext
  <2>1. PICK d \in Documents :
          Post(d) \/ Execute(d) \/ \E c \in Copies : Orchestrate(d, c)
    BY <1>2 DEF ReportNext
  <2>2. /\ ReportTypeOK' /\ Received' /\ Frame(d)
        /\ Finishes(d)' /\ Remembered(d)'
    BY <2>1, PostKeeps, ExecutionKeeps, OrchestratorKeeps
  <2>3. \A e \in Documents \ {d} : Finishes(e)' /\ Remembered(e)'
    BY <2>2, OthersKeep DEF ReportInv
  <2> QED
    BY <2>2, <2>3 DEF ReportInv
<1> QED
  BY <1>1, <1>2

LEMMA ReportInvHolds == ReportSpec => []ReportInv
<1>1. ReportInit => ReportInv
  BY ReportInvInit
<1>2. ReportInv /\ [ReportNext]_reportVars => ReportInv'
  BY ReportInvNext
<1> QED
  BY <1>1, <1>2, PTL DEF ReportSpec

-----------------------------------------------------------------------------
(* Theorems.                                                               *)

\* Every variable of the documents stays in its range, the receives of a
\* message and the attempts of a task among them.
THEOREM ReportTyped == ReportSpec => []ReportTypeOK
<1>1. ReportInv => ReportTypeOK
  BY DEF ReportInv
<1> QED
  BY <1>1, ReportInvHolds, PTL

\* However many copies of the event are delivered and however often a task is
\* retried, the owner is told of a document at most once.
THEOREM ToldOnce == ReportSpec => []NotifiedOnce
<1>1. ReportInv => NotifiedOnce
  BY DEF ReportInv, Finishes, NotifiedOnce
<1> QED
  BY <1>1, ReportInvHolds, PTL

\* What he is told of, and what the API gives a downloadUrl for, is there.
THEOREM ToldTruly == ReportSpec => []ReadyIsTrue
<1>1. ReportInv => ReadyIsTrue
  BY DEF ReportInv, Finishes, Both, ReadyIsTrue
<1> QED
  BY <1>1, ReportInvHolds, PTL

\* A document at rest none of whose calls failed, none of whose Lambdas died
\* and none of whose reads was behind has had its execution: however many
\* copies of its event there are, nothing else makes it stay PENDING.
THEOREM NoneForgotten == ReportSpec => []NotForgotten
<1>1. ReportInv => NotForgotten
  <2> SUFFICES ASSUME ReportInv, NEW d \in Documents, Quiet(d), faults[d] = 0,
                      Exists(d)
               PROVE  job[d].status # "PENDING" /\ execution[d].at # "none"
    BY DEF NotForgotten
  <2>1. Remembered(d) /\ request[d] = "accepted"
    BY DEF ReportInv, Quiet
  <2>2. PICK c \in Copies : message[<<d, c>>].at \in {"acked", "dead"}
    BY <2>1 DEF Remembered, Quiet
  <2>3. job[d].status \notin {"none", "PENDING"}
    BY <2>1, <2>2 DEF Remembered
  <2> QED
    BY <2>1, <2>3 DEF Remembered, HasStarted, Quiet
<1> QED
  BY <1>1, ReportInvHolds, PTL

-----------------------------------------------------------------------------
(* The deletion of the tenant: a document at rest is left alone.           *)

\* Every document has an entry everywhere.
Tables ==
  /\ request = [d \in Documents |-> request[d]]
  /\ job = [d \in Documents |-> job[d]]
  /\ message = [m \in Documents \X Copies |-> message[m]]
  /\ execution = [d \in Documents |-> execution[d]]
  /\ artifacts = [d \in Documents |-> artifacts[d]]

LEMMA RestingDoesNothing ==
  ASSUME NEW d \in Documents, Quiet(d)
  PROVE  ~Post(d) /\ ~Execute(d) /\ \A c \in Copies : ~Orchestrate(d, c)
<1>1. ~Post(d)
  BY DEF Quiet, Post, Authorize, Store, Publish, PublishFails
<1>2. ~Execute(d)
  BY DEF Quiet, Closed, Execute, TaskReads, TaskEnds, TaskFails, TaskRetried,
    FindToComplete, Complete, Notify, NotifyFails, Sign, CompleteFails, FindToFail,
    Fail, FailFails, Stages
<1>3. ASSUME NEW c \in Copies PROVE ~Orchestrate(d, c)
  BY DEF Quiet, Orchestrate, Receive, Find, Mark, Start, StartFails, RecordArn,
    RecordFails, MarkFailed, OrchestratorDies, Handling
<1> QED
  BY <1>1, <1>2, <1>3

\* A step on one document leaves the entries of every other as they are.
LeavesOthers(d) ==
  \A e \in Documents \ {d} :
    /\ request'[e] = request[e] /\ job'[e] = job[e]
    /\ \A c \in Copies : message'[<<e, c>>] = message[<<e, c>>]
    /\ execution'[e] = execution[e] /\ artifacts'[e] = artifacts[e]

LEMMA PostLeaves ==
  ASSUME Tables, NEW d \in Documents, Post(d)
  PROVE  tenant' = tenant /\ Tables' /\ LeavesOthers(d)
<1>1. CASE Authorize(d) \/ Store(d) \/ PublishFails(d)
  BY <1>1 DEF Tables, Authorize, Store, PublishFails, LeavesOthers
<1>2. CASE Publish(d)
  <2>1. PICK some \in (SUBSET Copies) \ {{}} :
          message' = [m \in DOMAIN message |->
                        IF m[1] = d /\ m[2] \in some
                          THEN [at |-> "queued", receives |-> 0] ELSE message[m]]
    BY <1>2 DEF Publish
  <2>2. DOMAIN message = Documents \X Copies
    BY DEF Tables
  <2>3. \A e \in Documents \ {d}, c \in Copies : message'[<<e, c>>] = message[<<e, c>>]
    BY <2>1, <2>2
  <2>4. message' = [m \in Documents \X Copies |-> message'[m]]
    BY <2>1, <2>2
  <2> QED
    BY <1>2, <2>3, <2>4 DEF Tables, Publish, LeavesOthers
<1> QED
  BY <1>1, <1>2 DEF Post

LEMMA OrchestrateLeaves ==
  ASSUME Tables, NEW d \in Documents, NEW c \in Copies, Orchestrate(d, c)
  PROVE  tenant' = tenant /\ Tables' /\ LeavesOthers(d)
<1>1. /\ UNCHANGED <<tenant, request, artifacts>>
      /\ \E v : message' = [message EXCEPT ![<<d, c>>] = v]
      /\ job' = job \/ \E v : job' = [job EXCEPT ![d] = v]
      /\ execution' = execution \/ \E v : execution' = [execution EXCEPT ![d] = v]
  BY DEF Orchestrate, Receive, Find, Mark, Start, StartFails, RecordArn, RecordFails,
    MarkFailed, OrchestratorDies, Goes, Write, Started, Reaches
<1>2. \A e \in Documents, b \in Copies :
        <<e, b>> \in Documents \X Copies /\ (<<e, b>> = <<d, c>> => e = d)
  OBVIOUS
<1> QED
  BY <1>1, <1>2 DEF Tables, LeavesOthers

LEMMA ExecuteLeaves ==
  ASSUME Tables, NEW d \in Documents, Execute(d)
  PROVE  tenant' = tenant /\ Tables' /\ LeavesOthers(d)
<1>1. /\ UNCHANGED <<tenant, request, message>>
      /\ \E v : execution' = [execution EXCEPT ![d] = v]
      /\ job' = job \/ \E v : job' = [job EXCEPT ![d] = v]
      /\ artifacts' = artifacts \/ \E v : artifacts' = [artifacts EXCEPT ![d] = v]
  BY DEF Execute, TaskReads, TaskEnds, TaskFails, TaskRetried, FindToComplete, Complete,
    Notify, NotifyFails, Sign, CompleteFails, FindToFail, Fail, FailFails, Write,
    Reaches, Upload
<1> QED
  BY <1>1 DEF Tables, LeavesOthers

\* What was at rest stays at rest, and nothing is written of it.
LEMMA RestingIsLeft ==
  ASSUME Tables, ReportNext, NEW e \in Documents, Quiet(e)
  PROVE  Quiet(e)' /\ job'[e] = job[e] /\ artifacts'[e] = artifacts[e]
<1>1. PICK d \in Documents :
        Post(d) \/ Execute(d) \/ \E c \in Copies : Orchestrate(d, c)
  BY DEF ReportNext
<1>2. d # e
  BY <1>1, RestingDoesNothing
<1>3. LeavesOthers(d)
  BY <1>1, PostLeaves, ExecuteLeaves, OrchestrateLeaves
<1> QED
  BY <1>2, <1>3 DEF LeavesOthers, Quiet

-----------------------------------------------------------------------------
(* The requests, their messages and the workers on them.                   *)

OrderType == [at : Work \cup {"none", "queued", "deleted", "reported", "lost"},
              receives : 0..MaxReceives]

Unfinished == Work \cup {"queued", "lost"}

\* The row is the request's from the flush to the answer, and until then its
\* worker can neither delete the rows nor give up.
OrderSound(r) ==
  /\ order[r].at \in {"none", "queued"} => order[r].receives < MaxReceives
  /\ route[r] \in {"idle", "counted", "flushed"} => order[r].at = "none"
  /\ route[r] = "sent" => order[r].at \in Unfinished
  /\ route[r] \in {"flushed", "sent"} <=> holder = r

\* What a worker has passed is empty.
Emptied(r) ==
  /\ order[r].at \in {"jobs", "documents", "legacy", "sql", "deleted"} =>
       "tickets" \notin stores
  /\ order[r].at \in {"documents", "legacy", "sql", "deleted"} =>
       \A d \in old : ~Exists(d)
  /\ order[r].at \in {"legacy", "sql", "deleted"} => \A d \in old : artifacts[d] = {}
  /\ order[r].at \in {"sql", "deleted"} => "legacy" \notin stores

\* The tenant goes with the rows, and a DELETING one has its worker.
TenantSound ==
  /\ ~tenant => \E r \in Deletes : order[r].at = "deleted"
  /\ DeletingIsWatched

DeletionInv ==
  /\ DeletionTypeOK /\ Tables /\ tenant \in BOOLEAN
  /\ \A d \in old : Quiet(d)
  /\ \A r \in Deletes : OrderSound(r) /\ Emptied(r)
  /\ TenantSound

\* What a step for the request r may do to the rest: nothing that was empty
\* fills, and what was at rest is at rest.
Spares(r) ==
  /\ route' = [route EXCEPT ![r] = route'[r]]
  /\ order' = [order EXCEPT ![r] = order'[r]]
  /\ holder' = holder \/ {holder, holder'} \subseteq {None, r}
  /\ stores' \subseteq stores
  /\ \/ old' = old
     \/ \A s \in Deletes : order[s].at = "none"
  /\ old' \subseteq Documents
  /\ \A d \in old' : /\ Quiet(d)'
                     /\ d \in old /\ ~Exists(d) => ~Exists(d)'
                     /\ d \in old /\ artifacts[d] = {} => artifacts'[d] = {}

LEMMA OthersSpared ==
  ASSUME DeletionInv, NEW r \in Deletes, Spares(r), NEW s \in Deletes \ {r}
  PROVE  OrderSound(s)' /\ Emptied(s)' /\ order'[s] = order[s]
<1>1. order'[s] = order[s] /\ route'[s] = route[s]
  BY DEF DeletionInv, DeletionTypeOK, Spares
<1>2. holder' = s <=> holder = s
  BY DeletionAssumption DEF Spares, None
<1>3. OrderSound(s) /\ Emptied(s)
  BY DEF DeletionInv
<1>4. OrderSound(s)'
  BY <1>1, <1>2, <1>3 DEF OrderSound
<1>5. stores' \subseteq stores /\ (old' = old \/ order[s].at = "none")
  BY DEF Spares
<1>6. Emptied(s)'
  BY <1>1, <1>3, <1>5 DEF Emptied, Spares
<1> QED
  BY <1>1, <1>4, <1>6

\* A step that spares the rest and does right by the request keeps the
\* invariant.
LEMMA SparingKeeps ==
  ASSUME DeletionInv, NEW r \in Deletes, Spares(r), Tables', DeletionTypeOK',
         tenant' \in BOOLEAN, OrderSound(r)', Emptied(r)', TenantSound'
  PROVE  DeletionInv'
<1>1. \A s \in Deletes : OrderSound(s)' /\ Emptied(s)'
  BY OthersSpared
<1>2. \A d \in old' : Quiet(d)'
  BY DEF Spares
<1> QED
  BY <1>1, <1>2 DEF DeletionInv

\* The tenant stands as it stood, and whoever watched it does.
LEMMA StillWatched ==
  ASSUME DeletionInv, NEW r \in Deletes, Spares(r), tenant' = tenant,
         plan' = "DELETING" => plan = "DELETING",
         order[r].at = "deleted" => order'[r].at = "deleted",
         order[r].at \in Unfinished /\ tenant /\ plan' = "DELETING" =>
           order'[r].at \in Unfinished
  PROVE  TenantSound'
<1>1. \A s \in Deletes \ {r} : order'[s] = order[s]
  BY OthersSpared
<1>2. TenantSound
  BY DEF DeletionInv
<1>3. ~tenant' => \E s \in Deletes : order'[s].at = "deleted"
  BY <1>1, <1>2 DEF TenantSound
<1>4. DeletingIsWatched'
  BY <1>1, <1>2 DEF TenantSound, DeletingIsWatched, Unfinished
<1> QED
  BY <1>3, <1>4 DEF TenantSound

LEMMA OrderOf ==
  ASSUME DeletionTypeOK, NEW r \in Deletes
  PROVE  /\ order[r].at \in Unfinished \cup {"none", "deleted", "reported"}
         /\ order[r].receives \in 0..MaxReceives
         /\ \A at : OrderAt(r, at) =>
              order' = [order EXCEPT ![r] = [at |-> at, receives |-> order[r].receives]]
<1>1. order[r] \in OrderType
  BY DEF DeletionTypeOK, OrderType
<1>2. order[r] = [at |-> order[r].at, receives |-> order[r].receives]
  BY <1>1 DEF OrderType
<1>3. \A q, at, a, n : q = [at |-> a, receives |-> n] =>
        [q EXCEPT !.at = at] = [at |-> at, receives |-> n]
  OBVIOUS
<1> QED
  BY <1>1, <1>2, <1>3 DEF OrderType, OrderAt, Unfinished

LEMMA Become ==
  ASSUME DeletionTypeOK, NEW r \in Deletes, NEW at, NEW n,
         order' = [order EXCEPT ![r] = [at |-> at, receives |-> n]]
  PROVE  /\ order'[r].at = at /\ order'[r].receives = n
         /\ order' = [order EXCEPT ![r] = order'[r]]
         /\ at \in Unfinished \cup {"none", "deleted", "reported"} /\ n \in 0..MaxReceives =>
              order' \in [Deletes -> OrderType]
<1>1. order \in [Deletes -> OrderType]
  BY DEF DeletionTypeOK, OrderType
<1>2. at \in Unfinished \cup {"none", "deleted", "reported"} /\ n \in 0..MaxReceives =>
        [at |-> at, receives |-> n] \in OrderType
  BY DEF OrderType, Unfinished
<1>3. order'[r] = [at |-> at, receives |-> n]
  BY <1>1
<1> QED
  BY <1>1, <1>2, <1>3

\* Nothing of the documents, their stores or the messages changes.
LEMMA RouteSteps ==
  ASSUME DeletionInv, NEW r \in Deletes, UNCHANGED <<reportVars, order, stores, old>>,
         NEW at \in {"idle", "counted", "flushed", "sent", "answered"}, RouteAt(r, at),
         holder' = holder \/ {holder, holder'} \subseteq {None, r},
         plan' \in {"ACTIVE", "DELETING", "DELETING_FAILED"},
         troubles' \in 0..MaxTroubles
  PROVE  /\ Spares(r) /\ Tables' /\ DeletionTypeOK' /\ tenant' \in BOOLEAN
         /\ Emptied(r)' /\ route'[r] = at
<1>1. /\ route' = [route EXCEPT ![r] = at] /\ route'[r] = at
      /\ route' \in [Deletes -> {"idle", "counted", "flushed", "sent", "answered"}]
  BY DEF DeletionInv, DeletionTypeOK, RouteAt
<1>2. UNCHANGED <<tenant, request, job, message, execution, artifacts>>
  BY DEF reportVars
<1>3. order' = [order EXCEPT ![r] = order'[r]]
  BY DEF DeletionInv, DeletionTypeOK
<1>4. \A d \in old : Quiet(d)' /\ (~Exists(d) => ~Exists(d)') /\ artifacts'[d] = artifacts[d]
  BY <1>2 DEF DeletionInv, Quiet, Exists
<1>5. old \subseteq Documents
  BY DEF DeletionInv, DeletionTypeOK
<1>6. Spares(r)
  BY <1>1, <1>3, <1>4, <1>5 DEF Spares
<1>7. holder' \in Deletes \cup {None}
  BY DEF DeletionInv, DeletionTypeOK
<1>8. DeletionTypeOK'
  BY <1>1, <1>7 DEF DeletionInv, DeletionTypeOK
<1>9. Tables' /\ Emptied(r)' /\ tenant' \in BOOLEAN
  BY <1>2 DEF DeletionInv, Tables, Emptied, Exists
<1> QED
  BY <1>1, <1>6, <1>8, <1>9

LEMMA TroubleTyped ==
  ASSUME DeletionInv, Trouble \/ troubles' = troubles
  PROVE  troubles' \in 0..MaxTroubles
BY DeletionAssumption DEF DeletionInv, DeletionTypeOK, Trouble

\* The request has no message until it is sent.
LEMMA CountKeeps ==
  ASSUME DeletionInv, NEW r \in Deletes, Count(r) \/ Flush(r)
  PROVE  DeletionInv'
<1>0. /\ DeletionTypeOK /\ OrderSound(r) /\ None \notin Deletes
      /\ UNCHANGED <<reportVars, plan, order, stores, old, troubles>>
  BY DeletionAssumption DEF DeletionInv, Count, Flush, None
<1>1. PICK at \in {"counted", "flushed", "answered"} :
        /\ RouteAt(r, at)
        /\ IF at = "flushed" THEN holder = None /\ holder' = r ELSE holder' = holder
        /\ route[r] \in {"idle", "counted"}
  BY DEF Count, Flush
<1>2. plan \in {"ACTIVE", "DELETING", "DELETING_FAILED"} /\ troubles' \in 0..MaxTroubles
  BY <1>0 DEF DeletionTypeOK
<1>3. /\ Spares(r) /\ Tables' /\ DeletionTypeOK' /\ tenant' \in BOOLEAN
      /\ Emptied(r)' /\ route'[r] = at
  BY <1>0, <1>1, <1>2, RouteSteps
<1>4. OrderSound(r)'
  BY <1>0, <1>1, <1>3 DEF OrderSound
<1>5. tenant' = tenant
  BY <1>0 DEF reportVars
<1>6. TenantSound'
  BY <1>0, <1>3, <1>5, StillWatched
<1> QED
  BY <1>3, <1>4, <1>6, SparingKeeps

\* The request gives the row back, and the tenant may be DELETING if the
\* message has been sent.
LEMMA CommitKeeps ==
  ASSUME DeletionInv, NEW r \in Deletes, Commit(r) \/ CommitFails(r)
  PROVE  DeletionInv'
<1>0. /\ DeletionTypeOK /\ OrderSound(r) /\ None \notin Deletes
      /\ UNCHANGED <<reportVars, order, stores, old>>
      /\ route[r] = "sent" /\ RouteAt(r, "answered") /\ holder' = None
      /\ plan' \in {plan, "DELETING"}
  BY DeletionAssumption DEF DeletionInv, Commit, CommitFails, None
<1>1. holder = r /\ order[r].at \in Unfinished
  BY <1>0 DEF OrderSound
<1>2. troubles' \in 0..MaxTroubles
  BY TroubleTyped DEF Commit, CommitFails
<1>3. plan' \in {"ACTIVE", "DELETING", "DELETING_FAILED"}
  BY <1>0 DEF DeletionTypeOK
<1>4. /\ Spares(r) /\ Tables' /\ DeletionTypeOK' /\ tenant' \in BOOLEAN
      /\ Emptied(r)' /\ route'[r] = "answered"
  <2>1. {holder, holder'} \subseteq {None, r}
    BY <1>0, <1>1
  <2> QED
    BY <1>0, <1>2, <1>3, <2>1, RouteSteps
<1>5. OrderSound(r)'
  BY <1>0, <1>4 DEF OrderSound
<1>6. TenantSound'
  <2>1. tenant' = tenant
    BY <1>0 DEF reportVars
  <2> QED
    BY <1>0, <1>1, <2>1 DEF DeletionInv, TenantSound, DeletingIsWatched, Unfinished
<1> QED
  BY <1>4, <1>5, <1>6, SparingKeeps

\* The documents at rest when the first message is sent are the old ones, of
\* which no worker has deleted anything yet.
LEMMA SendKeeps ==
  ASSUME DeletionInv, NEW r \in Deletes, Send(r) \/ SendFails(r)
  PROVE  DeletionInv'
<1>0. /\ DeletionTypeOK /\ OrderSound(r) /\ None \notin Deletes
      /\ UNCHANGED <<reportVars, plan, stores>> /\ route[r] = "flushed"
  BY DeletionAssumption DEF DeletionInv, Send, SendFails, None
<1>1. holder = r /\ order[r].at = "none"
  BY <1>0 DEF OrderSound
<1>2. troubles' \in 0..MaxTroubles
  BY TroubleTyped DEF Send, SendFails
<1>3. PICK at \in {"sent", "answered"} :
        /\ RouteAt(r, at)
        /\ at = "sent" => Sent(r) /\ holder' = holder
        /\ at = "answered" => holder' = None
  BY DEF Send, SendFails
<1>4. CASE UNCHANGED <<order, old>> /\ at = "answered"
  <2>1. /\ Spares(r) /\ Tables' /\ DeletionTypeOK' /\ tenant' \in BOOLEAN
        /\ Emptied(r)' /\ route'[r] = "answered"
    <3>1. {holder, holder'} \subseteq {None, r}
      BY <1>1, <1>3, <1>4
    <3>2. plan' \in {"ACTIVE", "DELETING", "DELETING_FAILED"}
      BY <1>0 DEF DeletionTypeOK
    <3> QED
      BY <1>0, <1>2, <1>3, <1>4, <3>1, <3>2, RouteSteps
  <2>2. OrderSound(r)'
    BY <1>0, <1>1, <1>3, <1>4, <2>1 DEF OrderSound
  <2>3. tenant' = tenant
    BY <1>0 DEF reportVars
  <2>4. TenantSound'
    BY <1>0, <1>4, <2>1, <2>3, StillWatched
  <2> QED
    BY <2>1, <2>2, <2>4, SparingKeeps
<1>5. CASE Sent(r)
  <2>1. order' = [order EXCEPT ![r] = [at |-> "queued", receives |-> order[r].receives]]
    BY <1>0, <1>5, OrderOf DEF Sent
  <2>2. /\ order'[r].at = "queued" /\ order'[r].receives = order[r].receives
        /\ order' = [order EXCEPT ![r] = order'[r]]
        /\ order' \in [Deletes -> OrderType]
    BY <1>0, <2>1, Become, OrderOf DEF Unfinished
  <2>3. /\ UNCHANGED <<tenant, request, job, message, execution, artifacts>>
        /\ route' = [route EXCEPT ![r] = at] /\ route'[r] = at
        /\ route' \in [Deletes -> {"idle", "counted", "flushed", "sent", "answered"}]
    BY <1>0, <1>3 DEF reportVars, RouteAt, DeletionTypeOK
  <2>4. \/ old' = old
        \/ (\A s \in Deletes : order[s].at = "none")
           /\ old' = {d \in Documents : Quiet(d)}
    BY <1>5 DEF Sent
  <2>5. \A d \in old' : Quiet(d) /\ d \in Documents
    BY <2>4 DEF DeletionInv, DeletionTypeOK
  <2>6. \A d \in Documents : (Quiet(d) => Quiet(d)') /\ (~Exists(d) => ~Exists(d)')
                              /\ artifacts'[d] = artifacts[d]
    BY <2>3 DEF Quiet, Exists
  <2>7. holder' = r \/ holder' = None
    BY <1>1, <1>3
  <2>8. {holder, holder'} \subseteq {None, r}
    BY <1>1, <2>7
  <2>9. Spares(r)
    BY <1>0, <2>2, <2>3, <2>4, <2>5, <2>6, <2>8 DEF Spares
  <2>10. DeletionTypeOK'
    <3>1. old' \subseteq Documents /\ holder' \in Deletes \cup {None}
      BY <2>5, <2>7
    <3> QED
      BY <1>0, <1>2, <2>2, <2>3, <3>1 DEF DeletionTypeOK, OrderType
  <2>11. Tables' /\ tenant' \in BOOLEAN
    BY <2>3 DEF DeletionInv, Tables
  <2>12. OrderSound(r)' /\ Emptied(r)'
    <3>1. at = "sent" => holder' = r
      BY <1>1, <1>3
    <3>2. at = "answered" => holder' # r
      BY <1>0, <1>3
    <3> QED
      BY <1>0, <1>1, <1>3, <2>2, <2>3, <3>1, <3>2 DEF OrderSound, Emptied, Unfinished
  <2>13. TenantSound'
    BY <1>0, <1>1, <2>2, <2>3, <2>9, StillWatched DEF Unfinished, Work
  <2> QED
    BY <2>9, <2>10, <2>11, <2>12, <2>13, SparingKeeps
<1> QED
  BY <1>3, <1>4, <1>5 DEF Send, SendFails

\* A worker: the row, the requests and what is at rest stay.
LEMMA WorkerSteps ==
  ASSUME DeletionInv, NEW r \in Deletes, order[r].at \in Unfinished,
         UNCHANGED <<request, message, execution, holder, route, old>>,
         tenant' \in BOOLEAN, Tables', stores' \subseteq stores,
         \A d \in Documents : job'[d] \in {job[d], NoJob} /\ artifacts'[d] \in {artifacts[d], {}},
         plan' \in {"ACTIVE", "DELETING", "DELETING_FAILED"},
         troubles' \in 0..MaxTroubles,
         NEW at, NEW n,
         order' = [order EXCEPT ![r] = [at |-> at, receives |-> n]],
         at \in Unfinished \cup {"deleted", "reported"}, n \in 0..MaxReceives,
         at = "queued" => n < MaxReceives,
         at \in {"deleted", "reported"} => holder = None
  PROVE  /\ Spares(r) /\ DeletionTypeOK' /\ OrderSound(r)'
         /\ order'[r].at = at
<1>0. DeletionTypeOK /\ None \notin Deletes /\ OrderSound(r)
  BY DeletionAssumption DEF DeletionInv, None
<1>1. /\ order'[r].at = at /\ order'[r].receives = n
      /\ order' = [order EXCEPT ![r] = order'[r]] /\ order' \in [Deletes -> OrderType]
  BY <1>0, Become
<1>2. route' = [route EXCEPT ![r] = route'[r]]
  BY <1>0 DEF DeletionTypeOK
<1>3. \A d \in old : /\ d \in Documents /\ Quiet(d)' /\ (~Exists(d) => ~Exists(d)')
                     /\ artifacts[d] = {} => artifacts'[d] = {}
  BY DEF DeletionInv, DeletionTypeOK, Quiet, Exists
<1>4. Spares(r)
  BY <1>0, <1>1, <1>2, <1>3 DEF Spares
<1>5. DeletionTypeOK'
  BY <1>0, <1>1 DEF DeletionTypeOK, OrderType
<1>6. OrderSound(r)'
  <2>1. route[r] \notin {"idle", "counted", "flushed"}
    BY <1>0 DEF OrderSound, Unfinished, Work
  <2>2. route[r] = "sent" => holder # None
    BY <1>0 DEF OrderSound
  <2> QED
    BY <1>0, <1>1, <2>1, <2>2 DEF OrderSound, Unfinished, Work
<1> QED
  BY <1>1, <1>4, <1>5, <1>6

\* The stores, one after the other.
LEMMA EmptiesKeep ==
  ASSUME DeletionInv, NEW r \in Deletes,
         \/ Take(r) \/ DeleteTickets(r) \/ DeleteJobs(r) \/ DeleteDocuments(r)
         \/ DeleteLegacy(r)
  PROVE  DeletionInv'
<1> DEFINE was == order[r].receives
           to == CASE order[r].at = "queued" -> "tickets"
                   [] order[r].at = "tickets" -> "jobs"
                   [] order[r].at = "jobs" -> "documents"
                   [] order[r].at = "documents" -> "legacy"
                   [] OTHER -> "sql"
           n == IF order[r].at = "queued" THEN was + 1 ELSE was
<1>0. /\ DeletionTypeOK /\ Tables /\ Emptied(r) /\ OrderSound(r) /\ was \in 0..MaxReceives
      /\ stores \subseteq {"tickets", "legacy"} /\ MaxReceives \in Nat
  BY OrderOf, ReportAssumption DEF DeletionInv, DeletionTypeOK
<1>1. /\ order[r].at \in {"queued", "tickets", "jobs", "documents", "legacy"}
      /\ order' = [order EXCEPT ![r] = [at |-> to, receives |-> n]]
      /\ UNCHANGED <<tenant, request, message, execution, plan, holder, route, old,
                     troubles>>
  BY <1>0, OrderOf DEF Take, DeleteTickets, DeleteJobs, DeleteDocuments, DeleteLegacy,
    reportVars
<1>2. n \in 0..MaxReceives
  BY <1>0, <1>1 DEF OrderSound
<1>3. to \in Work \ {"rescue", "deleted"} /\ to # "queued"
  BY <1>1 DEF Work
<1>4. /\ order[r].at # "jobs" => job' = job
      /\ order[r].at = "jobs" => job' = [d \in Documents |-> NoJob]
      /\ order[r].at # "documents" => artifacts' = artifacts
      /\ order[r].at = "documents" => artifacts' = [d \in Documents |-> {}]
      /\ stores' \subseteq stores
      /\ order[r].at = "tickets" => "tickets" \notin stores'
      /\ order[r].at = "legacy" => "legacy" \notin stores'
  <2>1. CASE Take(r) \/ DeleteTickets(r) \/ DeleteLegacy(r)
    BY <2>1 DEF Take, DeleteTickets, DeleteLegacy, reportVars
  <2>2. CASE DeleteJobs(r)
    BY <2>2 DEF DeleteJobs
  <2>3. CASE DeleteDocuments(r)
    BY <2>3 DEF DeleteDocuments
  <2> QED
    BY <2>1, <2>2, <2>3
<1>5. Tables'
  BY <1>0, <1>1, <1>4 DEF Tables
<1>6. /\ plan' \in {"ACTIVE", "DELETING", "DELETING_FAILED"} /\ tenant' \in BOOLEAN
      /\ troubles' \in 0..MaxTroubles
  BY <1>0, <1>1 DEF DeletionTypeOK, DeletionInv
<1>7. \A d \in Documents : job'[d] \in {job[d], NoJob} /\ artifacts'[d] \in {artifacts[d], {}}
  BY <1>4
<1>8. order[r].at \in Unfinished
  BY <1>1 DEF Unfinished, Work
<1>9. /\ Spares(r) /\ DeletionTypeOK' /\ OrderSound(r)' /\ order'[r].at = to
  <2> HIDE DEF to, n
  <2>1. to \in Unfinished \cup {"deleted", "reported"} /\ to \notin {"deleted", "reported"}
    BY <1>3 DEF Unfinished, Work
  <2> QED
    BY <1>1, <1>2, <1>3, <1>4, <1>5, <1>6, <1>7, <1>8, <2>1, WorkerSteps
<1>10. Emptied(r)'
  <2>1. old' = old /\ old \subseteq Documents
    BY <1>0, <1>1 DEF DeletionTypeOK
  <2>2. \A d \in old : (~Exists(d) => ~Exists(d)') /\ (artifacts[d] = {} => artifacts'[d] = {})
    BY <1>7, <2>1 DEF Exists
  <2>3. order[r].at = "jobs" => \A d \in old : ~Exists(d)'
    BY <1>4, <2>1 DEF Exists
  <2>4. order[r].at = "documents" => \A d \in old : artifacts'[d] = {}
    BY <1>4, <2>1
  <2> QED
    BY <1>0, <1>1, <1>4, <1>9, <2>1, <2>2, <2>3, <2>4 DEF Emptied
<1>11. TenantSound'
  <2>1. to \in Unfinished
    BY <1>3 DEF Unfinished, Work
  <2> QED
    BY <1>1, <1>9, <2>1, StillWatched
<1> QED
  BY <1>5, <1>6, <1>9, <1>10, <1>11, SparingKeeps

\* The end of a worker: with the rows, or again, or given up.
LEMMA DeleteRowsKeeps ==
  ASSUME DeletionInv, NEW r \in Deletes, DeleteRows(r)
  PROVE  DeletionInv'
<1>0. /\ DeletionTypeOK /\ Tables /\ Emptied(r) /\ order[r].receives \in 0..MaxReceives
      /\ order[r].at = "sql" /\ holder = None /\ tenant' = FALSE
      /\ UNCHANGED <<request, job, message, execution, artifacts, plan, holder, route,
                     stores, old, troubles>>
  BY OrderOf DEF DeletionInv, DeleteRows
<1>1. order' = [order EXCEPT ![r] = [at |-> "deleted", receives |-> order[r].receives]]
  BY <1>0, OrderOf DEF DeleteRows
<1>2. /\ plan' \in {"ACTIVE", "DELETING", "DELETING_FAILED"} /\ troubles' \in 0..MaxTroubles
      /\ Tables' /\ order[r].at \in Unfinished /\ tenant' \in BOOLEAN
  BY <1>0 DEF DeletionTypeOK, Tables, Unfinished, Work
<1>3. Spares(r) /\ DeletionTypeOK' /\ OrderSound(r)' /\ order'[r].at = "deleted"
  BY <1>0, <1>1, <1>2, WorkerSteps
<1>4. Emptied(r)'
  BY <1>0, <1>3 DEF Emptied, Exists
<1>5. TenantSound'
  BY <1>0, <1>3 DEF TenantSound, DeletingIsWatched
<1> QED
  BY <1>2, <1>3, <1>4, <1>5, SparingKeeps

LEMMA AgainKeeps ==
  ASSUME DeletionInv, NEW r \in Deletes,
         Raise(r) \/ MarkDeletingFailed(r) \/ WorkerDies(r)
  PROVE  DeletionInv'
<1> DEFINE n == order[r].receives
<1>0. /\ DeletionTypeOK /\ Tables /\ order[r].receives \in 0..MaxReceives
      /\ order[r].at \in Work /\ order[r].at \in Unfinished
      /\ UNCHANGED <<tenant, request, job, message, execution, artifacts, holder, route,
                     stores, old>>
  BY OrderOf DEF DeletionInv, Raise, MarkDeletingFailed, WorkerDies, Unfinished,
    reportVars, Work
<1>1. PICK at \in {"rescue", "queued", "reported", "lost"} :
        /\ order' = [order EXCEPT ![r] = [at |-> at, receives |-> n]]
        /\ at = "queued" => n < MaxReceives
        /\ at = "reported" => holder = None /\ (tenant => plan' = "DELETING_FAILED")
        /\ plan' = "DELETING" => plan = "DELETING"
        /\ plan' \in {plan, "DELETING_FAILED"}
  <2>1. ASSUME NEW last, Retry(r, last)
        PROVE  \E at \in {"queued", last} :
                 /\ order' = [order EXCEPT ![r] = [at |-> at, receives |-> n]]
                 /\ at = "queued" => n < MaxReceives \/ at = last
    BY <1>0, <2>1, OrderOf DEF Retry
  <2>2. CASE Raise(r)
    BY <1>0, <2>2, OrderOf DEF Raise
  <2>3. CASE MarkDeletingFailed(r)
    BY <2>1, <2>3 DEF MarkDeletingFailed
  <2>4. CASE WorkerDies(r)
    BY <2>1, <2>4 DEF WorkerDies
  <2> QED
    BY <2>2, <2>3, <2>4
<1>2. troubles' \in 0..MaxTroubles
  BY TroubleTyped DEF Raise, MarkDeletingFailed, WorkerDies
<1>3. /\ plan' \in {"ACTIVE", "DELETING", "DELETING_FAILED"}
      /\ Tables' /\ tenant' \in BOOLEAN
  BY <1>0, <1>1 DEF DeletionInv, DeletionTypeOK, Tables
<1>4. at \in Unfinished \cup {"deleted", "reported"}
  BY <1>1 DEF Unfinished, Work
<1>5. Spares(r) /\ DeletionTypeOK' /\ OrderSound(r)' /\ order'[r].at = at
  BY <1>0, <1>1, <1>2, <1>3, <1>4, WorkerSteps
<1>6. Emptied(r)'
  BY <1>1, <1>5 DEF Emptied
<1>7. TenantSound'
  <2>1. order[r].at # "deleted"
    BY <1>0 DEF Work
  <2>2. tenant /\ plan' = "DELETING" => at \in Unfinished
    BY <1>1 DEF Unfinished, Work
  <2> QED
    BY <1>0, <1>1, <1>5, <2>1, <2>2, StillWatched
<1> QED
  BY <1>3, <1>5, <1>6, <1>7, SparingKeeps

\* The documents' own steps meet none of the old ones.
LEMMA DocumentsKeep ==
  ASSUME DeletionInv, ReportNext, UNCHANGED deletionVars
  PROVE  DeletionInv'
<1>1. tenant' = tenant /\ Tables'
  BY PostLeaves, ExecuteLeaves, OrchestrateLeaves DEF ReportNext, DeletionInv
<1>2. UNCHANGED <<plan, holder, route, order, stores, old, troubles>>
  BY DEF deletionVars
<1>3. \A d \in old : /\ Quiet(d)' /\ (~Exists(d) => ~Exists(d)')
                     /\ artifacts'[d] = artifacts[d]
  BY RestingIsLeft DEF DeletionInv, DeletionTypeOK, Exists
<1>4. DeletionTypeOK' /\ TenantSound'
  BY <1>1, <1>2 DEF DeletionInv, DeletionTypeOK, TenantSound, DeletingIsWatched
<1>5. ASSUME NEW r \in Deletes PROVE OrderSound(r)' /\ Emptied(r)'
  <2>1. OrderSound(r) /\ Emptied(r)
    BY DEF DeletionInv
  <2>2. OrderSound(r)'
    BY <1>2, <2>1 DEF OrderSound
  <2> QED
    BY <1>2, <1>3, <2>1, <2>2 DEF Emptied
<1> QED
  BY <1>1, <1>2, <1>3, <1>4, <1>5 DEF DeletionInv

LEMMA SetPlanKeeps ==
  ASSUME DeletionInv, SetPlan
  PROVE  DeletionInv'
<1>1. /\ UNCHANGED <<reportVars, holder, route, order, stores, old, troubles>>
      /\ plan' = "ACTIVE"
  BY DEF SetPlan
<1>2. UNCHANGED <<tenant, request, job, message, execution, artifacts>>
  BY <1>1 DEF reportVars
<1>3. DeletionTypeOK' /\ TenantSound' /\ Tables' /\ tenant' \in BOOLEAN
  BY <1>1, <1>2 DEF DeletionInv, DeletionTypeOK, TenantSound, DeletingIsWatched, Tables
<1>4. (\A d \in old : Quiet(d))' /\ \A r \in Deletes : OrderSound(r)' /\ Emptied(r)'
  BY <1>1, <1>2 DEF DeletionInv, Quiet, OrderSound, Emptied, Exists
<1> QED
  BY <1>3, <1>4 DEF DeletionInv

LEMMA DeletionInvInit == DeletionInit => DeletionInv
<1> SUFFICES ASSUME DeletionInit PROVE DeletionInv
  OBVIOUS
<1>0. None \notin Deletes /\ MaxTroubles \in Nat /\ MaxReceives \in Nat \ {0}
  BY DeletionAssumption, ReportAssumption DEF None
<1>1. [at |-> "none", receives |-> 0] \in OrderType
  BY <1>0 DEF OrderType
<1>2. DeletionTypeOK
  BY <1>0, <1>1 DEF DeletionInit, DeletionTypeOK, OrderType
<1>3. Tables /\ tenant = TRUE
  BY DEF DeletionInit, ReportInit, Tables
<1>4. \A r \in Deletes : OrderSound(r) /\ Emptied(r)
  BY <1>0 DEF DeletionInit, OrderSound, Emptied
<1>5. TenantSound
  BY <1>3 DEF DeletionInit, TenantSound, DeletingIsWatched
<1> QED
  BY <1>2, <1>3, <1>4, <1>5 DEF DeletionInit, DeletionInv

LEMMA DeletionInvNext == DeletionInv /\ [DeletionNext]_allVars => DeletionInv'
<1> SUFFICES ASSUME DeletionInv, [DeletionNext]_allVars PROVE DeletionInv'
  OBVIOUS
<1>1. CASE UNCHANGED allVars
  <2>1. UNCHANGED <<tenant, request, job, message, execution, artifacts,
                    plan, holder, route, order, stores, old, troubles>>
    BY <1>1 DEF allVars, reportVars, deletionVars
  <2> QED
    BY <2>1, ZenonT(60) DEF DeletionInv, DeletionTypeOK, Tables, Quiet, OrderSound, Emptied,
      Exists, TenantSound, DeletingIsWatched
<1>2. CASE DeletionNext
  BY <1>2, DocumentsKeep, SetPlanKeeps, CountKeeps, CommitKeeps, SendKeeps, EmptiesKeep,
    DeleteRowsKeeps, AgainKeeps DEF DeletionNext, Answer, Worker
<1> QED
  BY <1>1, <1>2

\* What is proved of the deletion: the invariant itself, ...
THEOREM DeletionHolds == DeletionSpec => []DeletionInv
<1>1. DeletionInit => DeletionInv
  BY DeletionInvInit
<1>2. DeletionInv /\ [DeletionNext]_allVars => DeletionInv'
  BY DeletionInvNext
<1> QED
  BY <1>1, <1>2, PTL DEF DeletionSpec

\* ... that its variables stay in their range, the receives of a message
\* among them, ...
THEOREM DeletionTyped == DeletionSpec => []DeletionTypeOK
<1>1. DeletionInv => DeletionTypeOK
  BY DEF DeletionInv
<1> QED
  BY <1>1, DeletionHolds, PTL

\* ... and that a tenant that is gone has left nothing of what it had when its
\* deletion began, and one that is DELETING has somebody who deletes it.
THEOREM DeletedSoundly == DeletionSpec => []DeletionIsSound
<1>1. ASSUME DeletionInv, ~tenant
      PROVE  stores = {} /\ \A d \in old : ~Exists(d) /\ artifacts[d] = {}
  <2>1. PICK r \in Deletes : order[r].at = "deleted"
    BY <1>1 DEF DeletionInv, TenantSound
  <2>2. Emptied(r) /\ stores \subseteq {"tickets", "legacy"}
    BY <1>1 DEF DeletionInv, DeletionTypeOK
  <2> QED
    BY <2>1, <2>2 DEF Emptied
<1>2. DeletionInv => DeletionIsSound
  BY <1>1 DEF DeletionInv, DeletionIsSound, GoneIsEmpty, TenantSound
<1> QED
  BY <1>2, DeletionHolds, PTL
-----------------------------------------------------------------------------
(* Accounts.                                                               *)

\* Ids are given in order, and the tenant that is being removed is there.
IdsInv ==
  /\ \A u \in Ids : HasRow(u) => u \in 1..users
  /\ tenantRows \subseteq 1..tenantsEver
  /\ removal # Null => removal.tenant \in tenantRows

\* What a token says of its user stays true of the row, but for a tenant that
\* is gone.
TokenHolds(t) ==
  t.type # "agent" =>
    /\ t.sub \in 1..users
    /\ t.type = "access" /\ HasRow(t.sub) =>
         /\ (t.role \in PlatformRoles) = (user[t.sub].role \in PlatformRoles)
         /\ t.acting # Null => user[t.sub].role \in PlatformRoles
         /\ t.tenant # Null => user[t.sub].role \in TenantRoles
         /\ user[t.sub].tenant \in {t.tenant, Null}

\* So does what a request has checked of its caller and its target.
Inserting(x) ==
  /\ (x.row.role \in PlatformRoles) = (x.row.tenant = Null)
  /\ HasRow(x.actor) =>
       \/ user[x.actor].role \in PlatformRoles
       \/ x.row.tenant # Null /\ user[x.actor].tenant \in {x.row.tenant, Null}

Targeting(x) ==
  /\ x.target \in 1..users
  /\ x.op = "role" /\ HasRow(x.target) => user[x.target].role \in TenantRoles
  /\ HasRow(x.actor) /\ HasRow(x.target) =>
       \/ user[x.actor].role \in PlatformRoles
       \/ user[x.actor].tenant \in {user[x.target].tenant, Null}

RequestHolds(x) ==
  x.op # "idle" =>
    /\ x.actor \in 1..users
    /\ IF x.op = "insert" THEN Inserting(x) ELSE Targeting(x)

AccountsInv ==
  /\ AccountsTypeOK /\ IdsInv /\ RowsKeepTheirSide
  /\ \A t \in tokens : TokenHolds(t)
  /\ \A r \in Requests : RequestHolds(transaction[r])

-----------------------------------------------------------------------------
(* How rows change.                                                        *)

\* Of the users there were some are gone, some have lost the tenant c, and
\* nobody has changed sides.
RowsGoOn ==
  /\ users \in Nat /\ users' \in Nat /\ users <= users'
  /\ \E c : \A u \in 1..users :
       user'[u] # NoUser =>
         /\ user[u] # NoUser
         /\ (user'[u].role \in PlatformRoles) = (user[u].role \in PlatformRoles)
         /\ (user'[u].role \in TenantRoles) = (user[u].role \in TenantRoles)
         /\ user'[u].tenant = IF user[u].tenant = c THEN Null ELSE user[u].tenant

LEMMA StepGoesOn ==
  ASSUME users \in Nat, users' \in Nat, users <= users', NEW c,
         \A u \in 1..users :
           user'[u] # NoUser =>
             /\ user[u] # NoUser
             /\ (user'[u].role \in PlatformRoles) = (user[u].role \in PlatformRoles)
             /\ (user'[u].role \in TenantRoles) = (user[u].role \in TenantRoles)
             /\ user'[u].tenant = IF user[u].tenant = c THEN Null ELSE user[u].tenant
  PROVE  RowsGoOn
<1> SUFFICES \E k : \A u \in 1..users :
       user'[u] # NoUser =>
         /\ user[u] # NoUser
         /\ (user'[u].role \in PlatformRoles) = (user[u].role \in PlatformRoles)
         /\ (user'[u].role \in TenantRoles) = (user[u].role \in TenantRoles)
         /\ user'[u].tenant = IF user[u].tenant = k THEN Null ELSE user[u].tenant
  BY DEF RowsGoOn
<1> WITNESS c
<1> QED
  OBVIOUS

\* The rows stay, or go.
LEMMA RowsMayGo ==
  ASSUME users \in Nat, users' \in Nat, users <= users',
         \A u \in 1..users : user'[u] \in {user[u], NoUser}
  PROVE  RowsGoOn
<1>1. \A u \in 1..users :
       user'[u] # NoUser =>
         /\ user[u] # NoUser
         /\ (user'[u].role \in PlatformRoles) = (user[u].role \in PlatformRoles)
         /\ (user'[u].role \in TenantRoles) = (user[u].role \in TenantRoles)
         /\ user'[u].tenant = IF user[u].tenant = Null THEN Null ELSE user[u].tenant
  OBVIOUS
<1> QED
  BY <1>1, StepGoesOn

LEMMA TokenStays ==
  ASSUME RowsGoOn, NEW t, TokenHolds(t)
  PROVE  TokenHolds(t)'
<1>1. PICK c : \A u \in 1..users :
       user'[u] # NoUser =>
         /\ user[u] # NoUser
         /\ (user'[u].role \in PlatformRoles) = (user[u].role \in PlatformRoles)
         /\ (user'[u].role \in TenantRoles) = (user[u].role \in TenantRoles)
         /\ user'[u].tenant = IF user[u].tenant = c THEN Null ELSE user[u].tenant
  BY DEF RowsGoOn
<1>2. \A u \in 1..users : u \in 1..users'
  BY DEF RowsGoOn
<1> QED
  BY <1>1, <1>2 DEF TokenHolds, HasRow

LEMMA RequestStays ==
  ASSUME RowsGoOn, NEW x, RequestHolds(x)
  PROVE  RequestHolds(x)'
<1>1. PICK c : \A u \in 1..users :
       user'[u] # NoUser =>
         /\ user[u] # NoUser
         /\ (user'[u].role \in PlatformRoles) = (user[u].role \in PlatformRoles)
         /\ (user'[u].role \in TenantRoles) = (user[u].role \in TenantRoles)
         /\ user'[u].tenant = IF user[u].tenant = c THEN Null ELSE user[u].tenant
  BY DEF RowsGoOn
<1>2. \A u \in 1..users : u \in 1..users'
  BY DEF RowsGoOn
<1>3. CASE x.op = "idle"
  BY <1>3 DEF RequestHolds
<1>4. CASE x.op = "insert"
  BY <1>1, <1>2, <1>4 DEF RequestHolds, Inserting, HasRow
<1>5. CASE x.op \notin {"idle", "insert"}
  <2>1. x.actor \in 1..users /\ x.target \in 1..users
    BY <1>5 DEF RequestHolds, Targeting
  <2> QED
    BY <1>1, <1>2, <1>5, <2>1 DEF RequestHolds, Targeting, HasRow
<1> QED
  BY <1>3, <1>4, <1>5

-----------------------------------------------------------------------------
(* Who the caller is.                                                      *)

\* A caller who is not of the platform has the tenant of his row.
LEMMA CallerIsLocal ==
  ASSUME AccountsInv, NEW t \in tokens, Speaks(t)
  PROVE  /\ t.sub \in 1..users /\ t.sub \in Ids /\ user[t.sub] \in Users
         /\ ~Operator(t) => ~Delegated(t) /\ Effective(t) = user[t.sub].tenant
<1>1. TokenHolds(t) /\ t.type = "access" /\ HasRow(t.sub)
  BY DEF AccountsInv, Speaks
<1>2. t.sub \in 1..users /\ users \in 0..MaxUsers /\ MaxUsers \in Nat
  BY <1>1, AccountsAssumption DEF TokenHolds, AccountsInv, AccountsTypeOK
<1>3. t.sub \in Ids /\ user[t.sub] \in Users
  BY <1>1, <1>2 DEF Ids, AccountsInv, AccountsTypeOK, HasRow
<1> QED
  BY <1>1, <1>2, <1>3 DEF TokenHolds, Operator, Delegated, Effective

-----------------------------------------------------------------------------
(* The invariant, for each shape of step.                                  *)

\* A token that tells the truth about its user may be issued.
LEMMA IssueKeeps ==
  ASSUME AccountsInv, NEW t \in Tokens, TokenHolds(t), Issue(t)
  PROVE  AccountsInv'
<1>1. UNCHANGED <<user, users, tenantRows, tenantsEver, transaction, removal>> /\ tokens' \subseteq tokens \cup {t}
  BY DEF Issue
<1>2. AccountsTypeOK'
  BY <1>1 DEF AccountsInv, AccountsTypeOK
<1>3. IdsInv' /\ RowsKeepTheirSide'
  BY <1>1 DEF AccountsInv, IdsInv, RowsKeepTheirSide, HasRow
<1>4. \A x : TokenHolds(x) => TokenHolds(x)'
  BY <1>1 DEF TokenHolds, HasRow
<1>5. \A x : RequestHolds(x) => RequestHolds(x)'
  BY <1>1 DEF RequestHolds, Inserting, Targeting, HasRow
<1> QED
  BY <1>1, <1>2, <1>3, <1>4, <1>5 DEF AccountsInv

\* A request may begin that has checked its caller and its target.
LEMMA BeginKeeps ==
  ASSUME AccountsInv, NEW r \in Requests, NEW x \in Operations, RequestHolds(x), Begin(r, x)
  PROVE  AccountsInv'
<1>1. /\ UNCHANGED <<user, users, tenantRows, tenantsEver, tokens, removal>>
      /\ transaction' = [transaction EXCEPT ![r] = x]
  BY DEF Begin
<1>2. transaction' \in [Requests -> Operations \cup {NoTransaction}]
  BY <1>1 DEF AccountsInv, AccountsTypeOK
<1>3. AccountsTypeOK'
  BY <1>1, <1>2 DEF AccountsInv, AccountsTypeOK
<1>4. IdsInv' /\ RowsKeepTheirSide'
  BY <1>1 DEF AccountsInv, IdsInv, RowsKeepTheirSide, HasRow
<1>5. \A y : TokenHolds(y) => TokenHolds(y)'
  BY <1>1 DEF TokenHolds, HasRow
<1>6. \A y : RequestHolds(y) => RequestHolds(y)'
  BY <1>1 DEF RequestHolds, Inserting, Targeting, HasRow
<1>7. \A q \in Requests : transaction'[q] \in {transaction[q], x}
  BY <1>1 DEF AccountsInv, AccountsTypeOK
<1> QED
  BY <1>1, <1>3, <1>4, <1>5, <1>6, <1>7 DEF AccountsInv

\* Rows may change as long as nobody changes sides and the rows are right.
LEMMA RowsKeep ==
  ASSUME AccountsInv, RowsGoOn, AccountsTypeOK', IdsInv', RowsKeepTheirSide',
         tokens' \subseteq tokens,
         \A r \in Requests : transaction'[r] \in {transaction[r], NoTransaction}
  PROVE  AccountsInv'
<1>1. \A t \in tokens' : TokenHolds(t)'
  BY TokenStays DEF AccountsInv
<1>2. RequestHolds(NoTransaction)
  BY DEF RequestHolds, NoTransaction
<1>3. \A r \in Requests : RequestHolds(transaction[r])'
  <2> TAKE r \in Requests
  <2>1. PICK x : x = transaction'[r]
    OBVIOUS
  <2>2. RequestHolds(x)
    BY <1>2, <2>1 DEF AccountsInv
  <2>3. RequestHolds(x)'
    BY <2>2, RequestStays
  <2> QED
    BY <2>1, <2>3 DEF RequestHolds, Inserting, Targeting
<1> QED
  BY <1>1, <1>3 DEF AccountsInv

LEMMA Beginnings == AccountsInit => AccountsInv
<1> SUFFICES ASSUME AccountsInit PROVE AccountsInv
  OBVIOUS
<1> USE AccountsAssumption
<1>1. 1 \in Ids /\ 2 \in Ids /\ 1 \in Tenants
  BY DEF Ids, Tenants
<1>2. AccountsTypeOK
  BY <1>1 DEF AccountsInit, AccountsTypeOK, Users, NoUser, TenantRoles, PlatformRoles
<1>3. IdsInv /\ RowsKeepTheirSide
  BY <1>1 DEF AccountsInit, IdsInv, RowsKeepTheirSide, HasRow, NoUser, PlatformRoles, Ids
<1> QED
  BY <1>2, <1>3 DEF AccountsInit, AccountsInv, RequestHolds, NoTransaction

-----------------------------------------------------------------------------
(* The tokens that are issued, and the requests that begin.                *)

LEMMA RowIsTyped ==
  ASSUME AccountsInv, NEW u \in Ids, HasRow(u)
  PROVE  /\ u \in 1..users /\ user[u] \in Users
         /\ IF user[u].role \in PlatformRoles THEN user[u].tenant = Null
            ELSE user[u].role \in TenantRoles /\ user[u].tenant \in Tenants \cup {Null}
<1>1. u \in 1..users /\ user[u] \in Users
  BY DEF AccountsInv, IdsInv, AccountsTypeOK, HasRow
<1> QED
  BY <1>1 DEF AccountsInv, RowsKeepTheirSide, Users

\* The claims of a login are the row's.
LEMMA ClaimsOfRow ==
  ASSUME AccountsInv, NEW u \in Ids, HasRow(u)
  PROVE  /\ AccessOf(u) \in Tokens /\ RefreshOf(u) \in Tokens
         /\ TokenHolds(AccessOf(u)) /\ TokenHolds(RefreshOf(u))
<1>1. /\ u \in 1..users /\ user[u] \in Users
      /\ IF user[u].role \in PlatformRoles THEN user[u].tenant = Null
         ELSE user[u].role \in TenantRoles /\ user[u].tenant \in Tenants \cup {Null}
  BY RowIsTyped
<1>2. AccessOf(u) \in Tokens /\ RefreshOf(u) \in Tokens
  BY <1>1 DEF AccessOf, RefreshOf, Tokens, Users
<1>3. TokenHolds(AccessOf(u))
  BY <1>1 DEF AccessOf, TokenHolds
<1>4. TokenHolds(RefreshOf(u))
  BY <1>1 DEF RefreshOf, TokenHolds
<1> QED
  BY <1>2, <1>3, <1>4

\* A tenant, if the caller has one.
LEMMA EffectiveIsTenant ==
  ASSUME AccountsInv, NEW t \in tokens, Speaks(t)
  PROVE  Effective(t) \in Tenants \cup {Null}
<1>1. t \in Tokens
  BY DEF AccountsInv, AccountsTypeOK
<1>2. user[t.sub] \in Users
  BY CallerIsLocal
<1> QED
  BY <1>1, <1>2 DEF Tokens, Users, Effective, Delegated

LEMMA AuthKeeps ==
  ASSUME AccountsInv, Auth
  PROVE  AccountsInv'
<1>1. CASE \E u \in Ids : Login(u)
  BY <1>1, ClaimsOfRow, IssueKeeps DEF Login
<1>2. ASSUME NEW t \in tokens, Refresh(t) PROVE AccountsInv'
  <2>1. t \in Tokens /\ TokenHolds(t)
    BY DEF AccountsInv, AccountsTypeOK
  <2>2. t.sub \in Ids
    BY <1>2, <2>1, AccountsAssumption DEF Refresh, TokenHolds, AccountsInv, AccountsTypeOK, Ids
  <2> QED
    BY <1>2, <2>2, ClaimsOfRow, IssueKeeps DEF Refresh
<1>3. ASSUME NEW t \in tokens, AgentToken(t) PROVE AccountsInv'
  <2> DEFINE agent == [type |-> "agent", sub |-> Null, role |-> Null,
                       tenant |-> Effective(t), acting |-> Null]
  <2>1. Effective(t) \in Tenants \cup {Null}
    BY <1>3, EffectiveIsTenant DEF AgentToken
  <2>2. agent \in Tokens
    BY <2>1 DEF Tokens
  <2>3. TokenHolds(agent)
    BY DEF TokenHolds
  <2>4. Issue(agent)
    BY <1>3 DEF AgentToken
  <2> QED
    BY <2>2, <2>3, <2>4, IssueKeeps
<1>4. ASSUME NEW t \in tokens, NEW c \in Tenants, Impersonate(t, c) PROVE AccountsInv'
  <2> DEFINE own == AccessOf(t.sub)
             pass == [own EXCEPT !.acting = c]
  <2>1. t.sub \in Ids /\ HasRow(t.sub) /\ user[t.sub].role \in PlatformRoles
    BY <1>4, CallerIsLocal DEF Impersonate, Speaks, Operator
  <2>2. own \in Tokens /\ TokenHolds(own) /\ own.sub = t.sub
    BY <2>1, ClaimsOfRow DEF AccessOf
  <2>3. pass \in Tokens
    BY <2>2 DEF Tokens
  <2>4. TokenHolds(pass)
    BY <2>1, <2>2 DEF AccessOf, TokenHolds
  <2>5. Issue(pass)
    BY <1>4 DEF Impersonate
  <2> QED
    BY <2>3, <2>4, <2>5, IssueKeeps
<1>5. ASSUME NEW t \in tokens, Expire(t) PROVE AccountsInv'
  <2>1. /\ UNCHANGED <<user, users, tenantRows, tenantsEver, transaction, removal>>
        /\ tokens' \subseteq tokens
    BY <1>5 DEF Expire
  <2>2. AccountsTypeOK' /\ IdsInv' /\ RowsKeepTheirSide'
    BY <2>1 DEF AccountsInv, AccountsTypeOK, IdsInv, RowsKeepTheirSide, HasRow
  <2>3. \A x : (TokenHolds(x) => TokenHolds(x)') /\ (RequestHolds(x) => RequestHolds(x)')
    BY <2>1 DEF TokenHolds, RequestHolds, Inserting, Targeting, HasRow
  <2> QED
    BY <2>1, <2>2, <2>3 DEF AccountsInv
<1> QED
  BY <1>1, <1>2, <1>3, <1>4, <1>5 DEF Auth

LEMMA BeginningsKeep ==
  ASSUME AccountsInv, NEW r \in Requests, NEW t \in tokens,
         \/ \E role \in TenantRoles : BeginCreate(r, t, role)
         \/ \E u \in Ids, role \in TenantRoles : BeginRole(r, t, u, role)
         \/ \E u \in Ids : BeginDelete(r, t, u) \/ BeginSuperDelete(r, t, u)
         \/ \E row \in Users : BeginSuperCreate(r, t, row)
  PROVE  AccountsInv'
<1>1. Speaks(t)
  BY DEF BeginCreate, BeginRole, BeginDelete, BeginSuperDelete, BeginSuperCreate
<1>2. /\ t.sub \in 1..users /\ t.sub \in Ids /\ user[t.sub] \in Users
      /\ ~Operator(t) => ~Delegated(t) /\ Effective(t) = user[t.sub].tenant
      /\ Effective(t) \in Tenants \cup {Null}
  BY <1>1, CallerIsLocal, EffectiveIsTenant
<1>3. \A n \in Tenants : n # Null
  BY AccountsAssumption DEF Tenants
<1>4. \A role \in TenantRoles : role \notin PlatformRoles
  BY DEF TenantRoles, PlatformRoles
<1>5. ASSUME NEW u \in Ids, Mine(t, u)
      PROVE  /\ u \in 1..users /\ user[u].role \in TenantRoles
             /\ Operator(t) \/ user[t.sub].tenant = user[u].tenant
  BY <1>2, <1>5, RowIsTyped DEF Mine
<1>6. ASSUME NEW role \in TenantRoles, BeginCreate(r, t, role) PROVE AccountsInv'
  <2> DEFINE x == [op |-> "insert", actor |-> t.sub, row |-> [role |-> role, tenant |-> Effective(t)]]
  <2>1. x \in Operations
    BY <1>2 DEF Operations, Users
  <2>2. RequestHolds(x)
    BY <1>2, <1>3, <1>4, <1>6 DEF RequestHolds, Inserting, Operator, BeginCreate
  <2> QED
    BY <1>6, <2>1, <2>2, BeginKeeps DEF BeginCreate
<1>7. ASSUME NEW u \in Ids, NEW role \in TenantRoles, BeginRole(r, t, u, role) PROVE AccountsInv'
  <2> DEFINE x == [op |-> "role", actor |-> t.sub, target |-> u, to |-> role]
  <2>1. x \in Operations
    BY <1>2 DEF Operations
  <2>2. RequestHolds(x)
    BY <1>2, <1>5, <1>7 DEF RequestHolds, Targeting, Operator, BeginRole
  <2> QED
    BY <1>7, <2>1, <2>2, BeginKeeps DEF BeginRole
<1>8. ASSUME NEW u \in Ids, BeginDelete(r, t, u) \/ BeginSuperDelete(r, t, u) PROVE AccountsInv'
  <2> DEFINE x == [op |-> "delete", actor |-> t.sub, target |-> u]
  <2>1. x \in Operations
    BY <1>2 DEF Operations
  <2>2. u \in 1..users
    BY <1>8, RowIsTyped DEF BeginDelete, BeginSuperDelete, Mine
  <2>3. Operator(t) \/ user[t.sub].tenant = user[u].tenant
    BY <1>5, <1>8 DEF BeginDelete, BeginSuperDelete, Superadmin, Operator, PlatformRoles
  <2>4. RequestHolds(x)
    BY <1>2, <2>2, <2>3 DEF RequestHolds, Targeting, Operator
  <2> QED
    BY <1>8, <2>1, <2>4, BeginKeeps DEF BeginDelete, BeginSuperDelete
<1>9. ASSUME NEW row \in Users, BeginSuperCreate(r, t, row) PROVE AccountsInv'
  <2> DEFINE x == [op |-> "insert", actor |-> t.sub, row |-> row]
  <2>1. x \in Operations
    BY <1>2 DEF Operations
  <2>2. (row.role \in PlatformRoles) = (row.tenant = Null)
    BY <1>3, <1>4, <1>9 DEF BeginSuperCreate, AccountsInv, AccountsTypeOK, PlatformRoles
  <2>3. user[t.sub].role \in PlatformRoles
    BY <1>9 DEF BeginSuperCreate, Superadmin, PlatformRoles
  <2>4. RequestHolds(x)
    BY <1>2, <2>2, <2>3 DEF RequestHolds, Inserting
  <2> QED
    BY <1>9, <2>1, <2>4, BeginKeeps DEF BeginSuperCreate
<1> QED
  BY <1>6, <1>7, <1>8, <1>9

-----------------------------------------------------------------------------
(* The rows that are written.                                              *)

\* A request ends and leaves the others as they are.
LEMMA FinishKeepsTypes ==
  ASSUME AccountsInv, NEW r \in Requests, Finish(r)
  PROVE  /\ transaction' \in [Requests -> Operations \cup {NoTransaction}]
         /\ \A q \in Requests : transaction'[q] \in {transaction[q], NoTransaction}
  BY DEF Finish, AccountsInv, AccountsTypeOK

\* A new row is of the side its request has checked, and nobody has its id.
LEMMA InsertKeeps ==
  ASSUME AccountsInv, NEW r \in Requests, CommitInsert(r)
  PROVE  AccountsInv'
<1> DEFINE x == transaction[r]
           n == users + 1
<1>1. /\ x.op = "insert" /\ users < MaxUsers /\ users' = n
      /\ x.row.tenant \in tenantRows \cup {Null}
      /\ user' = [user EXCEPT ![n] = x.row]
      /\ UNCHANGED <<tenantRows, tenantsEver, tokens, removal>>
  BY DEF CommitInsert
<1>2. x.row \in Users /\ (x.row.role \in PlatformRoles) = (x.row.tenant = Null)
  <2>1. x \in Operations \cup {NoTransaction} /\ RequestHolds(x)
    BY DEF AccountsInv, AccountsTypeOK
  <2> HIDE DEF x
  <2>2. x.row \in Users
    BY <1>1, <2>1 DEF Operations, NoTransaction
  <2>3. (x.row.role \in PlatformRoles) = (x.row.tenant = Null)
    BY <1>1, <2>1 DEF RequestHolds, Inserting
  <2> QED
    BY <2>2, <2>3
<1>3. users \in Nat /\ n \in Nat /\ users < n /\ n \in Ids /\ n \in 0..MaxUsers
  BY <1>1, AccountsAssumption DEF AccountsInv, AccountsTypeOK, Ids
<1>4. user \in [Ids -> Users \cup {NoUser}]
  BY DEF AccountsInv, AccountsTypeOK
<1> HIDE DEF x
<1>5. /\ user' \in [Ids -> Users \cup {NoUser}]
      /\ user'[n] = x.row /\ \A u \in Ids \ {n} : user'[u] = user[u]
  BY <1>1, <1>2, <1>3, <1>4
<1>6. AccountsTypeOK'
  <2>1. CommitInsert(r) => Finish(r)
    BY DEF CommitInsert
  <2> QED
    BY <1>1, <1>3, <1>5, <2>1, FinishKeepsTypes DEF AccountsInv, AccountsTypeOK
<1>7. \A u \in 1..users : u \in Ids \ {n} /\ u \in 1..n
  BY <1>3, AccountsAssumption DEF Ids, AccountsInv, AccountsTypeOK
<1>8. IdsInv'
  <2>1. \A u \in Ids : HasRow(u)' => u \in 1..n
    <3>1. n \in 1..n
      BY <1>3
    <3> QED
      BY <1>5, <1>7, <3>1 DEF HasRow, AccountsInv, IdsInv
  <2> QED
    BY <1>1, <2>1 DEF AccountsInv, IdsInv
<1>9. RowsKeepTheirSide'
  BY <1>1, <1>2, <1>5 DEF AccountsInv, RowsKeepTheirSide, HasRow
<1>10. RowsGoOn
  <2>1. \A u \in 1..users : user'[u] = user[u]
    BY <1>5, <1>7
  <2> QED
    BY <1>1, <1>3, <2>1, RowsMayGo
<1>11. \A q \in Requests : transaction'[q] \in {transaction[q], NoTransaction}
  BY FinishKeepsTypes DEF CommitInsert
<1> QED
  BY <1>1, <1>6, <1>8, <1>9, <1>10, <1>11, RowsKeep

\* Between the tenant's roles only.
LEMMA RoleKeeps ==
  ASSUME AccountsInv, NEW r \in Requests, CommitRole(r)
  PROVE  AccountsInv'
<1> DEFINE x == transaction[r]
           v == x.target
<1>1. /\ x.op = "role" /\ HasRow(v)
      /\ user' = [user EXCEPT ![v].role = x.to]
      /\ UNCHANGED <<users, tenantRows, tenantsEver, tokens, removal>>
  BY DEF CommitRole
<1>2. v \in Ids /\ x.to \in TenantRoles /\ v \in 1..users /\ user[v].role \in TenantRoles
  <2>1. x \in Operations \cup {NoTransaction} /\ RequestHolds(x)
    BY DEF AccountsInv, AccountsTypeOK
  <2> HIDE DEF x
  <2>2. v \in Ids /\ x.to \in TenantRoles
    BY <1>1, <2>1 DEF Operations, NoTransaction
  <2>3. v \in 1..users /\ user[v].role \in TenantRoles
    BY <1>1, <2>1 DEF RequestHolds, Targeting
  <2> QED
    BY <2>2, <2>3
<1>3. user \in [Ids -> Users \cup {NoUser}] /\ user[v] \in Users
  BY <1>1, <1>2 DEF AccountsInv, AccountsTypeOK, HasRow
<1> HIDE DEF x, v
<1>4. PICK row : row = [user[v] EXCEPT !.role = x.to]
  OBVIOUS
<1>5. row \in Users /\ row.role = x.to /\ row.tenant = user[v].tenant
  BY <1>2, <1>3, <1>4 DEF Users
<1>6. row # NoUser
  BY <1>2, <1>5 DEF NoUser, TenantRoles
<1>7. /\ user' \in [Ids -> Users \cup {NoUser}]
      /\ user'[v] = row /\ \A u \in Ids \ {v} : user'[u] = user[u]
  <2>1. user' = [user EXCEPT ![v] = row]
    BY <1>1, <1>4
  <2> QED
    BY <1>2, <1>3, <1>5, <2>1
<1>8. \A role \in TenantRoles : role \notin PlatformRoles
  BY DEF TenantRoles, PlatformRoles
<1>9. AccountsTypeOK'
  <2>1. CommitRole(r) => Finish(r)
    BY DEF CommitRole
  <2> QED
    BY <1>1, <1>7, <2>1, FinishKeepsTypes DEF AccountsInv, AccountsTypeOK
<1>10. IdsInv'
  BY <1>1, <1>2, <1>7 DEF AccountsInv, IdsInv, HasRow
<1>11. RowsKeepTheirSide'
  BY <1>1, <1>2, <1>5, <1>7, <1>8 DEF AccountsInv, RowsKeepTheirSide, HasRow
<1>12. RowsGoOn
  <2>1. users \in Nat /\ 1..users \subseteq Ids
    BY AccountsAssumption DEF AccountsInv, AccountsTypeOK, Ids
  <2>2. \A u \in 1..users :
          user'[u] # NoUser =>
            /\ user[u] # NoUser
            /\ (user'[u].role \in PlatformRoles) = (user[u].role \in PlatformRoles)
            /\ (user'[u].role \in TenantRoles) = (user[u].role \in TenantRoles)
            /\ user'[u].tenant = IF user[u].tenant = Null THEN Null ELSE user[u].tenant
    BY <1>1, <1>2, <1>5, <1>7, <1>8, <2>1 DEF HasRow
  <2> QED
    <3>1. users' \in Nat /\ users <= users'
      BY <1>1, <2>1
    <3> QED
      BY <2>1, <2>2, <3>1, StepGoesOn, Zenon
<1>13. \A q \in Requests : transaction'[q] \in {transaction[q], NoTransaction}
  BY FinishKeepsTypes DEF CommitRole
<1> QED
  BY <1>1, <1>9, <1>10, <1>11, <1>12, <1>13, RowsKeep

LEMMA DeleteKeeps ==
  ASSUME AccountsInv, NEW r \in Requests, CommitDelete(r)
  PROVE  AccountsInv'
<1> DEFINE v == transaction[r].target
<1>1. /\ user' = [user EXCEPT ![v] = NoUser]
      /\ UNCHANGED <<users, tenantRows, tenantsEver, tokens, removal>>
  BY DEF CommitDelete
<1>2. user \in [Ids -> Users \cup {NoUser}]
  BY DEF AccountsInv, AccountsTypeOK
<1>3. /\ user' \in [Ids -> Users \cup {NoUser}]
      /\ \A u \in Ids : user'[u] \in {user[u], NoUser}
  BY <1>1, <1>2
<1>4. AccountsTypeOK'
  <2>1. CommitDelete(r) => Finish(r)
    BY DEF CommitDelete
  <2> QED
    BY <1>1, <1>3, <2>1, FinishKeepsTypes DEF AccountsInv, AccountsTypeOK
<1>5. IdsInv' /\ RowsKeepTheirSide'
  BY <1>1, <1>3 DEF AccountsInv, IdsInv, RowsKeepTheirSide, HasRow
<1>6. RowsGoOn
  <2>1. users \in Nat /\ 1..users \subseteq Ids
    BY AccountsAssumption DEF AccountsInv, AccountsTypeOK, Ids
  <2>2. \A u \in 1..users : user'[u] # NoUser => user'[u] = user[u]
    BY <1>3, <2>1
  <2> QED
    BY <1>1, <2>1, <2>2, RowsMayGo
<1>7. \A q \in Requests : transaction'[q] \in {transaction[q], NoTransaction}
  BY FinishKeepsTypes DEF CommitDelete
<1> QED
  BY <1>1, <1>4, <1>5, <1>6, <1>7, RowsKeep

LEMMA RollbackKeeps ==
  ASSUME AccountsInv, NEW r \in Requests, Rollback(r)
  PROVE  AccountsInv'
<1>1. UNCHANGED <<user, users, tenantRows, tenantsEver, tokens, removal>> /\ Finish(r)
  BY DEF Rollback
<1>2. AccountsTypeOK' /\ IdsInv' /\ RowsKeepTheirSide'
  BY <1>1, FinishKeepsTypes DEF AccountsInv, AccountsTypeOK, IdsInv, RowsKeepTheirSide, HasRow
<1>3. RowsGoOn
  BY <1>1, RowsMayGo DEF AccountsInv, AccountsTypeOK
<1> QED
  BY <1>1, <1>2, <1>3, FinishKeepsTypes, RowsKeep

-----------------------------------------------------------------------------
(* Tenants come and go.                                                    *)

LEMMA OnboardKeeps ==
  ASSUME AccountsInv, Onboard
  PROVE  AccountsInv'
<1> DEFINE n == users + 1
           c == tenantsEver + 1
           row == [role |-> "ADMIN", tenant |-> c]
<1>1. /\ tenantsEver < MaxTenants /\ users < MaxUsers
      /\ tenantsEver' = c /\ users' = n
      /\ tenantRows' = tenantRows \cup {c}
      /\ user' = [user EXCEPT ![n] = row]
      /\ UNCHANGED <<tokens, transaction, removal>>
  BY DEF Onboard
<1>2. /\ users \in Nat /\ n \in Ids /\ n \in 0..MaxUsers /\ n \in 1..n
      /\ tenantsEver \in Nat /\ c \in Tenants /\ c \in 0..MaxTenants /\ c \in 1..c
      /\ c \notin 1..tenantsEver
  BY <1>1, AccountsAssumption DEF AccountsInv, AccountsTypeOK, Ids, Tenants
<1>3. \A u \in 1..users : u \in Ids \ {n} /\ u \in 1..n
  BY <1>2, AccountsAssumption DEF Ids, AccountsInv, AccountsTypeOK
<1>4. \A d \in 1..tenantsEver : d \in 1..c
  BY <1>2
<1>5. user \in [Ids -> Users \cup {NoUser}] /\ row \in Users
  BY <1>2 DEF AccountsInv, AccountsTypeOK, Users, TenantRoles
<1> HIDE DEF n, row, c
<1>6. /\ user' \in [Ids -> Users \cup {NoUser}]
      /\ user'[n] = row /\ \A u \in Ids \ {n} : user'[u] = user[u]
  BY <1>1, <1>2, <1>5
<1>7. AccountsTypeOK'
  BY <1>1, <1>2, <1>6 DEF AccountsInv, AccountsTypeOK
<1>8. IdsInv'
  <2>1. \A u \in Ids : HasRow(u)' => u \in 1..n
    BY <1>2, <1>3, <1>6 DEF HasRow, AccountsInv, IdsInv
  <2>2. tenantRows' \subseteq 1..c
    BY <1>1, <1>2, <1>4 DEF AccountsInv, IdsInv
  <2> QED
    BY <1>1, <2>1, <2>2 DEF AccountsInv, IdsInv
<1>9. RowsKeepTheirSide'
  <2>1. tenantRows # 1..tenantsEver => tenantRows' # 1..c
    BY <1>1, <1>2, <1>4 DEF AccountsInv, IdsInv
  <2>2. row.tenant = c /\ row.role \notin PlatformRoles
    BY DEF row, PlatformRoles
  <2> QED
    BY <1>1, <1>6, <2>1, <2>2 DEF AccountsInv, RowsKeepTheirSide, HasRow
<1>10. RowsGoOn
  <2>1. \A u \in 1..users : user'[u] = user[u]
    BY <1>3, <1>6
  <2>2. n \in Nat /\ users <= n
    BY <1>2 DEF n
  <2> QED
    BY <1>1, <1>2, <2>1, <2>2, RowsMayGo
<1> QED
  BY <1>1, <1>7, <1>8, <1>9, <1>10, RowsKeep

LEMMA CreateTenantKeeps ==
  ASSUME AccountsInv, NEW t \in tokens, CreateTenant(t)
  PROVE  AccountsInv'
<1> DEFINE c == tenantsEver + 1
<1>1. /\ tenantsEver < MaxTenants /\ tenantsEver' = c
      /\ tenantRows' = tenantRows \cup {c}
      /\ UNCHANGED <<user, users, tokens, transaction, removal>>
  BY DEF CreateTenant
<1>2. /\ tenantsEver \in Nat /\ c \in Tenants /\ c \in 0..MaxTenants /\ c \in 1..c
      /\ c \notin 1..tenantsEver
      /\ \A d \in 1..tenantsEver : d \in 1..c
  BY <1>1, AccountsAssumption DEF AccountsInv, AccountsTypeOK, Tenants
<1> HIDE DEF c
<1>3. AccountsTypeOK'
  BY <1>1, <1>2 DEF AccountsInv, AccountsTypeOK
<1>4. IdsInv'
  BY <1>1, <1>2 DEF AccountsInv, IdsInv, HasRow
<1>5. RowsKeepTheirSide'
  <2>1. tenantRows # 1..tenantsEver => tenantRows' # 1..c
    BY <1>1, <1>2 DEF AccountsInv, IdsInv
  <2> QED
    BY <1>1, <2>1 DEF AccountsInv, RowsKeepTheirSide, HasRow
<1>6. RowsGoOn
  BY <1>1, RowsMayGo DEF AccountsInv, AccountsTypeOK
<1> QED
  BY <1>1, <1>3, <1>4, <1>5, <1>6, RowsKeep

LEMMA ListKeeps ==
  ASSUME AccountsInv, NEW c \in Tenants, ListUsers(c)
  PROVE  AccountsInv'
<1>1. /\ c \in tenantRows
      /\ removal' = [tenant |-> c, listed |-> {u \in Ids : user[u].tenant = c}]
      /\ UNCHANGED <<user, users, tenantRows, tenantsEver, tokens, transaction>>
  BY DEF ListUsers
<1>2. AccountsTypeOK' /\ IdsInv' /\ RowsKeepTheirSide'
  BY <1>1 DEF AccountsInv, AccountsTypeOK, IdsInv, RowsKeepTheirSide, HasRow
<1>3. RowsGoOn
  BY <1>1, RowsMayGo DEF AccountsInv, AccountsTypeOK
<1> QED
  BY <1>1, <1>2, <1>3, RowsKeep

\* Whoever the list of the worker has missed is left without a tenant.
LEMMA RemoveKeeps ==
  ASSUME AccountsInv, RemoveTenant
  PROVE  AccountsInv'
<1> DEFINE c == removal.tenant
<1>1. /\ user' = [u \in Ids |->
           IF u \in removal.listed THEN NoUser
           ELSE IF user[u].tenant = c THEN [user[u] EXCEPT !.tenant = Null] ELSE user[u]]
      /\ tenantRows' = tenantRows \ {c} /\ removal' = Null
      /\ UNCHANGED <<users, tenantsEver, tokens, transaction>>
  BY DEF RemoveTenant
<1>2. /\ c \in Tenants /\ c # Null /\ c \in tenantRows /\ c \in 1..tenantsEver
      /\ user \in [Ids -> Users \cup {NoUser}]
  BY AccountsAssumption DEF RemoveTenant, AccountsInv, AccountsTypeOK, IdsInv, Tenants
<1> HIDE DEF c
<1>3. ASSUME NEW u \in Ids
      PROVE  /\ user'[u] \in Users \cup {NoUser}
             /\ user'[u] # NoUser =>
                  /\ user[u] # NoUser /\ user'[u].role = user[u].role
                  /\ user'[u].tenant = IF user[u].tenant = c THEN Null ELSE user[u].tenant
  <2>1. CASE u \in removal.listed
    BY <1>1, <2>1
  <2>2. CASE u \notin removal.listed /\ user[u].tenant # c
    BY <1>1, <1>2, <2>2
  <2>3. CASE u \notin removal.listed /\ user[u].tenant = c
    <3>1. user[u] # NoUser
      BY <1>2, <2>3 DEF NoUser
    <3>2. user[u] \in Users
      BY <1>2, <3>1
    <3>3. user'[u] = [user[u] EXCEPT !.tenant = Null]
      BY <1>1, <2>3
    <3> QED
      BY <2>3, <3>1, <3>2, <3>3 DEF Users
  <2> QED
    BY <2>1, <2>2, <2>3
<1>4. user' \in [Ids -> Users \cup {NoUser}]
  <2>1. user' = [u \in Ids |-> user'[u]]
    BY <1>1
  <2> QED
    BY <1>3, <2>1
<1>5. AccountsTypeOK'
  BY <1>1, <1>4 DEF AccountsInv, AccountsTypeOK
<1>6. IdsInv'
  BY <1>1, <1>3 DEF AccountsInv, IdsInv, HasRow
<1>7. RowsKeepTheirSide'
  <2>1. tenantRows' # 1..tenantsEver
    BY <1>1, <1>2
  <2> QED
    BY <1>1, <1>3, <2>1 DEF AccountsInv, RowsKeepTheirSide, HasRow
<1>8. RowsGoOn
  <2>1. users \in Nat /\ 1..users \subseteq Ids
    BY AccountsAssumption DEF AccountsInv, AccountsTypeOK, Ids
  <2>2. \A u \in 1..users :
          user'[u] # NoUser =>
            /\ user[u] # NoUser
            /\ (user'[u].role \in PlatformRoles) = (user[u].role \in PlatformRoles)
            /\ (user'[u].role \in TenantRoles) = (user[u].role \in TenantRoles)
            /\ user'[u].tenant = IF user[u].tenant = c THEN Null ELSE user[u].tenant
    BY <1>3, <2>1
  <2> QED
    <3>1. users' \in Nat /\ users <= users'
      BY <1>1, <2>1
    <3> QED
      BY <2>1, <2>2, <3>1, StepGoesOn, Zenon
<1> QED
  BY <1>1, <1>5, <1>6, <1>7, <1>8, RowsKeep

-----------------------------------------------------------------------------
(* The theorems.                                                           *)

LEMMA AccountsStep ==
  ASSUME AccountsInv, [AccountsNext]_accountVars
  PROVE  AccountsInv'
<1>1. CASE Auth
  BY <1>1, AuthKeeps
<1>2. ASSUME NEW r \in Requests, Serve(r) PROVE AccountsInv'
  <2>1. CASE \E t \in tokens :
               \/ \E role \in TenantRoles : BeginCreate(r, t, role)
               \/ \E u \in Ids, role \in TenantRoles : BeginRole(r, t, u, role)
               \/ \E u \in Ids : BeginDelete(r, t, u) \/ BeginSuperDelete(r, t, u)
               \/ \E row \in Users : BeginSuperCreate(r, t, row)
    BY <2>1, BeginningsKeep
  <2>2. CASE CommitInsert(r) \/ CommitRole(r) \/ CommitDelete(r) \/ Rollback(r)
    BY <2>2, InsertKeeps, RoleKeeps, DeleteKeeps, RollbackKeeps
  <2> QED
    BY <1>2, <2>1, <2>2 DEF Serve
<1>3. CASE Tenancy
  BY <1>3, OnboardKeeps, RemoveKeeps, CreateTenantKeeps, ListKeeps DEF Tenancy
<1>4. CASE UNCHANGED accountVars
  <2>1. AccountsTypeOK' /\ IdsInv' /\ RowsKeepTheirSide'
    BY <1>4 DEF accountVars, AccountsInv, AccountsTypeOK, IdsInv, RowsKeepTheirSide, HasRow
  <2>2. UNCHANGED <<user, users, tokens, transaction>>
    BY <1>4 DEF accountVars
  <2>3. RowsGoOn
    BY <2>2, RowsMayGo DEF AccountsInv, AccountsTypeOK
  <2> QED
    BY <2>1, <2>2, <2>3, RowsKeep
<1> QED
  BY <1>1, <1>2, <1>3, <1>4 DEF AccountsNext

\* The tables, the tokens and the open transactions are what they should be,
\* and what a token or a request has read of a row stays true of it, unless
\* the row's tenant has gone.
THEOREM AccountsSound == AccountsSpec => []AccountsInv
<1> QED
  BY Beginnings, AccountsStep, PTL DEF AccountsSpec

\* Every variable keeps its type.
THEOREM AccountsTyped == AccountsSpec => []AccountsTypeOK
<1>1. AccountsInv => AccountsTypeOK
  BY DEF AccountsInv
<1> QED
  BY <1>1, AccountsSound, PTL

\* The platform's users and the tenants' users are never mixed, and the claims
\* of a token agree with the row: the two ways in which routes find the
\* caller's tenant lead to the same one.
THEOREM SidesApart == AccountsSpec => []SidesNeverCross
<1>1. ASSUME AccountsInv, NEW t \in tokens, t.type = "access", HasRow(t.sub)
      PROVE  /\ t.acting # Null => Operator(t)
             /\ Effective(t) # Null => Claimed(t) = Effective(t)
             /\ Claimed(t) # Null => Effective(t) = Claimed(t) \/ Orphan(t.sub)
             /\ (t.role \in PlatformRoles) = Operator(t)
  <2>1. TokenHolds(t) /\ t.sub \in Ids /\ user[t.sub] \in Users
    BY <1>1, CallerIsLocal DEF AccountsInv, Speaks
  <2>2. t.acting # Null => Operator(t)
    BY <1>1, <2>1 DEF TokenHolds, Operator
  <2>3. (t.role \in PlatformRoles) = Operator(t)
    BY <1>1, <2>1 DEF TokenHolds, Operator
  <2>4. IF user[t.sub].role \in PlatformRoles THEN user[t.sub].tenant = Null
        ELSE user[t.sub].role \in TenantRoles
    BY <1>1, <2>1, RowIsTyped
  <2>5. CASE t.acting # Null
    BY <2>2, <2>3, <2>5 DEF Effective, Claimed, Delegated
  <2>6. CASE t.acting = Null /\ Operator(t)
    <3>1. Effective(t) = Null /\ Claimed(t) = t.tenant
      BY <2>6 DEF Effective, Claimed, Delegated
    <3>2. t.tenant = Null
      BY <1>1, <2>1, <2>6 DEF TokenHolds, Operator, TenantRoles, PlatformRoles
    <3> QED
      BY <2>2, <2>3, <3>1, <3>2
  <2>7. CASE t.acting = Null /\ ~Operator(t)
    <3>1. Effective(t) = user[t.sub].tenant /\ Claimed(t) = t.tenant
      BY <2>7 DEF Effective, Claimed, Delegated
    <3>2. user[t.sub].tenant \in {t.tenant, Null} /\ user[t.sub].role \in TenantRoles
      BY <1>1, <2>1, <2>4, <2>7 DEF TokenHolds, Operator
    <3> QED
      BY <1>1, <2>2, <2>3, <3>1, <3>2 DEF Orphan
  <2> QED
    BY <2>5, <2>6, <2>7
<1>2. AccountsInv => SidesNeverCross
  BY <1>1 DEF SidesNeverCross, ClaimsAgree, AccountsInv
<1> QED
  BY <1>2, AccountsSound, PTL

\* A request that changes a user's row does so for a caller who has a row
\* when it commits and who is of the same tenant or of the platform, however
\* long ago row, token and tenant were read.
LEMMA CommitStaysInside ==
  ASSUME AccountsInv, [AccountsNext]_accountVars, NEW r \in Requests, Committed(r),
         NEW v \in Ids, user'[v] # user[v]
  PROVE  MayChange(transaction[r].actor, IF HasRow(v) THEN user[v].tenant ELSE user'[v].tenant)
<1> DEFINE x == transaction[r]
           c == IF HasRow(v) THEN user[v].tenant ELSE user'[v].tenant
<1>1. CommitInsert(r) \/ CommitRole(r) \/ CommitDelete(r)
  <2>1. user' # user /\ transaction'[r] # transaction[r]
    BY DEF Committed
  <2>2. ~Auth /\ ~Tenancy /\ ~UNCHANGED accountVars
    BY <2>1 DEF Auth, Login, Refresh, AgentToken, Expire, Impersonate, Issue,
       Tenancy, Onboard, RemoveTenant, CreateTenant, ListUsers, accountVars
  <2>3. PICK q \in Requests : Serve(q)
    BY <2>2 DEF AccountsNext
  <2>4. CommitInsert(q) \/ CommitRole(q) \/ CommitDelete(q)
    BY <2>1, <2>3 DEF Serve, BeginCreate, BeginRole, BeginDelete, BeginSuperDelete,
       BeginSuperCreate, Begin, Rollback
  <2>5. q = r
    <3>1. transaction' = [transaction EXCEPT ![q] = NoTransaction]
      BY <2>4 DEF CommitInsert, CommitRole, CommitDelete, Finish
    <3> QED
      BY <2>1, <3>1 DEF AccountsInv, AccountsTypeOK
  <2> QED
    BY <2>4, <2>5
<1>2. HasRow(x.actor) /\ RequestHolds(x) /\ x \in Operations \cup {NoTransaction} /\ x.op # "idle"
  BY <1>1 DEF CommitInsert, CommitRole, CommitDelete, Audited, AccountsInv, AccountsTypeOK
<1>3. user \in [Ids -> Users \cup {NoUser}]
  BY DEF AccountsInv, AccountsTypeOK
<1>4. x.actor \in Ids
  <2> HIDE DEF x
  <2> QED
    BY <1>2 DEF Operations, NoTransaction
<1>5. /\ user[x.actor].role \in PlatformRoles \/ user[x.actor].role \in TenantRoles
      /\ user[x.actor].tenant # Null \/ user[x.actor].role \in PlatformRoles \/ Orphan(x.actor)
  BY <1>2, <1>4, RowIsTyped DEF Orphan
<1>6. user[x.actor].role \in PlatformRoles \/ user[x.actor].tenant \in {c, Null}
  <2>1. CASE CommitInsert(r)
    <3>1. x.op = "insert" /\ user' = [user EXCEPT ![users + 1] = x.row]
      BY <2>1 DEF CommitInsert
    <3>2. users + 1 \in Ids /\ users + 1 \notin 1..users
      BY <2>1, AccountsAssumption DEF CommitInsert, AccountsInv, AccountsTypeOK, Ids
    <3>3. v = users + 1 /\ user'[v] = x.row
      BY <1>3, <3>1, <3>2
    <3>4. ~HasRow(v)
      BY <3>2, <3>3 DEF AccountsInv, IdsInv
    <3> QED
      BY <1>2, <3>1, <3>3, <3>4 DEF RequestHolds, Inserting
  <2>2. CASE CommitRole(r) \/ CommitDelete(r)
    <3>1. /\ x.op # "insert"
          /\ \/ user' = [user EXCEPT ![x.target].role = x.to] /\ HasRow(x.target)
             \/ user' = [user EXCEPT ![x.target] = NoUser]
      BY <2>2 DEF CommitRole, CommitDelete
    <3>2. v = x.target
      BY <1>3, <3>1
    <3>3. HasRow(v)
      BY <1>3, <3>1, <3>2 DEF HasRow
    <3> QED
      BY <1>2, <3>1, <3>2, <3>3 DEF RequestHolds, Targeting
  <2> QED
    BY <1>1, <2>1, <2>2
<1> QED
  BY <1>2, <1>5, <1>6 DEF MayChange

\* Whatever overlaps, nobody changes a user of another tenant.
THEOREM ChangesInside == AccountsSpec => ChangesStayInside
<1>1. AccountsInv /\ [AccountsNext]_accountVars =>
        [\A r \in Requests : Committed(r) =>
           \A u \in Ids : user'[u] # user[u] =>
             MayChange(transaction[r].actor,
                       IF HasRow(u) THEN user[u].tenant ELSE user'[u].tenant)]_accountVars
  BY CommitStaysInside
<1> QED
  BY <1>1, AccountsSound, PTL DEF AccountsSpec, ChangesStayInside

-----------------------------------------------------------------------------
(* ReportContent: sequences and orders.                                    *)

\* Induction up to n: the sets of m elements of 1..n, m in Q, are a family that
\* grows.
LEMMA UpTo ==
  ASSUME NEW n \in Nat, NEW Q, 0 \in Q, \A m \in 0..n : m < n /\ m \in Q => m + 1 \in Q
  PROVE  n \in Q
<1> DEFINE S == 1..n
           F == {T \in SUBSET S : Cardinality(T) \in Q}
<1>1. IsFiniteSet(S) /\ Cardinality(S) = n
  BY FS_Interval
<1>2. {} \in F
  BY FS_EmptySet
<1>3. ASSUME NEW T \in SUBSET S, NEW x \in S \ T, T \in F PROVE T \cup {x} \in F
  <2> HIDE DEF S
  <2>1. /\ IsFiniteSet(T) /\ Cardinality(T \cup {x}) = Cardinality(T) + 1
        /\ Cardinality(T \cup {x}) <= n /\ Cardinality(T) \in Nat
    <3>1. IsFiniteSet(T)
      BY <1>1, FS_Subset
    <3>2. Cardinality(T \cup {x}) = Cardinality(T) + 1
      BY <3>1, FS_AddElement
    <3>3. T \cup {x} \in SUBSET S
      OBVIOUS
    <3>4. Cardinality(T \cup {x}) <= n
      BY <1>1, <3>3, FS_Subset
    <3> QED
      BY <3>1, <3>2, <3>4, FS_CardinalityType
  <2> QED
    BY <1>3, <2>1
<1> HIDE DEF F, S
<1>4. S \in F
  BY <1>1, <1>2, <1>3, GrowingFamily
<1> QED
  BY <1>1, <1>4 DEF F

StrictOrder(R, S) ==
  /\ \A i \in S : <<i, i>> \notin R
  /\ \A i, j \in S : i # j => <<i, j>> \in R \/ <<j, i>> \in R
  /\ \A i, j, k \in S : <<i, j>> \in R /\ <<j, k>> \in R => <<i, k>> \in R

LEMMA InOrderHasAll ==
  ASSUME NEW S, IsFiniteSet(S), NEW R, StrictOrder(R, S)
  PROVE  /\ Cardinality(S) \in Nat
         /\ InOrder(S, R) \in [1..Cardinality(S) -> S]
<1> DEFINE n == Cardinality(S)
           below(i) == {j \in S : <<j, i>> \in R}
           rank == [i \in S |-> Cardinality(below(i))]
<1>1. n \in Nat
  BY FS_CardinalityType
<1>2. \A i \in S : IsFiniteSet(below(i)) /\ rank[i] \in Nat /\ rank[i] < n
  <2> SUFFICES ASSUME NEW i \in S PROVE IsFiniteSet(below(i)) /\ rank[i] \in Nat /\ rank[i] < n
    OBVIOUS
  <2> DEFINE B == below(i)
  <2>1. B \in SUBSET S /\ B # S
    BY DEF StrictOrder
  <2> HIDE DEF B, below
  <2>2. IsFiniteSet(B) /\ Cardinality(B) <= n /\ Cardinality(B) # n
    BY <2>1, FS_Subset
  <2>3. Cardinality(B) \in Nat
    BY <2>2, FS_CardinalityType
  <2> QED
    BY <1>1, <2>2, <2>3 DEF B
<1>3. ASSUME NEW i \in S, NEW j \in S, <<i, j>> \in R PROVE rank[i] # rank[j]
  <2> DEFINE A == below(i)
             B == below(j)
  <2>1. A \in SUBSET B /\ i \in B /\ i \notin A
    BY <1>3 DEF StrictOrder
  <2>2. IsFiniteSet(B)
    BY <1>2
  <2> HIDE DEF A, B, below
  <2>3. Cardinality(A) # Cardinality(B)
    BY <2>1, <2>2, FS_Subset
  <2> QED
    BY <2>3 DEF A, B
<1> DEFINE D == 0..(n - 1)
<1>4. rank \in Injection(S, D)
  <2>1. rank \in [S -> D]
    <3> HIDE DEF n, below
    <3> QED
      BY <1>1, <1>2
  <2>2. \A i, j \in S : rank[i] = rank[j] => i = j
    BY <1>3 DEF StrictOrder
  <2> HIDE DEF rank, D
  <2> QED
    BY <2>1, <2>2 DEF Injection, IsInjective
<1>5. IsFiniteSet(D) /\ Cardinality(D) = n
  <2> HIDE DEF n
  <2>1. 0 \in Int /\ n - 1 \in Int
    BY <1>1
  <2> QED
    BY <1>1, <2>1, FS_Interval
<1>6. rank \in Surjection(S, D)
  <2> HIDE DEF rank, D
  <2> QED
    BY <1>4, <1>5, FS_Injection
<1>7. \A k \in 1..n : \E i \in S : rank[i] = k - 1
  <2> HIDE DEF rank, n
  <2> QED
    BY <1>1, <1>6 DEF Surjection
<1>8. \A k \in 1..n : InOrder(S, R)[k] \in S
  BY <1>7 DEF InOrder
<1> QED
  BY <1>1, <1>8 DEF InOrder

LEMMA KeptIsPart ==
  ASSUME NEW X, NEW seq \in Seq(X), NEW S
  PROVE  Kept(seq, S) \in Seq(X \cap S)
<1> DEFINE N == {i \in DOMAIN seq : seq[i] \in S}
           R == {x \in Places(seq) : x[1] < x[2]}
           at == InOrder(N, R)
<1>1. DOMAIN seq = 1..Len(seq) /\ Len(seq) \in Nat
  OBVIOUS
<1>2. IsFiniteSet(N)
  <2>1. IsFiniteSet(1..Len(seq)) /\ N \in SUBSET (1..Len(seq))
    BY <1>1, FS_Interval
  <2> HIDE DEF N
  <2> QED
    BY <2>1, FS_Subset
<1>3. StrictOrder(R, N)
  BY <1>1 DEF StrictOrder, Places
<1> HIDE DEF R
<1>4. Cardinality(N) \in Nat /\ at \in [1..Cardinality(N) -> N]
  <2> HIDE DEF N
  <2> QED
    BY <1>2, <1>3, InOrderHasAll
<1> DEFINE kept == [k \in DOMAIN at |-> seq[at[k]]]
<1>5. Kept(seq, S) = kept
  BY DEF Kept, R
<1>6. DOMAIN at = 1..Cardinality(N) /\ \A k \in DOMAIN at : seq[at[k]] \in X \cap S
  <2> HIDE DEF at
  <2> QED
    BY <1>4
<1> HIDE DEF at
<1>7. kept \in [1..Cardinality(N) -> X \cap S]
  BY <1>6
<1> HIDE DEF kept, N
<1>8. kept \in Seq(X \cap S)
  BY <1>4, <1>7
<1> QED
  BY <1>5, <1>8

LEMMA FirstIsPart ==
  ASSUME NEW X, NEW seq \in Seq(X), NEW n \in Nat
  PROVE  /\ First(seq, n) \in Seq(X)
         /\ Len(First(seq, n)) = IF n < Len(seq) THEN n ELSE Len(seq)
         /\ Len(First(seq, n)) <= Len(seq)
<1> DEFINE m == IF n < Len(seq) THEN n ELSE Len(seq)
<1>1. m \in Nat /\ m <= Len(seq) /\ \A i \in 1..m : seq[i] \in X
  OBVIOUS
<1> HIDE DEF m
<1>2. SubSeq(seq, 1, m) \in Seq(X) /\ Len(SubSeq(seq, 1, m)) = IF 1 <= m THEN m - 1 + 1 ELSE 0
  BY <1>1, SubSeqProperties, SMTT(30)
<1>3. Len(SubSeq(seq, 1, m)) = m
  BY <1>1, <1>2
<1>4. First(seq, n) = SubSeq(seq, 1, m)
  BY DEF First, m
<1> QED
  BY <1>1, <1>2, <1>3, <1>4 DEF m

\* What sorted() returns is what it was given.
LEMMA SortedIsAll ==
  ASSUME NEW X, \A x \in X : x.label \in DOMAIN Rank, NEW rows \in Seq(X),
         NEW key \in [DOMAIN rows -> Nat]
  PROVE  Sorted(rows, key) \in Seq(X) /\ Len(Sorted(rows, key)) = Len(rows)
<1> DEFINE N == DOMAIN rows
           rank == [i \in N |-> Rank[rows[i].label]]
           precedes(i, j) ==
             \/ rank[i] < rank[j]
             \/ rank[i] = rank[j] /\ key[i] < key[j]
             \/ rank[i] = rank[j] /\ key[i] = key[j] /\ i < j
           R == {x \in Places(rows) : precedes(x[1], x[2])}
           at == InOrder(N, R)
<1>1. N = 1..Len(rows) /\ Len(rows) \in Nat
  OBVIOUS
<1>2. IsFiniteSet(N) /\ Cardinality(N) = Len(rows)
  <2> HIDE DEF N
  <2>1. 1 \in Int /\ Len(rows) \in Int /\ ~(1 > Len(rows)) => Len(rows) - 1 + 1 = Len(rows)
    BY <1>1
  <2>2. /\ IsFiniteSet(1..Len(rows))
        /\ Cardinality(1..Len(rows)) = IF 1 > Len(rows) THEN 0 ELSE Len(rows) - 1 + 1
    BY <1>1, FS_Interval
  <2> QED
    BY <1>1, <2>2
<1>3. \A l \in DOMAIN Rank : Rank[l] \in Nat
  BY DEF Rank
<1>4. \A i \in N : rank[i] \in Nat /\ key[i] \in Nat /\ i \in Nat
  BY <1>1, <1>3
<1>5. StrictOrder(R, N)
  <2> DEFINE T == [i \in N |-> precedes(i, i)]
  <2>1. \A i, j \in N : <<i, j>> \in R <=> precedes(i, j)
    BY DEF Places
  <2> HIDE DEF rank, R, N
  <2>2. \A i \in N : ~precedes(i, i)
    BY <1>4
  <2>3. \A i, j \in N : i # j => precedes(i, j) \/ precedes(j, i)
    BY <1>4
  <2>4. \A i, j, k \in N : precedes(i, j) /\ precedes(j, k) => precedes(i, k)
    BY <1>4
  <2> HIDE DEF precedes
  <2> QED
    BY <2>1, <2>2, <2>3, <2>4 DEF StrictOrder
<1>6. at \in [1..Len(rows) -> N]
  <2> HIDE DEF N, R
  <2> QED
    BY <1>2, <1>5, InOrderHasAll
<1>7. Sorted(rows, key) = [k \in DOMAIN at |-> rows[at[k]]]
  <2>1. R = {x \in Places(rows) :
               \/ Rank[rows[x[1]].label] < Rank[rows[x[2]].label]
               \/ Rank[rows[x[1]].label] = Rank[rows[x[2]].label] /\ key[x[1]] < key[x[2]]
               \/ /\ Rank[rows[x[1]].label] = Rank[rows[x[2]].label]
                  /\ key[x[1]] = key[x[2]] /\ x[1] < x[2]}
    BY DEF Places
  <2> QED
    BY <2>1 DEF Sorted
<1> HIDE DEF at
<1> DEFINE sorted == [k \in DOMAIN at |-> rows[at[k]]]
<1>8. sorted \in [1..Len(rows) -> X]
  BY <1>6
<1> HIDE DEF sorted
<1>9. sorted \in Seq(X) /\ Len(sorted) = Len(rows)
  BY <1>1, <1>8
<1> QED
  BY <1>7, <1>9 DEF sorted

-----------------------------------------------------------------------------
(* One sequence after the other.                                           *)

IsJoin(g, seqs, m) ==
  g = [i \in 1..m |-> IF i = 1 THEN seqs[i] ELSE g[i - 1] \o seqs[i]]

LEMMA JoinExists ==
  ASSUME NEW seqs, NEW n \in Nat
  PROVE  \E g : IsJoin(g, seqs, n)
<1> DEFINE Q == {m \in 0..n : \E g : IsJoin(g, seqs, m)}
<1>1. 0 \in Q
  <2> DEFINE g == [i \in 1..0 |-> seqs[1]]
  <2>1. g = [i \in 1..0 |-> IF i = 1 THEN seqs[i] ELSE g[i - 1] \o seqs[i]]
    OBVIOUS
  <2> HIDE DEF g
  <2>2. IsJoin(g, seqs, 0)
    BY <2>1 DEF IsJoin
  <2> QED
    BY <2>2
<1>2. ASSUME NEW m \in 0..n, m < n, m \in Q PROVE m + 1 \in Q
  <2>1. PICK g : IsJoin(g, seqs, m)
    BY <1>2
  <2> DEFINE h == [i \in 1..(m + 1) |->
                     IF i = m + 1 THEN IF i = 1 THEN seqs[1] ELSE g[m] \o seqs[i]
                     ELSE g[i]]
  <2>2. \A i \in 1..(m + 1) : h[i] = IF i = 1 THEN seqs[i] ELSE h[i - 1] \o seqs[i]
    <3> SUFFICES ASSUME NEW i \in 1..(m + 1)
                 PROVE  h[i] = IF i = 1 THEN seqs[i] ELSE h[i - 1] \o seqs[i]
      OBVIOUS
    <3>1. CASE i = m + 1
      <4>1. CASE i = 1
        BY <3>1, <4>1
      <4>2. CASE i # 1
        <5>1. i - 1 = m /\ i - 1 \in 1..(m + 1) /\ i - 1 # m + 1
          BY <3>1, <4>2
        <5>2. h[i - 1] = g[m]
          BY <5>1
        <5>3. h[i] = g[m] \o seqs[i]
          BY <3>1, <4>2
        <5> QED
          BY <4>2, <5>2, <5>3
      <4> QED
        BY <4>1, <4>2
    <3>2. CASE i # m + 1
      <4>1. i \in 1..m /\ h[i] = g[i]
        BY <3>2
      <4>2. g[i] = IF i = 1 THEN seqs[i] ELSE g[i - 1] \o seqs[i]
        BY <2>1, <4>1 DEF IsJoin
      <4>3. i # 1 => i - 1 \in 1..(m + 1) /\ i - 1 # m + 1
        BY <4>1
      <4>4. i # 1 => h[i - 1] = g[i - 1]
        BY <4>3
      <4> QED
        BY <4>1, <4>2, <4>4
    <3> QED
      BY <3>1, <3>2
  <2>3. h = [i \in 1..(m + 1) |-> h[i]]
    OBVIOUS
  <2> HIDE DEF h
  <2>4. IsJoin(h, seqs, m + 1)
    BY <2>2, <2>3 DEF IsJoin
  <2> QED
    BY <1>2, <2>4
<1> HIDE DEF Q
<1>3. n \in Q
  BY <1>1, <1>2, UpTo
<1> QED
  BY <1>3 DEF Q

Join(seqs, n) == CHOOSE g : IsJoin(g, seqs, n)

LEMMA FlattenIsJoin ==
  ASSUME NEW seqs, Len(seqs) \in Nat \ {0}
  PROVE  FlattenSeq(seqs) = Join(seqs, Len(seqs))[Len(seqs)]
<1>1. Len(seqs) # 0
  OBVIOUS
<1> QED
  BY <1>1 DEF FlattenSeq, Join, IsJoin

Lengths(seqs) == [i \in DOMAIN seqs |-> Len(seqs[i])]

LEMMA FlattenAddsUp ==
  ASSUME NEW X, NEW seqs \in Seq(Seq(X))
  PROVE  /\ FlattenSeq(seqs) \in Seq(X)
         /\ Len(FlattenSeq(seqs)) = SumOf(Lengths(seqs), DOMAIN seqs)
<1> DEFINE n == Len(seqs)
           f == Lengths(seqs)
<1>1. n \in Nat /\ DOMAIN seqs = 1..n
  OBVIOUS
<1>2. CASE n = 0
  <2>1. DOMAIN seqs = {} /\ seqs = <<>>
    BY <1>1, <1>2
  <2>2. FlattenSeq(seqs) = <<>>
    BY <1>2, <2>1 DEF FlattenSeq
  <2> QED
    BY <2>1, <2>2, SumOfNone, EmptySeq
<1>3. CASE n # 0
  <2> DEFINE g == Join(seqs, n)
             Q == {m \in 0..n : m = 0 \/ (g[m] \in Seq(X) /\ Len(g[m]) = SumOf(f, 1..m))}
  <2>1. IsJoin(g, seqs, n)
    BY <1>1, JoinExists DEF Join
  <2> HIDE DEF g
  <2>2. \A i \in 1..n : /\ g[i] = IF i = 1 THEN seqs[i] ELSE g[i - 1] \o seqs[i]
                        /\ seqs[i] \in Seq(X) /\ f[i] = Len(seqs[i]) /\ f[i] \in Nat
    <3> SUFFICES ASSUME NEW i \in 1..n
                 PROVE  /\ g[i] = IF i = 1 THEN seqs[i] ELSE g[i - 1] \o seqs[i]
                        /\ seqs[i] \in Seq(X) /\ f[i] = Len(seqs[i]) /\ f[i] \in Nat
      OBVIOUS
    <3>1. seqs[i] \in Seq(X) /\ f[i] = Len(seqs[i])
      BY <1>1 DEF Lengths
    <3>2. f[i] \in Nat
      BY <3>1
    <3> HIDE DEF f, n
    <3>3. g[i] = IF i = 1 THEN seqs[i] ELSE g[i - 1] \o seqs[i]
      BY <2>1 DEF IsJoin
    <3> QED
      BY <3>1, <3>2, <3>3
  <2> HIDE DEF f, n
  <2>3. 0 \in Q
    BY <1>1
  <2>4. ASSUME NEW m \in 0..n, m < n, m \in Q PROVE m + 1 \in Q
    <3>1. m + 1 \in 1..n /\ m \in Nat
      BY <1>1, <2>4
    <3> DEFINE p == m + 1
    <3>2. /\ 1..p = (1..m) \cup {p} /\ p \notin 1..m
          /\ p - 1 = m /\ (m # 0 <=> p # 1) /\ p \in 1..n
      BY <3>1
    <3>3. IsFiniteSet(1..m)
      BY <3>1, FS_Interval
    <3> HIDE DEF p
    <3>4. Naturals(f, (1..m) \cup {p})
      BY <1>1, <2>2, <2>4, <3>2 DEF Naturals
    <3>a. SumOf(f, 1..p) = SumOf(f, 1..m) + Len(seqs[p])
      <4> DEFINE M == 1..m
      <4>1. IsFiniteSet(M) /\ p \notin M /\ Naturals(f, M \cup {p}) /\ 1..p = M \cup {p}
        BY <3>2, <3>3, <3>4
      <4> HIDE DEF M
      <4>2. SumOf(f, M \cup {p}) = SumOf(f, M) + f[p]
        BY <4>1, SumWith
      <4> QED
        BY <2>2, <3>2, <4>1, <4>2 DEF M
    <3>5. CASE m = 0
      <4>1. g[p] = seqs[p]
        BY <2>2, <3>2, <3>5
      <4>2. 1..m = {}
        BY <3>5
      <4>3. SumOf(f, 1..m) = 0
        BY <4>2, SumOfNone
      <4>4. Len(seqs[p]) \in Nat
        BY <2>2, <3>2
      <4> QED
        BY <2>2, <3>2, <3>a, <4>1, <4>3, <4>4
    <3>6. CASE m # 0
      <4>1. g[p] = g[m] \o seqs[p]
        BY <2>2, <3>2, <3>6
      <4>2. g[m] \in Seq(X) /\ Len(g[m]) = SumOf(f, 1..m) /\ seqs[p] \in Seq(X)
        BY <2>2, <2>4, <3>2, <3>6
      <4> DEFINE a == g[m]
                 b == seqs[p]
      <4> HIDE DEF a, b
      <4>b. a \o b \in Seq(X) /\ Len(a \o b) = Len(a) + Len(b)
        BY <4>2, ConcatProperties DEF a, b
      <4>3. g[p] \in Seq(X) /\ Len(g[p]) = Len(g[m]) + Len(seqs[p])
        BY <4>1, <4>b DEF a, b
      <4> QED
        BY <3>2, <3>a, <4>2, <4>3
    <3>7. m + 1 = p
      BY DEF p
    <3> QED
      BY <3>5, <3>6, <3>7
  <2> HIDE DEF Q
  <2>5. n \in Q
    BY <1>1, <2>3, <2>4, UpTo
  <2>6. FlattenSeq(seqs) = g[n]
    BY <1>1, <1>3, FlattenIsJoin DEF g, n
  <2> QED
    BY <1>1, <1>3, <2>5, <2>6 DEF Q, f
<1> QED
  BY <1>2, <1>3

-----------------------------------------------------------------------------
(* The figures of a domain.                                                *)

ScanOrNone == Scans \cup {Nothing}

LEMMA SeveritiesAre ==
  /\ IsFiniteSet(Severities)
  /\ \A counts : Sum(counts) = SumOf(counts, Severities)
<1>1. IsFiniteSet(Severities)
  BY FiveFinite DEF Severities
<1>2. \A counts : Sum(counts) = SumOf(counts, Severities)
  BY DEF Sum, SumOf
<1> QED
  BY <1>1, <1>2

LEMMA ItemsAre ==
  ASSUME NEW scan \in ScanOrNone
  PROVE  Items(scan) \in Seq(FindingRows)
<1>1. CASE scan = Nothing
  BY <1>1 DEF Items
<1>2. CASE scan # Nothing
  <2>1. scan.findings \in Seq(FindingRows) /\ ReadLimit \in Nat
    BY <1>2, ContentAssumption DEF ScanOrNone
  <2>2. First(scan.findings, ReadLimit) \in Seq(FindingRows)
    BY <2>1, FirstIsPart
  <2> QED
    BY <1>2, <2>2 DEF Items
<1> QED
  BY <1>1, <1>2

LEMMA CountsAddUp ==
  ASSUME NEW items \in Seq(FindingRows)
  PROVE  /\ Counts(items) \in Totals
         /\ SumOf(Counts(items), Severities) = Len(items)
<1> DEFINE S == DOMAIN items
           key == [i \in S |-> Counted[items[i].label]]
           g == Counts(items)
<1>0. S = 1..Len(items) /\ Len(items) \in Nat /\ \A i \in S : items[i] \in FindingRows
  OBVIOUS
<1>1. S = 1..Len(items) /\ Len(items) \in Nat /\ \A i \in S : items[i].label \in DOMAIN Counted
  BY <1>0 DEF FindingRows
<1>2. IsFiniteSet(S) /\ Cardinality(S) = Len(items)
  <2> HIDE DEF S
  <2>1. 1 \in Int /\ Len(items) \in Int /\ ~(1 > Len(items)) => Len(items) - 1 + 1 = Len(items)
    BY <1>1
  <2>2. /\ IsFiniteSet(1..Len(items))
        /\ Cardinality(1..Len(items)) = IF 1 > Len(items) THEN 0 ELSE Len(items) - 1 + 1
    BY <1>1, FS_Interval
  <2> QED
    BY <1>1, <2>2
<1>3. \A l \in DOMAIN Counted : Counted[l] \in Severities
  BY DEF Counted, Severities
<1>4. Keyed(key, S, Severities)
  BY <1>1, <1>3 DEF Keyed
<1>5. \A s \in Severities : /\ WithKey(key, S, s) = {i \in S : Counted[items[i].label] = s}
                            /\ WithKey(key, S, s) \in SUBSET S
  BY DEF WithKey
<1>6. NumbersByKey(g, key, S, Severities)
  BY <1>5 DEF NumbersByKey, Counts
<1>7. \A s \in Severities : g[s] = Cardinality(WithKey(key, S, s))
  BY <1>6 DEF NumbersByKey
<1>8. g = [s \in Severities |-> g[s]]
  BY DEF Counts
<1> HIDE DEF g, key, S
<1>9. \A s \in Severities : g[s] \in Nat
  BY <1>2, <1>5, <1>7, FS_Subset, FS_CardinalityType
<1>10. Cardinality(S) = SumOf(g, Severities)
  BY <1>2, <1>4, <1>6, SeveritiesAre, CountByKey
<1>11. g \in Totals
  BY <1>8, <1>9 DEF Totals
<1> QED
  BY <1>2, <1>10, <1>11 DEF g

LEMMA TotalIsSum ==
  ASSUME NEW scan \in ScanOrNone
  PROVE  /\ SeverityOf(scan) \in Totals
         /\ TotalOf(scan) \in Nat
         /\ TotalOf(scan) = SumOf(SeverityOf(scan), Severities)
         /\ Len(Items(scan)) <= TotalOf(scan)
<1>1. Items(scan) \in Seq(FindingRows)
  BY ItemsAre
<1> DEFINE items == Items(scan)
<1>2. CASE items # <<>>
  <2>1. Counts(items) \in Totals /\ SumOf(Counts(items), Severities) = Len(items) /\ Len(items) \in Nat
    BY <1>1, CountsAddUp
  <2> HIDE DEF items
  <2> QED
    BY <1>2, <2>1 DEF SeverityOf, TotalOf, items
<1>3. CASE items = <<>> /\ scan = Nothing
  <2> DEFINE zero == [s \in Severities |-> 0]
  <2>1. zero \in Totals /\ \A s \in Severities : zero[s] = 0
    BY DEF Totals
  <2> HIDE DEF zero
  <2>2. SumOf(zero, Severities) = 0
    BY <2>1, SumOfZeros, SeveritiesAre
  <2>3. SeverityOf(scan) = zero /\ TotalOf(scan) = 0 /\ Len(items) = 0
    BY <1>3 DEF SeverityOf, TotalOf, zero
  <2> HIDE DEF items
  <2> QED
    BY <2>1, <2>2, <2>3 DEF items
<1>4. CASE items = <<>> /\ scan # Nothing
  <2>1. scan.counts \in Totals
    BY <1>4, ContentAssumption DEF ScanOrNone
  <2>2. Naturals(scan.counts, Severities)
    BY <2>1 DEF Naturals, Totals
  <2>3. SumOf(scan.counts, Severities) \in Nat
    BY <2>2, SumIsNatural, SeveritiesAre
  <2>4. SeverityOf(scan) = scan.counts /\ TotalOf(scan) = Sum(scan.counts) /\ Len(items) = 0
    BY <1>4 DEF SeverityOf, TotalOf
  <2>5. TotalOf(scan) = SumOf(scan.counts, Severities)
    BY <2>4, SeveritiesAre
  <2> HIDE DEF items
  <2> QED
    BY <2>1, <2>3, <2>4, <2>5 DEF items
<1> QED
  BY <1>2, <1>3, <1>4

LEMMA SampleIsPart ==
  ASSUME NEW items \in Seq(FindingRows), NEW n \in Nat
  PROVE  Sample(items, n) \in Seq(ShownRows) /\ Len(Sample(items, n)) <= Len(items)
<1> DEFINE key == [i \in DOMAIN items |-> i]
<1>1. key \in [DOMAIN items -> Nat]
  OBVIOUS
<1>2. \A x \in FindingRows : x.label \in DOMAIN Rank
  BY DEF FindingRows, Counted, Rank
<1> DEFINE all == Sorted(items, key)
<1>3. all \in Seq(FindingRows) /\ Len(all) = Len(items)
  <2> HIDE DEF key
  <2> QED
    BY <1>1, <1>2, SortedIsAll
<1> HIDE DEF all
<1> DEFINE some == First(all, n)
<1>4. some \in Seq(FindingRows) /\ Len(some) <= Len(items)
  BY <1>3, FirstIsPart
<1>5. Sample(items, n) = [k \in DOMAIN some |-> Row(some[k])]
  BY DEF Sample, some, all
<1> HIDE DEF some
<1>6. \A f \in FindingRows : Row(f) \in ShownRows
  BY DEF FindingRows, ShownRows, Row
<1> DEFINE shown == [k \in DOMAIN some |-> Row(some[k])]
<1>7. shown \in [1..Len(some) -> ShownRows] /\ Len(some) \in Nat
  BY <1>4, <1>6
<1> HIDE DEF shown
<1>8. shown \in Seq(ShownRows) /\ Len(shown) = Len(some)
  BY <1>7
<1> QED
  BY <1>4, <1>5, <1>8 DEF shown

\* A domain's total is the sum of its counts, no fewer than what is shown of it,
\* and the scan before is the earlier one.
Sound(d) ==
  /\ d.total = SumOf(d.severity, Severities)
  /\ d.previousTotal = SumOf(d.previousSeverity, Severities)
  /\ Len(d.findings) <= d.total
  /\ d.previousAt < d.at \/ d.at = 0

LEMMA DomainIsSound ==
  ASSUME NEW p \in Providers, NEW scan \in ScanOrNone, NEW before \in ScanOrNone,
         before # Nothing => scan # Nothing /\ before.at < scan.at
  PROVE  Domain(p, scan, before) \in DomainRows /\ Sound(Domain(p, scan, before))
<1> DEFINE d == Domain(p, scan, before)
           layer == IF p \in Noc THEN "NOC" ELSE "SOC"
           at == IF scan = Nothing THEN 0 ELSE scan.at
           previousAt == IF before = Nothing THEN 0 ELSE before.at
           total == TotalOf(scan)
           previousTotal == TotalOf(before)
           severity == SeverityOf(scan)
           previousSeverity == SeverityOf(before)
           findings == Sample(Items(scan), SampleLimit)
           previous == Sample(Items(before), PreviousLimit)
<1>1. d = [name |-> p, layer |-> layer, total |-> total, previousTotal |-> previousTotal,
           severity |-> severity, previousSeverity |-> previousSeverity,
           at |-> at, previousAt |-> previousAt, findings |-> findings,
           previous |-> previous]
  BY DEF Domain
<1>2. /\ SampleLimit \in Nat /\ PreviousLimit \in Nat
      /\ \A s \in ScanOrNone : s # Nothing => s.at \in Nat \ {0}
  BY ContentAssumption DEF ScanOrNone
<1>3. layer \in Layers /\ at \in Nat /\ previousAt \in Nat /\ (previousAt < at \/ at = 0)
  BY <1>2 DEF Layers
<1>4. /\ total \in Nat /\ severity \in Totals /\ total = SumOf(severity, Severities)
      /\ Len(Items(scan)) <= total
  BY TotalIsSum
<1>5. /\ previousTotal \in Nat /\ previousSeverity \in Totals
      /\ previousTotal = SumOf(previousSeverity, Severities)
  BY TotalIsSum
<1>6. Items(scan) \in Seq(FindingRows) /\ Items(before) \in Seq(FindingRows)
  BY ItemsAre
<1>7. /\ findings \in Seq(ShownRows) /\ Len(findings) <= Len(Items(scan))
      /\ previous \in Seq(ShownRows)
  <2> DEFINE a == Items(scan)
             b == Items(before)
  <2>1. a \in Seq(FindingRows) /\ b \in Seq(FindingRows)
    BY <1>6
  <2> HIDE DEF a, b
  <2>2. Sample(a, SampleLimit) \in Seq(ShownRows) /\ Len(Sample(a, SampleLimit)) <= Len(a)
    BY <1>2, <2>1, SampleIsPart
  <2>3. Sample(b, PreviousLimit) \in Seq(ShownRows)
    BY <1>2, <2>1, SampleIsPart
  <2> QED
    BY <2>2, <2>3 DEF a, b
<1>8. Len(findings) <= total
  <2>1. Len(findings) \in Nat /\ Len(Items(scan)) \in Nat
    BY <1>6, <1>7
  <2> HIDE DEF findings, total
  <2> QED
    BY <1>4, <1>7, <2>1
<1> HIDE DEF layer, at, previousAt, total, previousTotal, severity, previousSeverity,
             findings, previous
<1>9. d \in DomainRows
  BY <1>1, <1>3, <1>4, <1>5, <1>7 DEF DomainRows
<1>10. Sound(d)
  BY <1>1, <1>3, <1>4, <1>5, <1>8 DEF Sound
<1> QED
  BY <1>9, <1>10

-----------------------------------------------------------------------------
(* The figures of the report.                                              *)

DomainsInv ==
  /\ domains \in Seq(DomainRows)
  /\ \A i \in DOMAIN domains : Sound(domains[i])

Every == DOMAIN domains

LEMMA DomainsAre ==
  ASSUME domains \in Seq(DomainRows)
  PROVE  /\ Every = 1..Len(domains) /\ Len(domains) \in Nat
         /\ IsFiniteSet(Every)
         /\ \A i \in Every : domains[i] \in DomainRows
<1>1. Every = 1..Len(domains) /\ Len(domains) \in Nat /\ \A i \in Every : domains[i] \in DomainRows
  BY DEF Every
<1>2. IsFiniteSet(1..Len(domains))
  BY <1>1, FS_Interval
<1> QED
  BY <1>1, <1>2

LEMMA TotalIsSumOf ==
  ASSUME NEW field, NEW s \in Severities
  PROVE  Total(field)[s] = SumOf([i \in Every |-> domains[i][field][s]], Every)
<1>1. Total(field)[s] = MapThenSumSet(LAMBDA i : domains[i][field][s], Every)
  BY DEF Total, Every
<1>2. MapThenSumSet(LAMBDA i : domains[i][field][s], Every)
        = SumOf([i \in Every |-> domains[i][field][s]], Every)
  BY ZenonT(60) DEF SumOf, MapThenSumSet, MapThenFoldSet
<1> QED
  BY <1>1, <1>2

\* Severity by severity or domain by domain.
LEMMA TotalsExchange ==
  ASSUME domains \in Seq(DomainRows), NEW field \in {"severity", "previousSeverity"},
         NEW f, \A i \in Every : f[i] = SumOf(domains[i][field], Severities)
  PROVE  /\ Total(field) \in Totals
         /\ Sum(Total(field)) = SumOf(f, Every)
<1> DEFINE row == [i \in Every |-> domains[i][field]]
           col == [s \in Severities |-> [i \in Every |-> domains[i][field][s]]]
           g == Total(field)
<1>1. \A i \in Every : domains[i] \in DomainRows
  BY DomainsAre
<1>2. \A i \in Every : domains[i][field] \in Totals
  BY <1>1 DEF DomainRows
<1>3. Tabled(row, col, Every, Severities)
  BY <1>2 DEF Tabled, Totals
<1>4. Sums(f, row, Every, Severities)
  BY DEF Sums
<1>6. ASSUME NEW s \in Severities PROVE g[s] = SumOf(col[s], Every) /\ g[s] \in Nat
  <2> DEFINE h == [i \in Every |-> domains[i][field][s]]
  <2>1. g[s] = SumOf(h, Every)
    BY TotalIsSumOf
  <2>2. h = col[s]
    OBVIOUS
  <2>3. Naturals(h, Every)
    BY <1>2 DEF Naturals, Totals
  <2> HIDE DEF h
  <2>4. SumOf(h, Every) \in Nat
    BY <2>3, DomainsAre, SumIsNatural
  <2> QED
    BY <2>1, <2>2, <2>4
<1>7. Sums(g, col, Severities, Every)
  BY <1>6 DEF Sums
<1>8. g \in Totals
  <2>1. g = [s \in Severities |-> g[s]]
    BY DEF Total
  <2> HIDE DEF g
  <2> QED
    BY <1>6, <2>1 DEF Totals
<1> HIDE DEF row, col, g
<1>9. SumOf(f, Every) = SumOf(g, Severities)
  BY <1>3, <1>4, <1>7, DomainsAre, SeveritiesAre, SumExchange
<1> QED
  BY <1>8, <1>9, SeveritiesAre DEF g

TotalsOf == [i \in Every |-> domains[i].total]
PreviousTotals == [i \in Every |-> domains[i].previousTotal]

LEMMA TotalsAddUp ==
  ASSUME DomainsInv
  PROVE  /\ Total("severity") \in Totals /\ Total("previousSeverity") \in Totals
         /\ Sum(Total("severity")) = SumOf(TotalsOf, Every)
         /\ Sum(Total("severity")) \in Nat /\ Sum(Total("previousSeverity")) \in Nat
<1>1. domains \in Seq(DomainRows)
  BY DEF DomainsInv
<1>2. \A i \in Every : TotalsOf[i] = SumOf(domains[i]["severity"], Severities)
  BY DEF DomainsInv, Sound, TotalsOf, Every
<1>3. \A i \in Every : PreviousTotals[i] = SumOf(domains[i]["previousSeverity"], Severities)
  BY DEF DomainsInv, Sound, PreviousTotals, Every
<1>4. Total("severity") \in Totals /\ Sum(Total("severity")) = SumOf(TotalsOf, Every)
  BY <1>1, <1>2, TotalsExchange
<1>5. /\ Total("previousSeverity") \in Totals
      /\ Sum(Total("previousSeverity")) = SumOf(PreviousTotals, Every)
  BY <1>1, <1>3, TotalsExchange
<1>6. \A i \in Every : domains[i] \in DomainRows
  BY <1>1, DomainsAre
<1>7. Naturals(TotalsOf, Every) /\ Naturals(PreviousTotals, Every)
  BY <1>6 DEF Naturals, TotalsOf, PreviousTotals, DomainRows
<1>8. SumOf(TotalsOf, Every) \in Nat /\ SumOf(PreviousTotals, Every) \in Nat
  BY <1>1, <1>7, DomainsAre, SumIsNatural
<1> QED
  BY <1>4, <1>5, <1>8

Shows(f, field) ==
  \E i \in Every : \E k \in DOMAIN domains[i][field] :
     f.id = domains[i][field][k].id /\ f.domain = domains[i].name

LEMMA SamplesAre ==
  ASSUME domains \in Seq(DomainRows), NEW field \in {"findings", "previous"}
  PROVE  /\ Samples(field) \in Seq({f \in PendingRows : Shows(f, field)})
         /\ Len(Samples(field)) = SumOf([i \in Every |-> Len(domains[i][field])], Every)
<1> DEFINE X == {f \in PendingRows : Shows(f, field)}
           row(i, k) == LET f == domains[i][field][k]
                        IN [id |-> f.id, label |-> f.label, title |-> f.title,
                            domain |-> domains[i].name]
           some(i) == [k \in DOMAIN domains[i][field] |-> row(i, k)]
           all == [i \in Every |-> some(i)]
<1>1. \A i \in Every : domains[i] \in DomainRows
  BY DomainsAre
<1>2. \A i \in Every : domains[i][field] \in Seq(ShownRows) /\ domains[i].name \in Providers
  BY <1>1 DEF DomainRows
<1>3. ASSUME NEW i \in Every
      PROVE  some(i) \in Seq(X) /\ Len(some(i)) = Len(domains[i][field])
  <2> DEFINE s == domains[i][field]
  <2>1. s \in Seq(ShownRows)
    BY <1>2
  <2>2. DOMAIN s = 1..Len(s) /\ Len(s) \in Nat /\ \A k \in DOMAIN s : s[k] \in ShownRows
    BY <2>1
  <2>3. ASSUME NEW k \in DOMAIN s PROVE row(i, k) \in X
    <3>1. row(i, k) \in PendingRows
      BY <1>2, <2>2 DEF PendingRows, ShownRows
    <3>2. row(i, k).id = domains[i][field][k].id /\ row(i, k).domain = domains[i].name
      OBVIOUS
    <3> HIDE DEF row
    <3>3. Shows(row(i, k), field)
      BY <3>2 DEF Shows
    <3> QED
      BY <3>1, <3>3
  <2>4. some(i) = [k \in 1..Len(s) |-> row(i, k)]
    BY <2>2
  <2> HIDE DEF row, X
  <2>5. some(i) \in [1..Len(s) -> X]
    BY <2>2, <2>3, <2>4
  <2> DEFINE m == some(i)
             n == Len(s)
  <2>6. m \in [1..n -> X] /\ n \in Nat
    BY <2>2, <2>5
  <2> HIDE DEF m, n
  <2>7. m \in Seq(X) /\ Len(m) = n
    BY <2>6
  <2> QED
    BY <2>7 DEF m, n
<1> HIDE DEF some, X
<1>4. all \in [1..Len(domains) -> Seq(X)] /\ Len(domains) \in Nat
  BY <1>3, DomainsAre
<1>5. \A i \in Every : all[i] = some(i)
  OBVIOUS
<1>6. DOMAIN all = Every
  OBVIOUS
<1>7. FlattenSeq(all) = Samples(field)
  BY DEF Samples, some, Every
<1> HIDE DEF all
<1>8. all \in Seq(Seq(X))
  BY <1>4
<1>9. FlattenSeq(all) \in Seq(X) /\ Len(FlattenSeq(all)) = SumOf(Lengths(all), Every)
  BY <1>6, <1>8, FlattenAddsUp
<1>10. Lengths(all) = [i \in Every |-> Len(domains[i][field])]
  BY <1>3, <1>5, <1>6 DEF Lengths
<1> QED
  BY <1>7, <1>9, <1>10 DEF X

LEMMA FindingsAreFewer ==
  ASSUME DomainsInv
  PROVE  Len(Samples("findings")) <= Sum(Total("severity"))
<1> DEFINE f == [i \in Every |-> Len(domains[i]["findings"])]
<1>1. domains \in Seq(DomainRows)
  BY DEF DomainsInv
<1>2. \A i \in Every : domains[i] \in DomainRows /\ Sound(domains[i])
  BY <1>1, DomainsAre DEF DomainsInv, Every
<1>3. ASSUME NEW i \in Every
      PROVE  f[i] \in Nat /\ TotalsOf[i] \in Nat /\ f[i] <= TotalsOf[i]
  <2>1. domains[i].findings \in Seq(ShownRows) /\ domains[i].total \in Nat
    BY <1>2 DEF DomainRows
  <2>2. Len(domains[i].findings) \in Nat
    BY <2>1
  <2>3. Len(domains[i].findings) <= domains[i].total
    BY <1>2 DEF Sound
  <2> QED
    BY <2>1, <2>2, <2>3 DEF TotalsOf
<1>4. Len(Samples("findings")) = SumOf(f, Every)
  BY <1>1, SamplesAre
<1> HIDE DEF f
<1>5. Naturals(f, Every) /\ Naturals(TotalsOf, Every)
  BY <1>3 DEF Naturals
<1>6. SumOf(f, Every) <= SumOf(TotalsOf, Every)
  BY <1>1, <1>3, <1>5, DomainsAre, SumAtMost
<1> QED
  BY <1>4, <1>6, TotalsAddUp

LEMMA PendingIsPart ==
  ASSUME domains \in Seq(DomainRows)
  PROVE  Collected.pending_findings \in Seq({f \in PendingRows : Shows(f, "findings")})
<1> DEFINE rows == Samples("findings")
           X == {f \in PendingRows : Shows(f, "findings")}
           key == [i \in DOMAIN rows |-> rows[i].id]
           all == Sorted(rows, key)
<1>1. rows \in Seq(X)
  BY SamplesAre
<1>2. \A x \in X : x.label \in DOMAIN Rank /\ x.id \in Nat
  BY DEF PendingRows, Counted, Rank
<1>3. Collected.pending_findings = First(all, PendingLimit)
  BY DEF Collected
<1> HIDE DEF rows, X
<1>4. key \in [DOMAIN rows -> Nat]
  BY <1>1, <1>2
<1> HIDE DEF key
<1>5. all \in Seq(X)
  BY <1>1, <1>2, <1>4, SortedIsAll
<1> HIDE DEF all
<1>6. First(all, PendingLimit) \in Seq(X)
  BY <1>5, ContentAssumption, FirstIsPart
<1> QED
  BY <1>3, <1>6 DEF X

LEMMA FocusesAreActive ==
  ASSUME domains \in Seq(DomainRows)
  PROVE  Focuses \in Seq({NameOf(i) : i \in WithFindings})
<1> DEFINE critical == [i \in Every |-> domains[i].severity["critical"]]
           high == [i \in Every |-> domains[i].severity["high"]]
           total == [i \in Every |-> domains[i].total]
           before(i, j) ==
             \/ critical[i] > critical[j]
             \/ /\ critical[i] = critical[j]
                /\ \/ high[i] > high[j]
                   \/ /\ high[i] = high[j]
                      /\ total[i] > total[j] \/ (total[i] = total[j] /\ i < j)
           R == {x \in Places(domains) : before(x[1], x[2])}
           ranking == InOrder(Every, R)
           ranked == First(ranking, 3)
           shown == Kept(ranked, WithFindings)
<1>1. /\ Every = 1..Len(domains) /\ IsFiniteSet(Every)
      /\ \A i \in Every : domains[i] \in DomainRows
  BY DomainsAre
<1>2. "critical" \in Severities /\ "high" \in Severities
  BY DEF Severities
<1>3. ASSUME NEW i \in Every
      PROVE  critical[i] \in Nat /\ high[i] \in Nat /\ total[i] \in Nat /\ i \in Nat
  <2>1. domains[i] \in DomainRows
    BY <1>1
  <2>2. domains[i].severity \in [Severities -> Nat] /\ domains[i].total \in Nat
    BY <2>1 DEF DomainRows, Totals
  <2> QED
    BY <1>1, <1>2, <2>2
<1>4. StrictOrder(R, Every)
  <2>1. \A i, j \in Every : <<i, j>> \in R <=> before(i, j)
    BY DEF Places, Every
  <2> HIDE DEF R, critical, high, total
  <2>2. \A i \in Every : ~before(i, i)
    BY <1>3
  <2>3. \A i, j \in Every : i # j => before(i, j) \/ before(j, i)
    BY <1>3
  <2>4. \A i, j, k \in Every : before(i, j) /\ before(j, k) => before(i, k)
    <3> SUFFICES ASSUME NEW i \in Every, NEW j \in Every, NEW k \in Every,
                        before(i, j), before(j, k)
                 PROVE  before(i, k)
      OBVIOUS
    <3>1. /\ critical[i] \in Nat /\ critical[j] \in Nat /\ critical[k] \in Nat
          /\ high[i] \in Nat /\ high[j] \in Nat /\ high[k] \in Nat
          /\ total[i] \in Nat /\ total[j] \in Nat /\ total[k] \in Nat
          /\ i \in Nat /\ j \in Nat /\ k \in Nat
      BY <1>3
    <3>2. CASE critical[i] > critical[j]
      BY <3>1, <3>2
    <3>3. CASE critical[i] = critical[j] /\ high[i] > high[j]
      BY <3>1, <3>3
    <3>4. CASE critical[i] = critical[j] /\ high[i] = high[j]
      BY <3>1, <3>4
    <3> QED
      BY <3>2, <3>3, <3>4
  <2> HIDE DEF before
  <2> QED
    BY <2>1, <2>2, <2>3, <2>4 DEF StrictOrder
<1>5. Focuses = [k \in DOMAIN shown |-> NameOf(shown[k])]
  <2>1. R = {x \in Places(domains) :
               \/ domains[x[1]].severity["critical"] > domains[x[2]].severity["critical"]
               \/ /\ domains[x[1]].severity["critical"] = domains[x[2]].severity["critical"]
                  /\ \/ domains[x[1]].severity["high"] > domains[x[2]].severity["high"]
                     \/ /\ domains[x[1]].severity["high"] = domains[x[2]].severity["high"]
                        /\ \/ domains[x[1]].total > domains[x[2]].total
                           \/ domains[x[1]].total = domains[x[2]].total /\ x[1] < x[2]}
    BY DEF Places, Every
  <2> QED
    BY <2>1 DEF Focuses, Every
<1> HIDE DEF R
<1>6. ranking \in Seq(Every)
  BY <1>1, <1>4, InOrderHasAll
<1> HIDE DEF ranking
<1>7. ranked \in Seq(Every)
  BY <1>6, FirstIsPart
<1> HIDE DEF ranked
<1>8. shown \in Seq(Every \cap WithFindings)
  BY <1>7, KeptIsPart
<1> HIDE DEF shown
<1>9. [k \in DOMAIN shown |-> NameOf(shown[k])] \in Seq({NameOf(i) : i \in WithFindings})
  <2>1. DOMAIN shown = 1..Len(shown) /\ Len(shown) \in Nat /\ \A k \in 1..Len(shown) : shown[k] \in WithFindings
    BY <1>8
  <2> DEFINE s == [k \in 1..Len(shown) |-> NameOf(shown[k])]
             X == {NameOf(i) : i \in WithFindings}
  <2>2. s \in [1..Len(shown) -> X]
    BY <2>1
  <2> HIDE DEF s, X
  <2>3. s \in Seq(X)
    BY <2>1, <2>2
  <2> QED
    BY <2>1, <2>3 DEF s, X
<1> QED
  BY <1>5, <1>9

LEMMA CountsAreNumbers ==
  ASSUME domains \in Seq(DomainRows)
  PROVE  /\ Cardinality(WithFindings) \in Nat /\ Cardinality(Scanned) \in Nat
         /\ Cardinality({i \in Scanned : domains[i].layer = "SOC"}) \in Nat
         /\ Cardinality({i \in Scanned : domains[i].layer = "NOC"}) \in Nat
<1>1. IsFiniteSet(Every)
  BY DomainsAre
<1>2. \A S \in SUBSET Every : Cardinality(S) \in Nat
  BY <1>1, FS_Subset, FS_CardinalityType
<1>3. /\ WithFindings \in SUBSET Every /\ Scanned \in SUBSET Every
      /\ {i \in Scanned : domains[i].layer = "SOC"} \in SUBSET Every
      /\ {i \in Scanned : domains[i].layer = "NOC"} \in SUBSET Every
  BY DEF WithFindings, Scanned, Every
<1> QED
  BY <1>2, <1>3

NewestAt == Max({0} \cup {domains[i].at : i \in DOMAIN domains})

LEMMA NewestAtIsNumber == ASSUME domains \in Seq(DomainRows) PROVE NewestAt \in Nat
<1> DEFINE at == [i \in Every |-> domains[i].at]
           S == {at[i] : i \in Every}
<1>1. IsFiniteSet(Every) /\ \A i \in Every : domains[i] \in DomainRows
  BY DomainsAre
<1>2. \A i \in Every : at[i] \in Nat
  BY <1>1 DEF DomainRows
<1>3. {domains[i].at : i \in DOMAIN domains} = S
  BY DEF Every
<1>4. S \in SUBSET Nat
  BY <1>2
<1> HIDE DEF at
<1>5. IsFiniteSet(S)
  BY <1>1, ImageIsFinite
<1> HIDE DEF S
<1>6. IsFiniteSet(S \cup {0}) /\ S \cup {0} \in SUBSET Nat /\ S \cup {0} # {}
  BY <1>4, <1>5, FS_AddElement, SMTT(30)
<1>7. Max(S \cup {0}) \in Nat
  BY <1>6, MaxIsThere
<1>8. {0} \cup S = S \cup {0}
  OBVIOUS
<1> QED
  BY <1>3, <1>7, <1>8 DEF NewestAt

LEMMA NamesAreProviders ==
  ASSUME domains \in Seq(DomainRows)
  PROVE  /\ \A S \in SUBSET Every : {NameOf(i) : i \in S} \in SUBSET Providers
         /\ WithFindings \in SUBSET Every /\ Every \ WithFindings \in SUBSET Every
         /\ [i \in Every |-> domains[i].name] \in Seq(Providers)
<1>1. /\ \A i \in Every : domains[i] \in DomainRows
      /\ Every = 1..Len(domains) /\ Len(domains) \in Nat
  BY DomainsAre
<1>2. \A i \in Every : domains[i].name \in Providers
  BY <1>1 DEF DomainRows
<1>3. [i \in Every |-> domains[i].name] \in [1..Len(domains) -> Providers]
  BY <1>1, <1>2
<1> QED
  BY <1>1, <1>2, <1>3 DEF NameOf, WithFindings, Every

CoverageRows == [name : Providers, layer : Layers, total : Nat, at : Nat,
                 status : {"evidence", "no findings", "no snapshot"}]

LEMMA CoverageIsTyped ==
  ASSUME domains \in Seq(DomainRows)
  PROVE  Coverage \in Seq(CoverageRows)
<1>1. /\ \A i \in Every : domains[i] \in DomainRows
      /\ Every = 1..Len(domains) /\ Len(domains) \in Nat
  BY DomainsAre
<1>2. ASSUME NEW i \in Every PROVE Coverage[i] \in CoverageRows
  <2>1. /\ domains[i].name \in Providers /\ domains[i].layer \in Layers
        /\ domains[i].total \in Nat /\ domains[i].at \in Nat
    BY <1>1 DEF DomainRows
  <2>2. CoverageStatus(domains[i]) \in {"evidence", "no findings", "no snapshot"}
    BY DEF CoverageStatus
  <2> QED
    BY <2>1, <2>2 DEF Coverage, CoverageRows, Every
<1>3. Coverage = [i \in 1..Len(domains) |-> Coverage[i]]
  BY <1>1 DEF Coverage, Every
<1> DEFINE c == Coverage
<1> HIDE DEF c
<1>4. c \in [1..Len(domains) -> CoverageRows]
  BY <1>1, <1>2, <1>3 DEF c
<1>5. c \in Seq(CoverageRows)
  BY <1>1, <1>4
<1> QED
  BY <1>5 DEF c

\* Each figure is a value of its own kind.
LEMMA FiguresAreTyped ==
  ASSUME DomainsInv, seen \in Seq(TicketTexts)
  PROVE  /\ \A f \in DOMAIN FigureValues : Collected[f] \in FigureValues[f]
         /\ Collected.operational_considerations \in SUBSET RemarkTexts
         /\ Collected.limitations \in SUBSET RemarkTexts
<1>1. domains \in Seq(DomainRows)
  BY DEF DomainsInv
<1>2. Collected.tools \in Seq(Providers)
  BY <1>1, NamesAreProviders DEF Collected, Every
<1>3. Collected.period \in Nat
  BY <1>1, NewestAtIsNumber DEF Collected, NewestAt
<1>4. Len(Samples("findings")) \in Nat /\ Len(Samples("previous")) \in Nat /\ Len(seen) \in Nat
  <2>1. /\ Samples("findings") \in Seq({f \in PendingRows : Shows(f, "findings")})
        /\ Samples("previous") \in Seq({f \in PendingRows : Shows(f, "previous")})
    BY <1>1, SamplesAre
  <2> QED
    BY <2>1
<1>5. Collected.data_base \in [findings : Nat, before : Nat, tickets : Nat, active : Nat,
                               soc : Nat, noc : Nat]
  BY <1>1, <1>4, CountsAreNumbers DEF Collected
<1>6. Collected.coverage_rows \in Seq(CoverageRows)
  BY <1>1, CoverageIsTyped DEF Collected
<1>7. Collected.comparison \in [previous : Totals, current : Totals]
  BY TotalsAddUp DEF Collected
<1>8. {NameOf(i) : i \in WithFindings} \in SUBSET Providers /\ {NameOf(i) : i \in Every \ WithFindings} \in SUBSET Providers
  BY <1>1, NamesAreProviders
<1>9. Collected.histogram \in [previous : Nat, current : Nat, active : SUBSET Providers]
  BY <1>8, TotalsAddUp DEF Collected
<1>10. Collected.priority_focuses \in Seq(Providers)
  <2>1. Focuses \in Seq({NameOf(i) : i \in WithFindings})
    BY <1>1, FocusesAreActive
  <2> DEFINE X == {NameOf(i) : i \in WithFindings}
  <2> HIDE DEF X
  <2>2. X \subseteq Providers /\ Focuses \in Seq(X)
    BY <1>8, <2>1 DEF X
  <2>3. Focuses \in Seq(Providers)
    BY <2>2, SeqMonotonic
  <2> QED
    BY <2>3 DEF Collected
<1>11. Collected.security_domains \in Seq(DomainRows)
  BY <1>1 DEF Collected
<1>12. Collected.pending_findings \in Seq(PendingRows)
  <2> DEFINE X == {f \in PendingRows : Shows(f, "findings")}
             s == Collected.pending_findings
  <2>1. s \in Seq(X) /\ X \subseteq PendingRows
    BY <1>1, PendingIsPart
  <2> HIDE DEF X, s
  <2>2. s \in Seq(PendingRows)
    BY <2>1, SeqMonotonic
  <2> QED
    BY <2>2 DEF s
<1>13. Collected.results_obtained \in [findings : Nat, scans : Nat, active : SUBSET Providers,
                                       silent : SUBSET Providers]
  BY <1>1, <1>4, <1>8, CountsAreNumbers DEF Collected, Every
<1>14. Remarks \in SUBSET RemarkTexts
  BY DEF Remarks, RemarkTexts
<1>15. Collected.operational_considerations \in SUBSET RemarkTexts
  BY <1>14 DEF Collected, RemarkTexts
<1>16. Collected.limitations \in SUBSET RemarkTexts
  BY <1>14 DEF Collected, RemarkTexts
<1> HIDE DEF Collected
<1>17. \A f \in DOMAIN FigureValues : Collected[f] \in FigureValues[f]
  <2>1. DOMAIN FigureValues =
          {"tools", "period", "data_base", "coverage_rows", "comparison", "histogram",
           "priority_focuses", "security_domains", "pending_findings", "results_obtained"}
    BY DEF FigureValues
  <2>2. /\ FigureValues.tools = Seq(Providers) /\ FigureValues.period = Nat
        /\ FigureValues.data_base = [findings : Nat, before : Nat, tickets : Nat,
                                     active : Nat, soc : Nat, noc : Nat]
        /\ FigureValues.coverage_rows = Seq(CoverageRows)
        /\ FigureValues.comparison = [previous : Totals, current : Totals]
    BY DEF FigureValues, CoverageRows
  <2>3. /\ FigureValues.histogram = [previous : Nat, current : Nat,
                                     active : SUBSET Providers]
        /\ FigureValues.priority_focuses = Seq(Providers)
        /\ FigureValues.security_domains = Seq(DomainRows)
        /\ FigureValues.pending_findings = Seq(PendingRows)
        /\ FigureValues.results_obtained =
             [findings : Nat, scans : Nat, active : SUBSET Providers,
              silent : SUBSET Providers]
    BY DEF FigureValues
  <2>4. /\ Collected.tools \in FigureValues.tools
        /\ Collected.period \in FigureValues.period
        /\ Collected.data_base \in FigureValues.data_base
        /\ Collected.coverage_rows \in FigureValues.coverage_rows
        /\ Collected.comparison \in FigureValues.comparison
    BY <1>2, <1>3, <1>5, <1>6, <1>7, <2>2
  <2>5. /\ Collected.histogram \in FigureValues.histogram
        /\ Collected.priority_focuses \in FigureValues.priority_focuses
        /\ Collected.security_domains \in FigureValues.security_domains
        /\ Collected.pending_findings \in FigureValues.pending_findings
        /\ Collected.results_obtained \in FigureValues.results_obtained
    BY <1>9, <1>10, <1>11, <1>12, <1>13, <2>3
  <2> QED
    BY <2>1, <2>4, <2>5
<1> QED
  BY <1>15, <1>16, <1>17

-----------------------------------------------------------------------------
(* The payload.                                                            *)

Fields == Figures \cup Texts

LEMMA DraftsAre ==
  ASSUME asked \in ReportRequests, evidence = Collected, NEW draft \in Drafts
  PROVE  /\ DOMAIN draft = Fields
         /\ draft.security_news \in {<<>>, <<Invented>>, <<"news">>}
<1>1. \/ draft \in Answers
      \/ draft = FromBackend(evidence)
  BY DEF Drafts
<1>2. CASE draft \in Answers
  <2>1. PICK list \in {<<>>, <<Invented>>}, words \in {Invented, Tainted} :
          draft = FromModel(list, words)
    BY <1>2 DEF Answers
  <2>2. "security_news" \in Fields
    BY DEF Fields, Texts
  <2> QED
    BY <2>1, <2>2 DEF FromModel, Fields
<1>3. CASE draft = FromBackend(evidence)
  <2>1. "security_news" \in Fields /\ "security_news" \in DOMAIN Collected
    BY DEF Fields, Texts, Collected
  <2>2. draft.security_news = Collected.security_news
    BY <1>3, <2>1 DEF FromBackend, Fields
  <2>3. Collected.security_news = asked.news
    BY DEF Collected
  <2>4. asked.news \in {<<>>, <<"news">>}
    BY DEF ReportRequests
  <2> QED
    BY <1>3, <2>2, <2>3, <2>4 DEF FromBackend, Fields
<1> QED
  BY <1>1, <1>2, <1>3

LEMMA FinalKeeps ==
  ASSUME NEW draft, DOMAIN draft = Fields, NEW e
  PROVE  /\ DOMAIN Final(draft, e) = Fields
         /\ \A f \in Figures : Final(draft, e)[f] = e[f]
         /\ Long => Final(draft, e)["results_obtained"] = e["results_obtained"]
         /\ Long => Final(draft, e)["weekly_actions"]
                      = Or(e["weekly_actions"], draft["weekly_actions"])
         /\ Long => Final(draft, e)["security_news"]
                      = Or(e["security_news"], draft["security_news"])
<1> DEFINE p == Final(draft, e)
<1>1. DOMAIN p = Fields
  BY DEF Final
<1>2. /\ {"results_obtained", "weekly_actions", "security_news"} \subseteq Fields
      /\ {"results_obtained", "weekly_actions", "security_news"} \cap Figures = {}
  BY DEF Fields, Figures, Texts
<1>3. Figures \subseteq Fields
  BY DEF Fields
<1>4. ASSUME NEW f \in Figures PROVE p[f] = e[f]
  BY <1>2, <1>3, <1>4 DEF Final
<1>5. Long => p["results_obtained"] = e["results_obtained"]
  BY <1>2 DEF Final
<1>6. Long => p["weekly_actions"] = Or(e["weekly_actions"], draft["weekly_actions"])
  BY <1>2 DEF Final
<1>7. Long => p["security_news"] = Or(e["security_news"], draft["security_news"])
  BY <1>2 DEF Final
<1> QED
  BY <1>1, <1>4, <1>5, <1>6, <1>7

\* A document that was published has the figures that were collected.
Told(p, draft) ==
  /\ DomainsInv /\ asked \in ReportRequests /\ seen \in Seq(TicketTexts)
  /\ evidence = Collected
  /\ draft \in Drafts /\ p = Final(draft, Collected)
  /\ content = Generated(draft) /\ document = Written(p, Long)

LEMMA PlainIsShown == \A n \in Nat : Plain(Shown(n)) = n
  BY ContentAssumption DEF Plain, Shown

LEMMA CoverageIsSum ==
  Added(document.coverage, LAMBDA i : Plain(document.coverage[i]))
    = SumOf([i \in DOMAIN document.coverage |-> Plain(document.coverage[i])],
            DOMAIN document.coverage)
<1> DEFINE c == document.coverage
           S == DOMAIN c
<1> HIDE DEF c, S
<1>1. MapThenSumSet(LAMBDA i : Plain(c[i]), S) = SumOf([i \in S |-> Plain(c[i])], S)
  BY ZenonT(60) DEF SumOf, MapThenSumSet, MapThenFoldSet
<1> QED
  BY <1>1 DEF Added, c, S

LEMMA BlocksAreSum ==
  Added(document.blocks, LAMBDA i : Plain(document.blocks[i].total))
    = SumOf([i \in DOMAIN document.blocks |-> Plain(document.blocks[i].total)],
            DOMAIN document.blocks)
<1> DEFINE c == document.blocks
           S == DOMAIN c
<1> HIDE DEF c, S
<1>1. MapThenSumSet(LAMBDA i : Plain(c[i].total), S)
        = SumOf([i \in S |-> Plain(c[i].total)], S)
  BY ZenonT(60) DEF SumOf, MapThenSumSet, MapThenFoldSet
<1> QED
  BY <1>1 DEF Added, c, S

LEMMA BarsReachTop ==
  ASSUME NEW previous \in Totals, NEW current \in Totals, NEW s \in Severities
  PROVE  /\ previous[s] <= Histogram(previous, current).top
         /\ current[s] <= Histogram(previous, current).top
<1> DEFINE A == {previous[t] : t \in Severities}
           B == {current[t] : t \in Severities}
           S == ({1} \cup A) \cup B
<1>1. A \in SUBSET Nat /\ B \in SUBSET Nat /\ previous[s] \in A /\ current[s] \in B
  BY DEF Totals
<1>2. IsFiniteSet(A) /\ IsFiniteSet(B)
  BY SeveritiesAre, ImageIsFinite
<1>3. Histogram(previous, current).top = Max(S)
  BY DEF Histogram
<1> HIDE DEF A, B
<1>4. IsFiniteSet(A \cup {1})
  BY <1>2, FS_AddElement
<1>5. IsFiniteSet((A \cup {1}) \cup B) /\ (A \cup {1}) \cup B = S
  BY <1>2, <1>4, FS_Union
<1>6. S \in SUBSET Nat /\ S # {} /\ previous[s] \in S /\ current[s] \in S
  BY <1>1
<1> HIDE DEF S
<1>7. \A x \in S : x <= Max(S)
  BY <1>5, <1>6, MaxIsThere
<1> QED
  BY <1>3, <1>6, <1>7

LEMMA DocumentIs ==
  ASSUME NEW p, NEW draft, Told(p, draft)
  PROVE  /\ document.says = p
         /\ \A f \in Figures : p[f] = Collected[f]
         /\ Long => p.results_obtained = Collected.results_obtained
         /\ document.coverage = [i \in Every |-> Shown(domains[i].total)]
         /\ document.blocks = [i \in Every |-> Block(domains[i])]
         /\ document.cover = NewestAt
         /\ document.charts = Charts
         /\ content.severity = Total("severity")
<1>1. DOMAIN draft = Fields
  BY DraftsAre DEF Told
<1>2. p = Final(draft, Collected)
  BY DEF Told
<1>3. /\ \A f \in Figures : p[f] = Collected[f]
      /\ Long => p.results_obtained = Collected.results_obtained
  BY <1>1, <1>2, FinalKeeps
<1>4. {"security_domains", "coverage_rows", "period"} \subseteq Figures
  BY DEF Figures
<1>5. p.security_domains = domains /\ p.coverage_rows = Coverage /\ p.period = NewestAt
  <2>1. /\ p["security_domains"] = Collected["security_domains"]
        /\ p["coverage_rows"] = Collected["coverage_rows"]
        /\ p["period"] = Collected["period"]
    BY <1>3, <1>4
  <2> QED
    BY <2>1 DEF Collected, NewestAt
<1>6. document = Written(p, Long)
  BY DEF Told
<1>7. document.says = p /\ document.charts = Charts /\ document.cover = NewestAt
  BY <1>5, <1>6 DEF Written, Cover
<1>8. document.coverage = [i \in Every |-> Shown(domains[i].total)]
  <2>1. document.coverage = CoverageTable(Coverage)
    BY <1>5, <1>6 DEF Written
  <2>2. DOMAIN Coverage = Every /\ \A i \in Every : Coverage[i].total = domains[i].total
    BY DEF Coverage, Every
  <2> QED
    BY <2>1, <2>2 DEF CoverageTable
<1>9. document.blocks = [i \in Every |-> Block(domains[i])]
  BY <1>5, <1>6 DEF Written, Every
<1>10. content.severity = Total("severity")
  BY DEF Told, Generated, Collected
<1> QED
  BY <1>3, <1>7, <1>8, <1>9, <1>10

LEMMA TotalsDoAgree ==
  ASSUME NEW p, NEW draft, Told(p, draft)
  PROVE  TotalsAgree
<1> DEFINE current == Total("severity")
           previous == Total("previousSeverity")
           total == document.says.histogram.current
<1>0. DomainsInv /\ evidence = Collected
  BY DEF Told
<1>1. /\ current \in Totals /\ previous \in Totals
      /\ Sum(current) = SumOf(TotalsOf, Every)
      /\ Sum(current) \in Nat /\ Sum(previous) \in Nat
  BY <1>0, TotalsAddUp
<1>2. {"histogram", "comparison", "data_base"} \subseteq Figures
  BY DEF Figures
<1>3. /\ document.says.histogram.current = Sum(current)
      /\ document.says.histogram.previous = Sum(previous)
      /\ document.says.comparison.current = current
      /\ document.says.data_base.findings = Len(Samples("findings"))
  <2>1. /\ document.says["histogram"] = Collected["histogram"]
        /\ document.says["comparison"] = Collected["comparison"]
        /\ document.says["data_base"] = Collected["data_base"]
    BY <1>2, DocumentIs
  <2> QED
    BY <2>1 DEF Collected
<1>4. \A i \in Every : domains[i].total \in Nat
  BY <1>0, DomainsAre DEF DomainsInv, DomainRows
<1>5. total = Added(document.coverage, LAMBDA i : Plain(document.coverage[i]))
  <2>1. DOMAIN document.coverage = Every /\ \A i \in Every : Plain(document.coverage[i]) = domains[i].total
    BY <1>4, DocumentIs, PlainIsShown
  <2>2. [i \in DOMAIN document.coverage |-> Plain(document.coverage[i])] = TotalsOf
    BY <2>1 DEF TotalsOf
  <2> QED
    BY <1>1, <1>3, <2>1, <2>2, CoverageIsSum
<1>6. total = Added(document.blocks, LAMBDA i : Plain(document.blocks[i].total))
  <2>1. /\ DOMAIN document.blocks = Every
        /\ \A i \in Every : document.blocks[i].total = Shown(domains[i].total)
    <3>1. document.blocks = [i \in Every |-> Block(domains[i])]
      BY DocumentIs
    <3>2. \A d : Block(d).total = Shown(d.total)
      BY DEF Block
    <3> QED
      BY <3>1, <3>2
  <2>2. \A i \in Every : Plain(document.blocks[i].total) = domains[i].total
    BY <1>4, <2>1, PlainIsShown
  <2>3. [i \in DOMAIN document.blocks |-> Plain(document.blocks[i].total)] = TotalsOf
    BY <2>1, <2>2 DEF TotalsOf
  <2> QED
    BY <1>1, <1>3, <2>1, <2>3, BlocksAreSum
<1>7. /\ document.charts.now = Pie(current) /\ document.charts.before = Pie(previous)
      /\ document.charts.bars = Histogram(previous, current)
  <2>1. document.charts = Charts
    BY DocumentIs
  <2>2. evidence.comparison = [previous |-> previous, current |-> current]
    BY <1>0 DEF Collected
  <2> HIDE DEF current, previous
  <2>3. evidence.comparison.previous = previous /\ evidence.comparison.current = current
    BY <2>2
  <2> QED
    BY <2>1, <2>3 DEF Charts
<1>8. /\ document.charts.now.values = current /\ document.charts.before.values = previous
      /\ document.charts.now.empty = (Sum(current) = 0)
      /\ document.charts.bars.current = current
      /\ document.charts.bars.previous = previous
      /\ document.charts.bars.top = Histogram(previous, current).top
  BY <1>7 DEF Pie, Histogram
<1>9. \A s \in Severities : /\ previous[s] <= document.charts.bars.top
                            /\ current[s] <= document.charts.bars.top
  <2> HIDE DEF current, previous
  <2> QED
    BY <1>1, <1>8, BarsReachTop
<1>10. Len(Samples("findings")) <= Sum(current)
  BY <1>0, FindingsAreFewer
<1>11. content.severity = current
  BY DocumentIs
<1> HIDE DEF current, previous
<1> QED
  BY <1>3, <1>5, <1>6, <1>8, <1>9, <1>10, <1>11 DEF TotalsAgree

LEMMA TwoOfTheSum ==
  ASSUME NEW counts \in Totals, NEW a \in Severities, NEW b \in Severities, a # b
  PROVE  counts[a] + counts[b] <= SumOf(counts, Severities)
<1>1. Naturals(counts, Severities) /\ IsFiniteSet(Severities)
  BY SeveritiesAre DEF Totals, Naturals
<1>2. {a} \cup {b} \in SUBSET Severities /\ b \notin {a} /\ {} \cup {a} = {a}
  OBVIOUS
<1>3. Naturals(counts, {} \cup {a}) /\ Naturals(counts, {a} \cup {b})
  BY <1>1 DEF Naturals
<1>4. SumOf(counts, {} \cup {a}) = SumOf(counts, {}) + counts[a]
  BY <1>3, FS_EmptySet, SumWith
<1>5. SumOf(counts, {a} \cup {b}) = SumOf(counts, {a}) + counts[b]
  BY <1>2, <1>3, FS_Singleton, SumWith
<1>6. counts[a] \in Nat /\ counts[b] \in Nat
  BY DEF Totals
<1>a. SumOf(counts, {a}) = counts[a]
  <2>1. SumOf(counts, {} \cup {a}) = counts[a]
    BY <1>4, <1>6, SumOfNone
  <2> QED
    BY <1>2, <2>1
<1>7. SumOf(counts, {a} \cup {b}) = counts[a] + counts[b]
  BY <1>5, <1>a
<1>8. SumOf(counts, {a} \cup {b}) <= SumOf(counts, Severities)
  BY <1>1, <1>2, SumOfPart
<1> QED
  BY <1>7, <1>8

LEMMA TableHasAll ==
  ASSUME NEW findings \in Seq(ShownRows)
  PROVE  /\ Len(Table(findings)) = Len(findings)
         /\ {r.id : r \in ToSet(Table(findings))} = {findings[k].id : k \in DOMAIN findings}
<1> DEFINE n == Len(findings)
           t == Table(findings)
           X == {t[k] : k \in 1..n}
<1>1. n \in Nat /\ DOMAIN findings = 1..n
  OBVIOUS
<1>2. DOMAIN t = 1..n /\ \A k \in 1..n : t[k].id = findings[k].id
  BY <1>1 DEF Table
<1>3. t = [k \in 1..n |-> t[k]]
  BY <1>1 DEF Table
<1> HIDE DEF t, n
<1>4. t \in [1..n -> X]
  BY <1>3
<1> HIDE DEF X
<1>5. Len(t) = n
  BY <1>1, <1>4
<1>6. {r.id : r \in ToSet(t)} = {findings[k].id : k \in 1..n}
  BY <1>2 DEF ToSet
<1> QED
  BY <1>1, <1>5, <1>6 DEF t, n

LEMMA BlockIsSound ==
  ASSUME NEW d \in DomainRows, Sound(d)
  PROVE  /\ Len(Block(d).rows) <= Plain(Block(d).total)
         /\ Block(d).worst <= Plain(Block(d).total)
         /\ Block(d).name = d.name /\ Block(d).at = d.at
         /\ {r.id : r \in ToSet(Block(d).rows)} = {d.findings[k].id : k \in DOMAIN d.findings}
<1>1. /\ d.severity \in Totals /\ d.total \in Nat /\ d.findings \in Seq(ShownRows)
      /\ d.layer \in Layers
  BY DEF DomainRows
<1>2. /\ Block(d).rows = Table(d.findings) /\ Block(d).total = Shown(d.total)
      /\ Block(d).worst = IF d.layer = "SOC" THEN d.severity.critical + d.severity.high
                          ELSE d.severity.high + d.severity.medium
      /\ Block(d).name = d.name /\ Block(d).at = d.at
  BY DEF Block
<1>3. Plain(Block(d).total) = d.total
  BY <1>1, <1>2, PlainIsShown
<1>4. Len(Block(d).rows) <= d.total
  BY <1>1, <1>2, TableHasAll DEF Sound
<1>5. {"critical", "high", "medium"} \subseteq Severities
  BY DEF Severities
<1>6. /\ d.severity["critical"] + d.severity["high"] <= d.total
      /\ d.severity["high"] + d.severity["medium"] <= d.total
  BY <1>1, <1>5, TwoOfTheSum DEF Sound
<1>7. Block(d).worst <= d.total
  BY <1>2, <1>6
<1>8. {r.id : r \in ToSet(Block(d).rows)} = {d.findings[k].id : k \in DOMAIN d.findings}
  BY <1>1, <1>2, TableHasAll
<1> QED
  BY <1>2, <1>3, <1>4, <1>7, <1>8

LEMMA ListsDoAgree ==
  ASSUME NEW p, NEW draft, Told(p, draft)
  PROVE  ListsAgree
<1> DEFINE says == document.says
           blocks == {document.blocks[i] : i \in DOMAIN document.blocks}
<1>0. /\ domains \in Seq(DomainRows)
      /\ \A i \in Every : domains[i] \in DomainRows /\ Sound(domains[i])
  BY DomainsAre DEF Told, DomainsInv, Every
<1>1. document.blocks = [i \in Every |-> Block(domains[i])]
  BY DocumentIs
<1>2. DOMAIN document.blocks = Every /\ \A i \in Every : document.blocks[i] = Block(domains[i])
  BY <1>1
<1>3. blocks = {Block(domains[i]) : i \in Every}
  BY <1>2
<1>4. {"tools", "pending_findings", "priority_focuses", "security_domains"} \subseteq Figures
  BY DEF Figures
<1>5. /\ says["tools"] = Collected["tools"]
      /\ says["pending_findings"] = Collected["pending_findings"]
      /\ says["priority_focuses"] = Collected["priority_focuses"]
      /\ says["security_domains"] = Collected["security_domains"]
  BY <1>4, DocumentIs
<1>6. /\ says.tools = [i \in Every |-> domains[i].name]
      /\ says.priority_focuses = Focuses
      /\ says.security_domains = domains
  BY <1>5 DEF Collected, Every
<1>7. says.pending_findings = Collected.pending_findings
  BY <1>5
<1>8. says.tools = [i \in DOMAIN document.blocks |-> document.blocks[i].name]
  <2>1. \A i \in Every : document.blocks[i].name = domains[i].name
    BY <1>0, <1>2, BlockIsSound
  <2> QED
    BY <1>2, <1>6, <2>1
<1>9. document.cover = Max({0} \cup {b.at : b \in blocks})
  <2>1. {b.at : b \in blocks} = {domains[i].at : i \in DOMAIN domains}
    <3>1. \A i \in Every : Block(domains[i]).at = domains[i].at
      BY <1>0, BlockIsSound
    <3> QED
      BY <1>3, <3>1 DEF Every
  <2>2. document.cover = NewestAt
    BY DocumentIs
  <2> QED
    BY <2>1, <2>2 DEF NewestAt
<1>10. \A b \in blocks : /\ Len(b.rows) <= Plain(b.total)
                         /\ b.worst <= Plain(b.total)
  BY <1>0, <1>3, BlockIsSound
<1>11. ASSUME NEW f \in ToSet(says.pending_findings)
       PROVE  \E b \in blocks : b.name = f.domain /\ f.id \in {r.id : r \in ToSet(b.rows)}
  <2> DEFINE X == {x \in PendingRows : Shows(x, "findings")}
             s == Collected.pending_findings
  <2>1. s \in Seq(X)
    BY <1>0, PendingIsPart
  <2>2. f \in ToSet(s)
    BY <1>7
  <2> HIDE DEF X, s
  <2>3. f \in X
    BY <2>1, <2>2 DEF ToSet
  <2>4. Shows(f, "findings")
    BY <2>3 DEF X
  <2>5. PICK i \in Every : \E k \in DOMAIN domains[i]["findings"] :
          f.id = domains[i]["findings"][k].id /\ f.domain = domains[i].name
    BY <2>4 DEF Shows
  <2>6. /\ Block(domains[i]).name = f.domain
        /\ f.id \in {r.id : r \in ToSet(Block(domains[i]).rows)}
    BY <1>0, <2>5, BlockIsSound
  <2> QED
    BY <1>3, <2>6
<1>12. ASSUME NEW f \in ToSet(says.priority_focuses)
       PROVE  \E b \in blocks : b.name = f /\ b.total # Nothing
  <2> DEFINE X == {NameOf(i) : i \in WithFindings}
  <2>1. Focuses \in Seq(X)
    BY <1>0, FocusesAreActive
  <2> HIDE DEF X
  <2>2. f \in X
    BY <1>6, <2>1 DEF ToSet
  <2>3. PICK i \in WithFindings : f = NameOf(i)
    BY <2>2 DEF X
  <2>4. i \in Every /\ domains[i].total > 0 /\ domains[i].total \in Nat
    BY <1>0, <2>3 DEF WithFindings, Every, DomainRows
  <2>5. Block(domains[i]).name = f
    BY <1>0, <2>3, <2>4, BlockIsSound DEF NameOf
  <2>6. Block(domains[i]).total = Shown(domains[i].total)
    BY DEF Block
  <2>7. Shown(domains[i].total) # Nothing
    BY <2>4, ContentAssumption DEF Shown
  <2> QED
    BY <1>3, <2>4, <2>5, <2>6, <2>7
<1>13. \A d \in ToSet(says.security_domains) : d.previousAt < d.at \/ d.at = 0
  BY <1>0, <1>6 DEF ToSet, Sound, Every
<1> QED
  BY <1>8, <1>9, <1>10, <1>11, <1>12, <1>13 DEF ListsAgree

LEMMA FiguresAreNotInvented ==
  ASSUME DomainsInv, seen \in Seq(TicketTexts)
  PROVE  \A f \in Figures \cup {"results_obtained"} : Collected[f] # Invented
<1> DEFINE sets == {"operational_considerations", "limitations"}
<1>1. DOMAIN FigureValues =
        {"tools", "period", "data_base", "coverage_rows", "comparison", "histogram",
         "priority_focuses", "security_domains", "pending_findings", "results_obtained"}
  BY DEF FigureValues
<1>2. Figures \cup {"results_obtained"} \subseteq DOMAIN FigureValues \cup sets
  BY <1>1 DEF Figures
<1>3. /\ \A f \in DOMAIN FigureValues : Collected[f] \in FigureValues[f]
      /\ Collected["operational_considerations"] \in SUBSET RemarkTexts
      /\ Collected["limitations"] \in SUBSET RemarkTexts
  BY FiguresAreTyped
<1> HIDE DEF Collected, FigureValues
<1>4. \A f \in DOMAIN FigureValues : Invented \notin FigureValues[f]
  BY ContentAssumption
<1>5. \A f \in DOMAIN FigureValues : Collected[f] # Invented
  BY <1>3, <1>4
<1>6. \A remarks \in SUBSET RemarkTexts : Invented # remarks
  BY ContentAssumption
<1>7. \A f \in sets : Collected[f] # Invented
  BY <1>3, <1>6
<1> QED
  BY <1>2, <1>5, <1>7

LEMMA NothingIsInvented ==
  ASSUME NEW p, NEW draft, Told(p, draft)
  PROVE  NothingInvented
<1> DEFINE says == document.says
           free == {"service_name", "executive_summary"} \cup
                   IF ~Long THEN {}
                   ELSE {"results_and_next_actions", "next_actions", "requirements",
                         "reinforced_security"}
           shown == Figures \cup {"service_name", "executive_summary"} \cup
                    IF Long THEN {"results_obtained"} ELSE {}
<1>0. /\ DomainsInv /\ seen \in Seq(TicketTexts) /\ asked \in ReportRequests
      /\ p = Final(draft, Collected) /\ says = p
  BY DocumentIs DEF Told
<1>1. DOMAIN draft = Fields
  BY DraftsAre DEF Told
<1>2. \A f \in shown \ free : says[f] # Invented
  <2>1. \A f \in Figures : says[f] = Collected[f]
    BY DocumentIs
  <2>2. Long => says["results_obtained"] = Collected["results_obtained"]
    BY DocumentIs
  <2>3. shown \ free \subseteq Figures \cup IF Long THEN {"results_obtained"} ELSE {}
    OBVIOUS
  <2>4. \A f \in Figures \cup {"results_obtained"} : Collected[f] # Invented
    BY <1>0, FiguresAreNotInvented
  <2> HIDE DEF says, free, shown
  <2> QED
    BY <2>1, <2>2, <2>3, <2>4
<1>a. /\ Long => says["weekly_actions"] = Or(Collected["weekly_actions"], draft["weekly_actions"])
      /\ Long => says["security_news"] = Or(Collected["security_news"], draft["security_news"])
  <2> DEFINE e == Collected
  <2> HIDE DEF e
  <2>1. /\ Long => Final(draft, e)["weekly_actions"] = Or(e["weekly_actions"], draft["weekly_actions"])
        /\ Long => Final(draft, e)["security_news"] = Or(e["security_news"], draft["security_news"])
    BY <1>1, FinalKeeps
  <2>2. says = Final(draft, e)
    BY <1>0 DEF e
  <2> HIDE DEF says
  <2> QED
    BY <2>1, <2>2 DEF e
<1>3. ASSUME Long, says.weekly_actions = <<Invented>>
      PROVE  asked.modules = <<>> /\ seen = <<>>
  <2>1. says.weekly_actions = Or(Collected["weekly_actions"], draft["weekly_actions"])
    BY <1>a, <1>3
  <2>2. Collected.weekly_actions = IF asked.modules # <<>> THEN asked.modules ELSE First(seen, 10)
    BY DEF Collected
  <2>3. asked.modules \in {<<>>, <<"module">>}
    BY <1>0 DEF ReportRequests
  <2>4. "module" # Invented /\ Invented \notin TicketTexts
    BY ContentAssumption
  <2>5. asked.modules = <<>>
    <3>1. CASE asked.modules # <<>>
      <4>1. Collected.weekly_actions = <<"module">>
        BY <2>2, <2>3, <3>1
      <4>2. <<"module">> # <<>> /\ <<"module">> # <<Invented>>
        BY <2>4
      <4> QED
        BY <1>3, <2>1, <4>1, <4>2 DEF Or
    <3> QED
      BY <3>1
  <2>6. First(seen, 10) \in Seq(TicketTexts) /\ Len(First(seen, 10)) = IF 10 < Len(seen) THEN 10 ELSE Len(seen)
    BY <1>0, FirstIsPart
  <2> DEFINE s == First(seen, 10)
  <2> HIDE DEF s
  <2>7. s = <<>>
    <3>1. CASE s # <<>>
      <4>1. s = <<Invented>>
        BY <1>3, <2>1, <2>2, <2>5, <3>1 DEF Or, s
      <4>2. s \in Seq(TicketTexts)
        BY <2>6 DEF s
      <4>3. Len(s) = 1 /\ s[1] = Invented
        BY <4>1
      <4>4. s[1] \in TicketTexts
        BY <4>2, <4>3
      <4> QED
        BY <2>4, <4>3, <4>4
    <3> QED
      BY <3>1
  <2>8. Len(s) = 0
    BY <2>7
  <2>9. Len(seen) = 0
    <3>1. Len(seen) \in Nat
      BY <1>0
    <3>2. Len(s) = IF 10 < Len(seen) THEN 10 ELSE Len(seen)
      BY <2>6 DEF s
    <3> QED
      BY <2>8, <3>1, <3>2
  <2> QED
    BY <1>0, <2>5, <2>9
<1>4. ASSUME Long, says.security_news = <<Invented>> PROVE asked.news = <<>>
  <2>1. says.security_news = Or(Collected["security_news"], draft["security_news"])
    BY <1>a, <1>4
  <2>2. Collected.security_news = asked.news
    BY DEF Collected
  <2>3. asked.news \in {<<>>, <<"news">>}
    BY <1>0 DEF ReportRequests
  <2>4. "news" # Invented
    BY ContentAssumption
  <2>5. CASE asked.news = <<"news">>
    <3>1. <<"news">> # <<>> /\ <<"news">> # <<Invented>>
      BY <2>4
    <3> QED
      BY <1>4, <2>1, <2>2, <2>5, <3>1 DEF Or
  <2> QED
    BY <2>3, <2>5
<1> HIDE DEF shown, free
<1> QED
  BY <1>2, <1>3, <1>4 DEF NothingInvented, shown, free

-----------------------------------------------------------------------------
(* The headings.                                                           *)

Keys == Figures \cup Texts \cup {"general", "results"}
AnyHeading == [of : Keys, item : Providers \cup {Nothing, Invented, "news"}]
IndexHeadings == {h \in AnyHeading : h.item = Nothing \/ h.of = "security_domains"}
NewsHeadings == {h \in AnyHeading : h.item # Nothing /\ h.of = "security_news"}

LEMMA HeadingsAre ==
  ASSUME NEW keys \in Seq(Keys)
  PROVE  /\ Headings(keys) \in Seq(IndexHeadings)
         /\ Len(Headings(keys)) = Len(keys)
         /\ \A i \in 1..Len(keys) : Headings(keys)[i] = [of |-> keys[i], item |-> Nothing]
<1> DEFINE h == Headings(keys)
           n == Len(keys)
<1>1. n \in Nat /\ DOMAIN keys = 1..n /\ \A i \in 1..n : keys[i] \in Keys
  OBVIOUS
<1>2. h = [i \in 1..n |-> [of |-> keys[i], item |-> Nothing]]
  BY <1>1 DEF Headings
<1>3. \A i \in 1..n : h[i] = [of |-> keys[i], item |-> Nothing] /\ h[i] \in IndexHeadings
  BY <1>1, <1>2 DEF IndexHeadings, AnyHeading
<1>4. h = [i \in 1..n |-> h[i]]
  BY <1>2
<1> HIDE DEF h, n
<1>5. h \in [1..n -> IndexHeadings]
  BY <1>3, <1>4
<1>6. h \in Seq(IndexHeadings) /\ Len(h) = n
  BY <1>1, <1>5
<1> QED
  BY <1>3, <1>6 DEF h, n

LEMMA HeadingsOfBoth ==
  ASSUME NEW a \in Seq(Keys), NEW b \in Seq(Keys)
  PROVE  Headings(a \o b) = Headings(a) \o Headings(b) /\ a \o b \in Seq(Keys)
<1>1. /\ a \o b \in Seq(Keys) /\ Len(a \o b) = Len(a) + Len(b)
      /\ \A i \in 1..(Len(a) + Len(b)) : (a \o b)[i] = IF i <= Len(a) THEN a[i] ELSE b[i - Len(a)]
  BY ConcatProperties
<1> DEFINE c == a \o b
           x == Headings(a)
           y == Headings(b)
           z == Headings(c)
<1> HIDE DEF c
<1>2. /\ x \in Seq(IndexHeadings) /\ y \in Seq(IndexHeadings) /\ z \in Seq(IndexHeadings)
      /\ Len(x) = Len(a) /\ Len(y) = Len(b) /\ Len(z) = Len(c)
      /\ \A i \in 1..Len(a) : x[i] = [of |-> a[i], item |-> Nothing]
      /\ \A i \in 1..Len(b) : y[i] = [of |-> b[i], item |-> Nothing]
      /\ \A i \in 1..Len(c) : z[i] = [of |-> c[i], item |-> Nothing]
  BY <1>1, HeadingsAre DEF c
<1> HIDE DEF x, y, z
<1>3. /\ x \o y \in Seq(IndexHeadings) /\ Len(x \o y) = Len(x) + Len(y)
      /\ \A i \in 1..(Len(x) + Len(y)) : (x \o y)[i] = IF i <= Len(x) THEN x[i] ELSE y[i - Len(x)]
  <2>1. x \in Seq(IndexHeadings) /\ y \in Seq(IndexHeadings)
    BY <1>2
  <2> QED
    BY <2>1, ConcatProperties
<1>4. Len(a) \in Nat /\ Len(b) \in Nat /\ Len(c) = Len(a) + Len(b)
  BY <1>1 DEF c
<1>5. ASSUME NEW i \in 1..Len(z) PROVE z[i] = (x \o y)[i]
  <2>1. i \in 1..(Len(a) + Len(b)) /\ z[i] = [of |-> c[i], item |-> Nothing]
    BY <1>2, <1>4
  <2>2. CASE i <= Len(a)
    <3>1. i \in 1..Len(a)
      BY <1>4, <2>1, <2>2
    <3>2. c[i] = a[i]
      BY <1>1, <2>1, <2>2 DEF c
    <3>3. (x \o y)[i] = x[i]
      BY <1>2, <1>3, <2>1, <2>2
    <3> QED
      BY <1>2, <2>1, <3>1, <3>2, <3>3
  <2>3. CASE ~(i <= Len(a))
    <3>1. i - Len(a) \in 1..Len(b)
      BY <1>4, <2>1, <2>3
    <3>2. c[i] = b[i - Len(a)]
      BY <1>1, <2>1, <2>3 DEF c
    <3>3. (x \o y)[i] = y[i - Len(a)]
      BY <1>2, <1>3, <2>1, <2>3
    <3> QED
      BY <1>2, <2>1, <3>1, <3>2, <3>3
  <2> QED
    BY <2>2, <2>3
<1>6. Len(z) = Len(x \o y)
  BY <1>2, <1>3, <1>4
<1> DEFINE w == x \o y
<1> HIDE DEF w
<1>7. z = w
  <2>1. z \in Seq(IndexHeadings) /\ w \in Seq(IndexHeadings) /\ Len(z) = Len(w) /\ \A i \in 1..Len(z) : z[i] = w[i]
    BY <1>2, <1>3, <1>5, <1>6 DEF w
  <2> QED
    BY <2>1, SeqEqual
<1> QED
  BY <1>1, <1>7 DEF c, x, y, z, w

LEMMA UnderAre ==
  ASSUME NEW X, NEW Y, NEW key, NEW items \in Seq(Y),
         \A y \in Y : [of |-> key, item |-> y] \in X
  PROVE  Under(key, items) \in Seq(X)
<1> DEFINE u == Under(key, items)
           n == Len(items)
<1>1. n \in Nat /\ DOMAIN items = 1..n /\ \A i \in 1..n : items[i] \in Y
  OBVIOUS
<1>2. u = [i \in 1..n |-> [of |-> key, item |-> items[i]]]
  BY <1>1 DEF Under
<1>3. u \in [1..n -> X]
  BY <1>1, <1>2
<1> HIDE DEF u, n
<1>4. u \in Seq(X)
  BY <1>1, <1>3
<1> QED
  BY <1>4 DEF u

\* What follows the index in the body is what the index leaves out.
LEMMA IndexIsBeginning ==
  ASSUME NEW index \in Seq(IndexHeadings), NEW news \in Seq(NewsHeadings), NEW p,
         Len(index) > 0, document.index = index,
         document.body = Body(p, Long), Numbered(p, Long) = index \o news,
         p.limitations # {}
  PROVE  IndexMatchesBody
<1> DEFINE body == index \o news
           n == Len(index)
           m == Len(news)
<1>1. IndexHeadings \subseteq AnyHeading /\ NewsHeadings \subseteq AnyHeading
  BY DEF IndexHeadings, NewsHeadings
<1>2. index \in Seq(AnyHeading) /\ news \in Seq(AnyHeading)
  BY <1>1, SeqMonotonic
<1>3. n \in Nat /\ m \in Nat /\ DOMAIN index = 1..n /\ DOMAIN news = 1..m
  OBVIOUS
<1>4. /\ body \in Seq(AnyHeading) /\ Len(body) = n + m
      /\ \A i \in 1..(n + m) : body[i] = IF i <= n THEN index[i] ELSE news[i - n]
  BY <1>2, ConcatProperties
<1>5. DOMAIN body = 1..(n + m)
  BY <1>3, <1>4
<1>6. \A i \in 1..n : body[i] = index[i] /\ ~(index[i].of = "security_news" /\ index[i].item # Nothing)
  <2> SUFFICES ASSUME NEW i \in 1..n
               PROVE  /\ body[i] = index[i]
                      /\ ~(index[i].of = "security_news" /\ index[i].item # Nothing)
    OBVIOUS
  <2>1. i \in 1..(n + m) /\ i <= n
    BY <1>3
  <2>2. index[i] \in IndexHeadings
    BY <1>3
  <2> QED
    BY <1>4, <2>1, <2>2 DEF IndexHeadings
<1>7. \A i \in 1..(n + m) \ 1..n : body[i].of = "security_news" /\ body[i].item # Nothing
  <2> SUFFICES ASSUME NEW i \in 1..(n + m), i \notin 1..n
               PROVE  body[i].of = "security_news" /\ body[i].item # Nothing
    OBVIOUS
  <2>1. ~(i <= n) /\ i - n \in 1..m
    BY <1>3
  <2>2. news[i - n] \in NewsHeadings
    BY <1>3, <2>1
  <2> QED
    BY <1>4, <2>1, <2>2 DEF NewsHeadings
<1>8. 1..n \subseteq 1..(n + m)
  BY <1>3
<1> DEFINE beyond == {i \in DOMAIN body : body[i].of = "security_news" /\ body[i].item # Nothing}
<1> HIDE DEF body, n, m
<1>9. beyond = 1..(n + m) \ 1..n
  BY <1>5, <1>6, <1>7, <1>8
<1>10. DOMAIN index = DOMAIN body \ beyond
  BY <1>3, <1>5, <1>8, <1>9
<1> DEFINE written == document.body
<1>11. /\ written = [i \in DOMAIN body |-> [heading |-> body[i],
                                         callouts |-> Callouts(p, body, i)]]
       /\ Len(body) = n + m /\ n + m \in 1..(n + m)
  BY <1>3, <1>4 DEF Body, body, n, m
<1>12. /\ DOMAIN written = 1..(n + m)
       /\ \A i \in DOMAIN written : written[i].heading = body[i]
       /\ written[n + m].callouts = Callouts(p, body, n + m)
  BY <1>5, <1>11
<1>13. Len(written) = n + m
  BY <1>3, <1>12 DEF n, m
<1>14. "limitations" \in Callouts(p, body, n + m)
  BY <1>11 DEF Callouts
<1>15. beyond = {i \in DOMAIN written : /\ written[i].heading.of = "security_news"
                                       /\ written[i].heading.item # Nothing}
  BY <1>5, <1>12 DEF beyond
<1>16. \A i \in DOMAIN index : index[i] = written[i].heading
  BY <1>3, <1>6, <1>8, <1>12
<1> HIDE DEF written, beyond
<1>17. /\ DOMAIN index = DOMAIN written \ beyond
       /\ "limitations" \in written[Len(written)].callouts
  BY <1>5, <1>10, <1>12, <1>13, <1>14
<1> QED
  BY <1>15, <1>16, <1>17 DEF IndexMatchesBody, written

LEMMA IndexDoesMatch ==
  ASSUME NEW p, NEW draft, Told(p, draft)
  PROVE  IndexMatchesBody
<1> DEFINE names == [i \in Every |-> domains[i].name]
           X == IndexHeadings
           a == Headings(General \o Summary)
           r == Headings(Results)
           d == Headings(<<"security_domains">>)
           u == Under("security_domains", names)
           c == Headings(Actions)
           w == Under("security_news", p.security_news)
<1>0. /\ DomainsInv /\ asked \in ReportRequests /\ evidence = Collected
      /\ draft \in Drafts /\ p = Final(draft, Collected) /\ document = Written(p, Long)
  BY DEF Told
<1>1. DOMAIN draft = Fields /\ draft.security_news \in {<<>>, <<Invented>>, <<"news">>}
  BY <1>0, DraftsAre
<1>2. p["security_domains"] = domains
  <2>1. "security_domains" \in Figures
    BY DEF Figures
  <2>2. p["security_domains"] = Collected["security_domains"]
    BY <2>1, DocumentIs
  <2> QED
    BY <2>2 DEF Collected
<1>3. Long => p["security_news"] \in {<<>>, <<Invented>>, <<"news">>}
  <2> DEFINE e == Collected
  <2> HIDE DEF e
  <2>1. Long => Final(draft, e)["security_news"] = Or(e["security_news"], draft["security_news"])
    BY <1>1, FinalKeeps
  <2>2. e["security_news"] = asked.news
    BY DEF e, Collected
  <2>3. asked.news \in {<<>>, <<"news">>}
    BY <1>0 DEF ReportRequests
  <2>4. p = Final(draft, e)
    BY <1>0 DEF e
  <2> QED
    BY <1>1, <2>1, <2>2, <2>3, <2>4 DEF Or
<1>k. "security_domains" \in Keys /\ "security_news" \in Keys
  BY DEF Keys, Figures, Texts
<1>4. /\ General \in Seq(Keys) /\ Summary \in Seq(Keys) /\ Results \in Seq(Keys)
      /\ Actions \in Seq(Keys) /\ <<"security_domains">> \in Seq(Keys)
  <2>1. General \in Seq(Keys)
    BY DEF General, Keys, Figures, Texts
  <2>2. Summary \in Seq(Keys)
    BY DEF Summary, Keys, Figures, Texts
  <2>3. Results \in Seq(Keys)
    BY DEF Results, Keys, Figures, Texts
  <2>4. Actions \in Seq(Keys)
    BY DEF Actions, Keys, Figures, Texts
  <2>5. <<"security_domains">> \in Seq(Keys)
    BY <1>k
  <2> QED
    BY <2>1, <2>2, <2>3, <2>4, <2>5
<1>5. General \o Summary \in Seq(Keys)
  BY <1>4, HeadingsOfBoth
<1>6. a \in Seq(X) /\ r \in Seq(X) /\ d \in Seq(X) /\ c \in Seq(X)
  BY <1>4, <1>5, HeadingsAre
<1>7. u \in Seq(X)
  <2>1. names \in Seq(Providers)
    BY <1>0, NamesAreProviders DEF DomainsInv
  <2>2. \A y \in Providers : [of |-> "security_domains", item |-> y] \in X
    BY <1>k DEF IndexHeadings, AnyHeading
  <2> HIDE DEF names, X
  <2> QED
    BY <2>1, <2>2, UnderAre
<1>8. Long => w \in Seq(NewsHeadings)
  <2> SUFFICES ASSUME Long PROVE w \in Seq(NewsHeadings)
    OBVIOUS
  <2> DEFINE Y == {Invented, "news"}
             s == p.security_news
  <2>1. s \in Seq(Y)
    <3>1. s \in {<<>>, <<Invented>>, <<"news">>}
      BY <1>3
    <3>2. <<>> \in Seq(Y) /\ <<Invented>> \in Seq(Y) /\ <<"news">> \in Seq(Y)
      OBVIOUS
    <3> HIDE DEF s, Y
    <3> QED
      BY <3>1, <3>2
  <2>2. \A y \in Y : [of |-> "security_news", item |-> y] \in NewsHeadings
    <3>1. Nothing \notin Y
      BY ContentAssumption
    <3>2. Y \subseteq Providers \cup {Nothing, Invented, "news"}
      OBVIOUS
    <3> HIDE DEF Y
    <3> QED
      BY <1>k, <3>1, <3>2 DEF NewsHeadings, AnyHeading
  <2> HIDE DEF s, Y
  <2>3. Under("security_news", s) \in Seq(NewsHeadings)
    BY <2>1, <2>2, UnderAre
  <2> QED
    BY <2>3 DEF s
<1>9. /\ document.index = Index(Long, names) /\ document.body = Body(p, Long)
  BY <1>0, <1>2 DEF Written, Every
<1>l. p["limitations"] # {}
  <2>1. "limitations" \in Figures
    BY DEF Figures
  <2>2. p["limitations"] = Collected["limitations"]
    BY <2>1, DocumentIs
  <2> QED
    BY <2>2 DEF Collected
<1>m. Len(d) = 1
  BY <1>4, HeadingsAre
<1>10. Numbered(p, Long) = a \o (IF Long THEN r ELSE <<>>) \o d \o u \o (IF Long THEN c \o w ELSE <<>>)
  BY <1>2 DEF Numbered, Every
<1>11. Index(Long, names) =
         Headings(General \o Summary \o (IF Long THEN Results ELSE <<>>)
                    \o <<"security_domains">>)
           \o u \o (IF Long THEN c ELSE <<>>)
  BY DEF Index
<1>12. CASE Long
  <2>1. Headings(((General \o Summary) \o Results) \o <<"security_domains">>) = (a \o r) \o d
    <3>1. /\ Headings((General \o Summary) \o Results) = a \o r
          /\ (General \o Summary) \o Results \in Seq(Keys)
      BY <1>4, <1>5, HeadingsOfBoth
    <3> QED
      BY <1>4, <3>1, HeadingsOfBoth
  <2> DEFINE h == ((a \o r) \o d) \o u
             index == h \o c
  <2>2. Index(Long, names) = index
    BY <1>11, <1>12, <2>1
  <2>3. Numbered(p, Long) = h \o (c \o w)
    BY <1>10, <1>12
  <2> HIDE DEF a, r, d, u, c, w, X
  <2>4. h \in Seq(X) /\ index \in Seq(X) /\ Len(index) > 0
    <3>1. a \o r \in Seq(X)
      BY <1>6, ConcatProperties
    <3>2. (a \o r) \o d \in Seq(X) /\ Len((a \o r) \o d) = Len(a \o r) + Len(d)
      BY <1>6, <3>1, ConcatProperties
    <3>3. h \in Seq(X) /\ Len(h) = Len((a \o r) \o d) + Len(u)
      BY <1>7, <3>2, ConcatProperties
    <3>4. index \in Seq(X) /\ Len(index) = Len(h) + Len(c)
      <4> HIDE DEF h
      <4> QED
        BY <1>6, <3>3, ConcatProperties
    <3>5. Len(a \o r) \in Nat /\ Len(u) \in Nat /\ Len(c) \in Nat
      BY <1>6, <1>7, <3>1, LenProperties
    <3> HIDE DEF h, index
    <3> QED
      BY <1>m, <3>2, <3>3, <3>4, <3>5
  <2>5. X \subseteq AnyHeading /\ NewsHeadings \subseteq AnyHeading
    BY DEF X, IndexHeadings, NewsHeadings
  <2>6. h \in Seq(AnyHeading) /\ c \in Seq(AnyHeading) /\ w \in Seq(AnyHeading)
    BY <1>6, <1>8, <1>12, <2>4, <2>5, SeqMonotonic
  <2> HIDE DEF h
  <2>7. (h \o c) \o w = h \o (c \o w)
    BY <2>6, ConcatAssociative
  <2>8. document.index = index /\ Numbered(p, Long) = index \o w
    BY <1>9, <2>2, <2>3, <2>7
  <2> HIDE DEF index, names
  <2> QED
    BY <1>8, <1>9, <1>l, <1>12, <2>4, <2>8, IndexIsBeginning DEF X
<1>13. CASE ~Long
  <2>1. Headings(((General \o Summary) \o <<>>) \o <<"security_domains">>) = a \o d
    <3>1. (General \o Summary) \o <<>> = General \o Summary
      BY <1>5, ConcatEmptySeq
    <3> QED
      BY <1>4, <1>5, <3>1, HeadingsOfBoth
  <2> DEFINE index == (a \o d) \o u
  <2>2. Index(Long, names) = index \o <<>>
    BY <1>11, <1>13, <2>1
  <2>3. Numbered(p, Long) = (((a \o <<>>) \o d) \o u) \o <<>>
    BY <1>10, <1>13
  <2> HIDE DEF a, r, d, u, c, w, X
  <2>4. index \in Seq(X) /\ Len(index) > 0
    <3>1. a \o d \in Seq(X) /\ Len(a \o d) = Len(a) + Len(d)
      BY <1>6, ConcatProperties
    <3>2. index \in Seq(X) /\ Len(index) = Len(a \o d) + Len(u)
      BY <1>7, <3>1, ConcatProperties
    <3>3. Len(a) \in Nat /\ Len(u) \in Nat
      BY <1>6, <1>7, LenProperties
    <3> HIDE DEF index
    <3> QED
      BY <1>m, <3>1, <3>2, <3>3
  <2>5. a \o <<>> = a /\ index \o <<>> = index
    BY <1>6, <2>4, ConcatEmptySeq
  <2>6. document.index = index /\ Numbered(p, Long) = index \o <<>>
    BY <1>9, <2>2, <2>3, <2>5
  <2> HIDE DEF index, names
  <2> QED
    BY <1>9, <1>l, <2>4, <2>6, IndexIsBeginning, EmptySeq DEF X
<1> QED
  BY <1>12, <1>13

-----------------------------------------------------------------------------
(* Nothing is refused but for words of the template.                       *)

LEMMA DemoIsValid ==
  ASSUME asked.type = "small_report", content = Demo
  PROVE  Valid
<1>1. Required \subseteq content.sections
  BY DEF Required, Demo
<1>2. SomeSeverity
  <2>1. content.severity["critical"] > 0 /\ "critical" \in Severities
    BY DEF Demo, Severities
  <2> QED
    BY <2>1 DEF SomeSeverity
<1>3. \A i \in DOMAIN content.findings :
         content.findings[i].id # 0 /\ content.findings[i].title # Nothing
  BY ContentAssumption DEF Demo
<1> QED
  BY <1>1, <1>2, <1>3 DEF Valid

LEMMA CollectedIsValid ==
  ASSUME DomainsInv, asked \in ReportRequests, asked.type = "minority_report",
         evidence = Collected, NEW draft \in Drafts, content = Generated(draft)
  PROVE  Valid
<1>1. Required \subseteq content.sections
  BY DEF Required, Generated
<1>2. SomeSeverity
  BY DEF SomeSeverity
<1>3. content.findings = Findings(domains)
  <2>1. DOMAIN draft = Fields /\ "security_domains" \in Figures
    BY DraftsAre DEF Figures
  <2> DEFINE e == evidence
  <2>2. Final(draft, e)["security_domains"] = e["security_domains"]
    BY <2>1, FinalKeeps
  <2>3. e["security_domains"] = domains
    BY DEF Collected
  <2> QED
    BY <2>2, <2>3 DEF Generated
<1> DEFINE X == [id : Nat \ {0}, title : (Titles \ {Nothing}) \cup {"Hallazgo"}]
           some(i) == [k \in DOMAIN domains[i].findings |->
                         [id |-> domains[i].findings[k].id,
                          title |-> domains[i].findings[k].title]]
           all == [i \in Every |-> some(i)]
<1>4. domains \in Seq(DomainRows) /\ \A i \in Every : domains[i] \in DomainRows
  BY DomainsAre DEF DomainsInv
<1>5. ASSUME NEW i \in Every PROVE some(i) \in Seq(X)
  <2> DEFINE s == domains[i].findings
             n == Len(s)
  <2>1. s \in Seq(ShownRows)
    BY <1>4 DEF DomainRows
  <2>2. n \in Nat /\ DOMAIN s = 1..n /\ \A k \in 1..n : s[k] \in ShownRows
    BY <2>1
  <2>3. \A k \in 1..n : [id |-> s[k].id, title |-> s[k].title] \in X
    BY <2>2 DEF ShownRows
  <2>4. some(i) = [k \in 1..n |-> [id |-> s[k].id, title |-> s[k].title]]
    BY <2>2
  <2> HIDE DEF s, n, X
  <2>5. some(i) \in [1..n -> X]
    BY <2>3, <2>4
  <2> DEFINE t == some(i)
  <2>6. t \in [1..n -> X]
    BY <2>5
  <2> HIDE DEF t
  <2>7. t \in Seq(X)
    BY <2>2, <2>6
  <2> QED
    BY <2>7 DEF t
<1> HIDE DEF some, X
<1>6. all \in [1..Len(domains) -> Seq(X)] /\ Len(domains) \in Nat
  BY <1>4, <1>5, DomainsAre
<1>7. FlattenSeq(all) = Findings(domains)
  BY DEF Findings, some, Every
<1> HIDE DEF all
<1>8. all \in Seq(Seq(X))
  BY <1>6
<1>9. content.findings \in Seq(X)
  BY <1>3, <1>7, <1>8, FlattenAddsUp
<1>10. \A x \in X : x.id # 0 /\ x.title # Nothing
  BY ContentAssumption DEF X
<1>11. \A i \in DOMAIN content.findings :
          content.findings[i].id # 0 /\ content.findings[i].title # Nothing
  BY <1>9, <1>10
<1> QED
  BY <1>1, <1>2, <1>11 DEF Valid

-----------------------------------------------------------------------------
(* The steps.                                                              *)

\* The figures are a matter of what was read.
LEMMA SameFigures ==
  ASSUME domains' = domains, asked' = asked, seen' = seen
  PROVE  Collected' = Collected
<1>1. Total("severity")' = Total("severity")
  BY DEF Total, MapThenSumSet, MapThenFoldSet
<1>2. Total("previousSeverity")' = Total("previousSeverity")
  BY DEF Total, MapThenSumSet, MapThenFoldSet
<1>3. Samples("findings")' = Samples("findings")
  BY DEF Samples
<1>4. Samples("previous")' = Samples("previous")
  BY DEF Samples
<1>5. Focuses' = Focuses /\ Coverage' = Coverage
  BY DEF Focuses, WithFindings, NameOf, Coverage, CoverageStatus
<1>6. Remarks' = Remarks /\ WithFindings' = WithFindings /\ Scanned' = Scanned
  BY DEF Remarks, WithFindings, Scanned
<1>7. \A i : NameOf(i)' = NameOf(i)
  BY DEF NameOf
<1>8. Sum(Total("severity"))' = Sum(Total("severity"))
  BY <1>1, ZenonT(40) DEF Sum, MapThenSumSet, MapThenFoldSet
<1>9. Sum(Total("previousSeverity"))' = Sum(Total("previousSeverity"))
  BY <1>2, ZenonT(40) DEF Sum, MapThenSumSet, MapThenFoldSet
<1>10. Collected.tools' = Collected.tools
  BY <1>1, <1>2, <1>3, <1>4, <1>5, <1>6, <1>7, <1>8, <1>9 DEF Collected
<1>11. Collected.period' = Collected.period
  BY <1>1, <1>2, <1>3, <1>4, <1>5, <1>6, <1>7, <1>8, <1>9 DEF Collected
<1>12. Collected.data_base' = Collected.data_base
  BY <1>1, <1>2, <1>3, <1>4, <1>5, <1>6, <1>7, <1>8, <1>9 DEF Collected
<1>13. Collected.coverage_rows' = Collected.coverage_rows
  BY <1>1, <1>2, <1>3, <1>4, <1>5, <1>6, <1>7, <1>8, <1>9 DEF Collected
<1>14. Collected.comparison' = Collected.comparison
  BY <1>1, <1>2, <1>3, <1>4, <1>5, <1>6, <1>7, <1>8, <1>9 DEF Collected
<1>15. Collected.histogram' = Collected.histogram
  BY <1>1, <1>2, <1>3, <1>4, <1>5, <1>6, <1>7, <1>8, <1>9, ZenonT(40) DEF Collected
<1>16. Collected.priority_focuses' = Collected.priority_focuses
  BY <1>1, <1>2, <1>3, <1>4, <1>5, <1>6, <1>7, <1>8, <1>9 DEF Collected
<1>17. Collected.operational_considerations' = Collected.operational_considerations
  BY <1>1, <1>2, <1>3, <1>4, <1>5, <1>6, <1>7, <1>8, <1>9 DEF Collected
<1>18. Collected.limitations' = Collected.limitations
  BY <1>1, <1>2, <1>3, <1>4, <1>5, <1>6, <1>7, <1>8, <1>9 DEF Collected
<1>19. Collected.results_obtained' = Collected.results_obtained
 <2>1. {NameOf(i) : i \in WithFindings}' = {NameOf(i) : i \in WithFindings}
   BY DEF NameOf, WithFindings
 <2>2. {NameOf(i) : i \in DOMAIN domains \ WithFindings}' = {NameOf(i) : i \in DOMAIN domains \ WithFindings}
   BY DEF NameOf, WithFindings
 <2>3. Len(Samples("findings"))' = Len(Samples("findings")) /\ Cardinality(Scanned)' = Cardinality(Scanned)
   BY <1>3, <1>6
 <2> QED
   BY <2>1, <2>2, <2>3 DEF Collected
<1>20. Collected.security_domains' = Collected.security_domains
  BY <1>1, <1>2, <1>3, <1>4, <1>5, <1>6, <1>7, <1>8, <1>9 DEF Collected
<1>21. Collected.pending_findings' = Collected.pending_findings
  BY <1>1, <1>2, <1>3, <1>4, <1>5, <1>6, <1>7, <1>8, <1>9 DEF Collected
<1>22. Collected.weekly_actions' = Collected.weekly_actions
  BY <1>1, <1>2, <1>3, <1>4, <1>5, <1>6, <1>7, <1>8, <1>9 DEF Collected
<1>23. Collected.security_news' = Collected.security_news
  BY <1>1, <1>2, <1>3, <1>4, <1>5, <1>6, <1>7, <1>8, <1>9 DEF Collected
<1> QED
  BY <1>10, <1>11, <1>12, <1>13, <1>14, <1>15, <1>16, <1>17,
     <1>18, <1>19, <1>20, <1>21, <1>22, <1>23, ZenonT(60) DEF Collected

LEMMA SameDrafts ==
  ASSUME domains' = domains, asked' = asked, evidence' = evidence
  PROVE  Drafts' = Drafts /\ \A draft : Generated(draft)' = Generated(draft)
<1>1. Drafts' = Drafts
  BY DEF Drafts, Fits, Compact, MapThenSumSet, MapThenFoldSet
<1>2. \A draft : Generated(draft)' = Generated(draft)
  BY DEF Generated, Final, Long
<1> QED
  BY <1>1, <1>2

LEMMA ToolsAre == Tools \in Seq(Providers) /\ Len(Tools) \in Nat
<1> DEFINE S == {Normal(n) : n \in Names}
<1>1. ProviderOrder \in Seq(Providers)
  BY DEF ProviderOrder, Providers, ToSet
<1>2. Kept(ProviderOrder, S) \in Seq(Providers \cap S)
  BY <1>1, KeptIsPart
<1>3. Tools \in Seq(Providers \cap S)
  BY <1>2 DEF Tools
<1> HIDE DEF S
<1> QED
  BY <1>3

LEMMA NewestIs ==
  ASSUME NEW S \in SUBSET Scans, IsFiniteSet(S)
  PROVE  Newest(S) \in ScanOrNone /\ (Newest(S) # Nothing => Newest(S) \in S)
<1>1. CASE S = {}
  BY <1>1 DEF Newest, ScanOrNone
<1>2. CASE S # {}
  <2> DEFINE T == {s.at : s \in S}
  <2>1. \A s \in S : s.at \in Nat
    BY ContentAssumption
  <2>2. T \in SUBSET Nat /\ T # {}
    BY <1>2, <2>1
  <2>3. IsFiniteSet(T)
    <3> DEFINE h == [s \in S |-> s.at]
    <3>1. IsFiniteSet({h[s] : s \in S})
      BY ImageIsFinite
    <3>2. T = {h[s] : s \in S}
      OBVIOUS
    <3> QED
      BY <3>1, <3>2
  <2>4. Max(T) \in T /\ \A x \in T : x <= Max(T)
    <3> HIDE DEF T
    <3> QED
      BY <2>2, <2>3, MaxIsThere
  <2>5. PICK s \in S : s.at = Max(T)
    BY <2>4
  <2>6. \A t \in S : t.at <= s.at
    BY <2>4, <2>5
  <2>7. Newest(S) = CHOOSE u \in S : \A t \in S : t.at <= u.at
    BY <1>2 DEF Newest
  <2>8. Newest(S) \in S
    BY <2>6, <2>7
  <2> QED
    BY <2>8 DEF ScanOrNone
<1> QED
  BY <1>1, <1>2

\* A report of the tenant's own is being made.
OfTenant == asked.type = "minority_report"

\* While it is collected: the domains that were built are sound, and those that
\* remain are as many as the providers that are left.
CollectInv ==
  /\ ContentTypeOK
  /\ IsFiniteSet(arrived)
  /\ DomainsInv
  /\ step # "new" => asked \in ReportRequests
  /\ step \in {"latest", "previous", "assemble"} => OfTenant
  /\ step \in {"latest", "previous"} =>
       left # <<>> /\ Len(domains) + Len(left) = Len(Tools)

\* Once it is: the evidence is what would be collected from the domains that
\* were read, the content is that of some draft, and the document that of the
\* content.
WritingInv ==
  /\ step \in {"generate", "validate", "docx", "done", "failed"} /\ OfTenant =>
       evidence = Collected
  /\ step \in {"validate", "docx", "done", "failed"} =>
       IF OfTenant THEN \E draft \in Drafts : content = Generated(draft)
       ELSE content = Demo
  /\ step = "done" /\ OfTenant => document = Written(content.payload, Long)
  /\ step = "failed" => OfTenant /\ ~Legible(content.payload, Long)

ContentInv == CollectInv /\ WritingInv

\* While it collects nothing is written.
LEMMA Unwritten ==
  ASSUME step' \notin {"generate", "validate", "docx", "done", "failed"}
  PROVE  WritingInv'
BY DEF WritingInv

LEMMA ContentStarts == ContentInit => ContentInv
<1> SUFFICES ASSUME ContentInit PROVE ContentInv
  OBVIOUS
<1>1. ContentTypeOK
  <2>1. /\ asked = Nothing /\ arrived = {} /\ tickets = <<>> /\ step = "new" /\ left = <<>>
        /\ latest = Nothing /\ seen = <<>> /\ domains = <<>>
    BY DEF ContentInit
  <2>2. Len(domains) <= Len(Tools)
    BY <2>1, ToolsAre
  <2> QED
    BY <2>1, <2>2 DEF ContentTypeOK
<1>2. IsFiniteSet(arrived)
  BY FS_EmptySet DEF ContentInit
<1>3. DomainsInv
  BY DEF ContentInit, DomainsInv
<1>4. step = "new"
  BY DEF ContentInit
<1> QED
  BY <1>1, <1>2, <1>3, <1>4 DEF ContentInv, CollectInv, WritingInv

LEMMA SameTools == Tools' = Tools
BY DEF Tools

LEMMA RequestedKeeps ==
  ASSUME ContentInv, NEW q \in ReportRequests, Requested(q)
  PROVE  ContentInv'
<1>1. CollectInv'
  BY SameTools DEF ContentInv, CollectInv, ContentTypeOK, DomainsInv, Requested
<1>2. step' = "collect"
  BY DEF Requested
<1> QED
  BY <1>1, <1>2, Unwritten DEF ContentInv

LEMMA IngestedKeeps ==
  ASSUME ContentInv, NEW s \in Scans, Ingested(s)
  PROVE  ContentInv'
<1>1. IsFiniteSet(arrived)'
  BY FS_AddElement DEF ContentInv, CollectInv, Ingested
<1>2. CollectInv'
  BY <1>1, SameTools DEF ContentInv, CollectInv, ContentTypeOK, DomainsInv, OfTenant, Ingested
<1>3. step' \in {"collect", "latest", "previous"}
  BY DEF Ingested
<1> QED
  BY <1>2, <1>3, Unwritten DEF ContentInv

LEMMA OpenedKeeps ==
  ASSUME ContentInv, NEW t \in TicketTexts, Opened(t)
  PROVE  ContentInv'
<1>1. tickets' \in Seq(TicketTexts)
  BY ConcatProperties DEF ContentInv, CollectInv, ContentTypeOK, Opened
<1>2. CollectInv'
  BY <1>1, SameTools DEF ContentInv, CollectInv, ContentTypeOK, DomainsInv, OfTenant, Opened
<1>3. step' = "collect"
  BY DEF Opened
<1> QED
  BY <1>2, <1>3, Unwritten DEF ContentInv

LEMMA BeginCollectKeeps ==
  ASSUME ContentInv, BeginCollect
  PROVE  ContentInv'
<1>1. CASE OfTenant
  <2>1. /\ seen' = tickets /\ left' = Tools /\ domains' = <<>>
        /\ step' = IF Tools = <<>> THEN "assemble" ELSE "latest"
        /\ UNCHANGED <<asked, arrived, tickets, latest, evidence, content, document>>
    BY <1>1 DEF BeginCollect, OfTenant
  <2>2. ContentTypeOK'
    BY <2>1, ToolsAre, SameTools DEF ContentInv, CollectInv, ContentTypeOK, Providers
  <2>3. DomainsInv'
    BY <2>1 DEF DomainsInv
  <2>4. step' \in {"latest", "previous"} =>
          left' # <<>> /\ Len(domains)' + Len(left)' = Len(Tools)'
    BY <2>1, ToolsAre, SameTools
  <2>5. asked' \in ReportRequests /\ OfTenant' /\ IsFiniteSet(arrived)'
    BY <1>1, <2>1 DEF ContentInv, CollectInv, OfTenant, BeginCollect
  <2>6. CollectInv'
    BY <2>2, <2>3, <2>4, <2>5 DEF CollectInv
  <2> QED
    BY <2>1, <2>6, Unwritten DEF ContentInv
<1>2. CASE ~OfTenant
  <2>1. /\ step' = "generate"
        /\ UNCHANGED <<seen, left, domains, asked, arrived, tickets, latest, evidence, content,
                       document>>
    BY <1>2 DEF BeginCollect, OfTenant
  <2>2. ~OfTenant'
    BY <1>2, <2>1 DEF OfTenant
  <2>3. CollectInv'
    BY <2>1, SameTools DEF ContentInv, CollectInv, ContentTypeOK, DomainsInv, BeginCollect
  <2> QED
    BY <2>1, <2>2, <2>3 DEF ContentInv, WritingInv
<1> QED
  BY <1>1, <1>2

LEMMA ReadLatestKeeps ==
  ASSUME ContentInv, ReadLatest
  PROVE  ContentInv'
<1> DEFINE S == {s \in arrived : s.provider = Head(left)}
<1>1. S \in SUBSET Scans /\ IsFiniteSet(S)
  BY FS_Subset DEF ContentInv, CollectInv, ContentTypeOK
<1> HIDE DEF S
<1>2. Newest(S) \in Scans \cup {Nothing}
  BY <1>1, NewestIs DEF ScanOrNone
<1>3. latest' \in Scans \cup {Nothing}
  BY <1>2 DEF ReadLatest, S
<1>4. CollectInv'
  BY <1>3, SameTools
     DEF ContentInv, CollectInv, ContentTypeOK, DomainsInv, OfTenant, ReadLatest
<1>5. step' = "previous"
  BY DEF ReadLatest
<1> QED
  BY <1>4, <1>5, Unwritten DEF ContentInv

LEMMA ReadPreviousKeeps ==
  ASSUME ContentInv, ReadPrevious
  PROVE  ContentInv'
<1> DEFINE p == Head(left)
           B == {s \in arrived : s.provider = p}
           S == {s \in B : Earlier(s)}
           before == IF latest = Nothing THEN Nothing ELSE Newest(S)
           d == Domain(p, latest, before)
<1>1. /\ domains' = Append(domains, d)
      /\ left' = Tail(left) /\ latest' = Nothing
      /\ step' = IF Tail(left) = <<>> THEN "assemble" ELSE "latest"
      /\ UNCHANGED <<asked, arrived, tickets, seen, evidence, content, document>>
  BY DEF ReadPrevious
<1>2. /\ left \in Seq(Providers) /\ left # <<>> /\ Len(domains) + Len(left) = Len(Tools)
      /\ latest \in ScanOrNone
      /\ DomainsInv /\ OfTenant /\ asked \in ReportRequests
  BY DEF ContentInv, CollectInv, ContentTypeOK, ReadPrevious, Providers, ScanOrNone
<1>3. /\ p \in Providers /\ Tail(left) \in Seq(Providers)
      /\ Len(Tail(left)) = Len(left) - 1
  BY <1>2, HeadTailProperties
<1>4. S \in SUBSET Scans /\ IsFiniteSet(S)
  <2>1. S \in SUBSET arrived /\ IsFiniteSet(arrived) /\ arrived \subseteq Scans
    BY DEF ContentInv, CollectInv, ContentTypeOK
  <2> HIDE DEF S
  <2> QED
    BY <2>1, FS_Subset
<1>5. Newest(S) \in ScanOrNone /\ (Newest(S) # Nothing => Newest(S) \in S)
  <2> HIDE DEF S
  <2> QED
    BY <1>4, NewestIs
<1>6. /\ before \in ScanOrNone
      /\ before # Nothing => latest # Nothing /\ before.at < latest.at
  <2>1. \A s \in S : s.at < latest.at
    BY DEF Earlier
  <2> DEFINE n == Newest(S)
  <2>2. n \in ScanOrNone /\ (n # Nothing => n.at < latest.at)
    BY <1>5, <2>1
  <2>3. before = IF latest = Nothing THEN Nothing ELSE n
    OBVIOUS
  <2> HIDE DEF n, before
  <2> QED
    BY <2>2, <2>3 DEF ScanOrNone
<1> HIDE DEF before, p
<1>7. d \in DomainRows /\ Sound(d)
  BY <1>2, <1>3, <1>6, DomainIsSound
<1> HIDE DEF d
<1>8. /\ Append(domains, d) \in Seq(DomainRows)
      /\ Len(Append(domains, d)) = Len(domains) + 1
      /\ DOMAIN Append(domains, d) = 1..(Len(domains) + 1)
      /\ \A i \in 1..Len(domains) : Append(domains, d)[i] = domains[i]
      /\ Append(domains, d)[Len(domains) + 1] = d
  BY <1>2, <1>7, AppendProperties DEF DomainsInv
<1>9. DomainsInv'
  <2>1. domains' \in Seq(DomainRows)
    BY <1>1, <1>8
  <2>2. ASSUME NEW i \in DOMAIN domains' PROVE Sound(domains'[i])
    <3>1. Len(domains) \in Nat /\ DOMAIN domains = 1..Len(domains)
      BY <1>2 DEF DomainsInv
    <3>2. i \in 1..Len(domains) \/ i = Len(domains) + 1
      BY <1>1, <1>8, <2>2, <3>1
    <3>3. (domains'[i] = domains[i] /\ i \in DOMAIN domains) \/ domains'[i] = d
      BY <1>1, <1>8, <3>1, <3>2
    <3> QED
      BY <1>2, <1>7, <3>3 DEF DomainsInv
  <2> QED
    BY <2>1, <2>2 DEF DomainsInv, Sound
<1>10. /\ Len(domains') <= Len(Tools)
       /\ Tail(left) # <<>> => Len(domains') + Len(left') = Len(Tools)
  <2>1. Len(domains) \in Nat /\ Len(left) \in Nat \ {0} /\ Len(Tools) \in Nat
    BY <1>2, ToolsAre, EmptySeq DEF DomainsInv
  <2> QED
    BY <1>1, <1>2, <1>3, <1>8, <2>1
<1>11. CollectInv'
  BY <1>1, <1>2, <1>3, <1>9, <1>10, SameTools
     DEF ContentInv, CollectInv, ContentTypeOK, OfTenant, Providers
<1>12. step' \in {"assemble", "latest"}
  BY <1>1
<1> QED
  BY <1>11, <1>12, Unwritten DEF ContentInv

LEMMA CollectAgainKeeps ==
  ASSUME ContentInv, CollectAgain
  PROVE  ContentInv'
<1>1. DomainsInv'
  BY DEF CollectAgain, DomainsInv
<1>2. CollectInv'
  BY <1>1, ToolsAre, SameTools DEF ContentInv, CollectInv, ContentTypeOK, CollectAgain
<1>3. step' = "collect"
  BY DEF CollectAgain
<1> QED
  BY <1>2, <1>3, Unwritten DEF ContentInv

\* What was collected stands as it is.
LEMMA CollectedStands ==
  ASSUME CollectInv, UNCHANGED <<asked, arrived, tickets, left, latest, seen, domains>>,
         step' \notin {"new", "latest", "previous", "assemble"}, step # "new",
         step' \in {"generate", "validate", "docx", "done", "failed"}
  PROVE  CollectInv'
BY SameTools DEF CollectInv, ContentTypeOK, DomainsInv

LEMMA AssembleKeeps ==
  ASSUME ContentInv, Assemble
  PROVE  ContentInv'
<1>1. CollectInv'
  BY CollectedStands DEF ContentInv, Assemble
<1>2. evidence' = Collected'
  BY SameFigures DEF Assemble
<1>3. WritingInv'
  BY <1>2 DEF WritingInv, Assemble
<1> QED
  BY <1>1, <1>3 DEF ContentInv

\* The drafts that may have been written are the ones that may have been.
LEMMA WritingStands ==
  ASSUME UNCHANGED <<asked, seen, domains, evidence>>
  PROVE  /\ Collected' = Collected /\ OfTenant' = OfTenant /\ Long' = Long
         /\ Drafts' = Drafts /\ \A draft : Generated(draft)' = Generated(draft)
<1>1. OfTenant' = OfTenant /\ Long' = Long
  BY DEF OfTenant, Long
<1> QED
  BY <1>1, SameFigures, SameDrafts

LEMMA GenerateKeeps ==
  ASSUME ContentInv, Generate
  PROVE  ContentInv'
<1>1. CollectInv'
  BY CollectedStands DEF ContentInv, Generate
<1>2. UNCHANGED <<asked, seen, domains, evidence>> /\ step = "generate" /\ step' = "validate"
  BY DEF Generate
<1>3. OfTenant => evidence' = Collected'
  BY <1>2, WritingStands DEF ContentInv, WritingInv
<1>4. OfTenant => \E draft \in Drafts' : content' = Generated(draft)'
  <2>1. SUFFICES ASSUME OfTenant PROVE \E draft \in Drafts' : content' = Generated(draft)'
    OBVIOUS
  <2>2. PICK draft \in Drafts : content' = Generated(draft)
    BY <2>1 DEF Generate, OfTenant
  <2>3. draft \in Drafts' /\ content' = Generated(draft)'
    BY <1>2, <2>2, WritingStands
  <2> QED
    BY <2>3
<1>5. ~OfTenant => content' = Demo
  BY DEF Generate, OfTenant
<1>6. OfTenant' = OfTenant /\ Demo' = Demo
  BY <1>2, WritingStands DEF Demo
<1>7. WritingInv'
  BY <1>2, <1>3, <1>4, <1>5, <1>6 DEF WritingInv
<1> QED
  BY <1>1, <1>7 DEF ContentInv

\* The content that was generated, as the next task finds it.
LEMMA ContentStands ==
  ASSUME ContentInv, step \in {"validate", "docx"},
         UNCHANGED <<asked, seen, domains, evidence, content>>
  PROVE  /\ OfTenant' = OfTenant
         /\ OfTenant => evidence' = Collected'
         /\ IF OfTenant THEN \E draft \in Drafts' : content' = Generated(draft)'
            ELSE content' = Demo'
<1>1. OfTenant' = OfTenant
  BY WritingStands
<1>2. OfTenant => evidence' = Collected'
  BY WritingStands DEF ContentInv, WritingInv
<1>3. CASE OfTenant
  <2>1. PICK draft \in Drafts : content = Generated(draft)
    BY <1>3 DEF ContentInv, WritingInv
  <2>2. draft \in Drafts' /\ content' = Generated(draft)'
    BY <2>1, WritingStands
  <2> QED
    BY <1>1, <1>2, <1>3, <2>2
<1>4. CASE ~OfTenant
  BY <1>1, <1>2, <1>4 DEF ContentInv, WritingInv, Demo
<1> QED
  BY <1>3, <1>4

\* Whatever was generated is valid.
LEMMA GeneratedIsValid ==
  ASSUME ContentInv, step = "validate"
  PROVE  Valid
<1>1. asked \in ReportRequests /\ DomainsInv
  BY DEF ContentInv, CollectInv
<1>2. CASE OfTenant
  <2>1. evidence = Collected
    BY <1>2 DEF ContentInv, WritingInv
  <2>2. PICK draft \in Drafts : content = Generated(draft)
    BY <1>2 DEF ContentInv, WritingInv
  <2> QED
    BY <1>1, <1>2, <2>1, <2>2, CollectedIsValid DEF OfTenant
<1>3. CASE ~OfTenant
  <2>1. content = Demo
    BY <1>3 DEF ContentInv, WritingInv
  <2>2. asked.type = "small_report"
    BY <1>1, <1>3 DEF OfTenant, ReportRequests
  <2> QED
    BY <2>1, <2>2, DemoIsValid
<1> QED
  BY <1>2, <1>3

LEMMA ValidateKeeps ==
  ASSUME ContentInv, Validate
  PROVE  ContentInv'
<1>1. step = "validate" /\ Valid
  BY GeneratedIsValid DEF Validate
<1>2. /\ step' = "docx"
      /\ UNCHANGED <<asked, arrived, tickets, left, latest, seen, domains, evidence, content,
                     document>>
  BY <1>1 DEF Validate
<1>3. CollectInv'
  BY <1>1, <1>2, CollectedStands DEF ContentInv
<1>4. /\ OfTenant' => evidence' = Collected'
      /\ IF OfTenant' THEN \E draft \in Drafts' : content' = Generated(draft)'
         ELSE content' = Demo'
  BY <1>1, <1>2, ContentStands
<1>5. WritingInv'
  BY <1>2, <1>4 DEF WritingInv
<1> QED
  BY <1>3, <1>5 DEF ContentInv

LEMMA RenderKeeps ==
  ASSUME ContentInv, Render
  PROVE  ContentInv'
<1>1. /\ step = "docx" /\ step' \in {"done", "failed"}
      /\ UNCHANGED <<asked, arrived, tickets, left, latest, seen, domains, evidence, content>>
  BY DEF Render
<1>2. CollectInv'
  BY <1>1, CollectedStands DEF ContentInv
<1>3. /\ OfTenant' = OfTenant
      /\ OfTenant' => evidence' = Collected'
      /\ IF OfTenant' THEN \E draft \in Drafts' : content' = Generated(draft)'
         ELSE content' = Demo'
  BY <1>1, ContentStands
<1>4. /\ step' = "failed" => OfTenant /\ ~Legible(content.payload, Long)
      /\ step' = "done" /\ OfTenant => document' = Written(content.payload, Long)
  <2>1. asked \in ReportRequests
    BY <1>1 DEF ContentInv, CollectInv
  <2>2. asked.type = "small_report" <=> ~OfTenant
    BY <2>1 DEF OfTenant, ReportRequests
  <2> QED
    BY <2>2 DEF Render
<1>5. /\ Legible(content.payload, Long)' = Legible(content.payload, Long)
      /\ Written(content.payload, Long)' = Written(content.payload, Long)
  <2>1. content' = content /\ Long' = Long /\ Charts' = Charts
    BY <1>1, WritingStands DEF Charts, Pie, Histogram, Sum, MapThenSumSet, MapThenFoldSet
  <2>2. Legible(content.payload, Long)' = Legible(content.payload, Long)
    BY <2>1 DEF Legible, Words
  <2> QED
    BY <2>1, <2>2 DEF Written
<1>6. WritingInv'
  BY <1>1, <1>3, <1>4, <1>5 DEF WritingInv
<1> QED
  BY <1>2, <1>6 DEF ContentInv

LEMMA NothingKeeps ==
  ASSUME ContentInv, UNCHANGED contentVars
  PROVE  ContentInv'
<1>1. UNCHANGED <<asked, arrived, tickets, step, left, latest, seen, domains, evidence,
                  content, document>>
  BY DEF contentVars
<1>2. CollectInv'
  BY <1>1, SameTools DEF ContentInv, CollectInv, ContentTypeOK, DomainsInv, OfTenant
<1>3. /\ Collected' = Collected /\ OfTenant' = OfTenant /\ Drafts' = Drafts
      /\ \A draft : Generated(draft)' = Generated(draft)
  BY <1>1, WritingStands
<1>4. /\ Legible(content.payload, Long)' = Legible(content.payload, Long)
      /\ Written(content.payload, Long)' = Written(content.payload, Long)
  <2>1. content' = content /\ Long' = Long /\ Charts' = Charts
    BY <1>1, WritingStands DEF Charts, Pie, Histogram, Sum, MapThenSumSet, MapThenFoldSet
  <2>2. Legible(content.payload, Long)' = Legible(content.payload, Long)
    BY <2>1 DEF Legible, Words
  <2> QED
    BY <2>1, <2>2 DEF Written
<1>5. WritingInv'
  BY <1>1, <1>3, <1>4 DEF ContentInv, WritingInv, Demo
<1> QED
  BY <1>2, <1>5 DEF ContentInv

LEMMA ContentIsInductive == ContentInv /\ [ContentNext]_contentVars => ContentInv'
<1> SUFFICES ASSUME ContentInv, [ContentNext]_contentVars PROVE ContentInv'
  OBVIOUS
<1>1. CASE \E q \in ReportRequests : Requested(q)
  BY <1>1, RequestedKeeps
<1>2. CASE \E s \in Scans : Ingested(s)
  BY <1>2, IngestedKeeps
<1>3. CASE \E t \in TicketTexts : Opened(t)
  BY <1>3, OpenedKeeps
<1>4. CASE BeginCollect
  BY <1>4, BeginCollectKeeps
<1>5. CASE ReadLatest
  BY <1>5, ReadLatestKeeps
<1>6. CASE ReadPrevious
  BY <1>6, ReadPreviousKeeps
<1>7. CASE CollectAgain
  BY <1>7, CollectAgainKeeps
<1>8. CASE Assemble
  BY <1>8, AssembleKeeps
<1>9. CASE Generate
  BY <1>9, GenerateKeeps
<1>10. CASE Validate
  BY <1>10, ValidateKeeps
<1>11. CASE Render
  BY <1>11, RenderKeeps
<1>12. CASE UNCHANGED contentVars
  BY <1>12, NothingKeeps
<1> QED
  BY <1>1, <1>2, <1>3, <1>4, <1>5, <1>6, <1>7, <1>8, <1>9, <1>10, <1>11, <1>12
     DEF ContentNext, Progress

LEMMA ContentIsTold == ContentInv => ReportTellsEvidence
<1> SUFFICES ASSUME ContentInv PROVE ReportTellsEvidence
  OBVIOUS
<1>1. step = "failed" => ~Legible(content.payload, Long)
  BY DEF ContentInv, WritingInv
<1>2. ASSUME Published PROVE TotalsAgree /\ ListsAgree /\ NothingInvented /\ IndexMatchesBody
  <2>1. step = "done" /\ OfTenant
    BY <1>2 DEF Published, OfTenant
  <2>2. /\ DomainsInv /\ asked \in ReportRequests /\ seen \in Seq(TicketTexts)
        /\ evidence = Collected /\ document = Written(content.payload, Long)
    BY <2>1 DEF ContentInv, CollectInv, ContentTypeOK, WritingInv
  <2>3. PICK draft \in Drafts : content = Generated(draft)
    BY <2>1 DEF ContentInv, WritingInv
  <2> DEFINE p == Final(draft, Collected)
  <2>4. content.payload = p
    BY <2>2, <2>3 DEF Generated
  <2>5. Told(p, draft)
    <3> HIDE DEF p
    <3> QED
      BY <2>2, <2>3, <2>4 DEF Told, p
  <2> HIDE DEF p
  <2>6. TotalsAgree
    BY <2>5, TotalsDoAgree
  <2>7. ListsAgree
    BY <2>5, ListsDoAgree
  <2>8. NothingInvented
    BY <2>5, NothingIsInvented
  <2>9. IndexMatchesBody
    BY <2>5, IndexDoesMatch
  <2> QED
    BY <2>6, <2>7, <2>8, <2>9
<1> QED
  BY <1>1, <1>2 DEF ReportTellsEvidence

\* Whatever scans and tickets arrive, and whenever: the tasks find what the
\* tasks before them left, and no provider is read twice (the handlers of
\* collect, generate, validate and docx).
THEOREM ContentTyped == ContentSpec => []ContentTypeOK
<1>1. ContentInv => ContentTypeOK
  BY DEF ContentInv, CollectInv
<1> QED
  BY <1>1, ContentStarts, ContentIsInductive, PTL DEF ContentSpec

\* The document of a report tells what was collected: every total of it is one
\* total, what it lists stands in a table, no figure of it is the model's, its
\* table of contents is its numbered headings but those of the news, and it
\* ends with its limitations; and only words of the template keep a report
\* from being published (report_generate_content.py 84-85, minority_docx.py).
THEOREM ReportIsTold == ContentSpec => []ReportTellsEvidence
  BY ContentStarts, ContentIsInductive, ContentIsTold, PTL DEF ContentSpec
=============================================================================
