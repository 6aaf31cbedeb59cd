------------------------------- MODULE McpProofs -------------------------------
(***************************************************************************)
(* Theorems about the processes of the MCP laboratory: the HTTP server,    *)
(* the supervisor with its server process, and the calls of the query      *)
(* worker, for every value of their constants.                             *)
(***************************************************************************)
EXTENDS McpServer, McpSupervisor, QueryWorker, FiniteSetTheorems, SequenceTheorems, TLAPS

-----------------------------------------------------------------------------
(* McpServer: a slot is held by every job that may still run, a request is *)
(* answered at most once, and the providers are not restored under a job.  *)

Held == {r \in HttpRequests : job[r] \in Holding}

Unanswered == {"new", "body", "bound", "waiting", "respond", "refuse"}

\* An answer is begun by a request that has begun none.
AnswerInv ==
  \A r \in HttpRequests : http[r].at \in Unanswered => http[r].starts = 0

\* A request that was not dispatched has no job.
JobInv ==
  \A r \in HttpRequests :
    http[r].at \in {"new", "body", "bound"} => job[r] = "none"

\* A process that has left for good, or was restored in order, has no job.
EndInv ==
  /\ process = "exited" => Held = {}
  /\ process = "restored" /\ ~interrupted => Held = {}

ServerInv ==
  ServerTypeOK /\ SlotsAreThreads /\ OneAnswer /\ AnswerInv /\ JobInv
            /\ EndInv

-----------------------------------------------------------------------------
(* The jobs and their slots.                                               *)

LEMMA HeldFinite == IsFiniteSet(Held) /\ Cardinality(Held) \in Nat
<1>1. Held \subseteq HttpRequests
  BY DEF Held
<1> QED
  BY <1>1, ServerAssumption, FS_Subset, FS_CardinalityType

\* A step takes a slot for a new job while the loop runs, gives one back, or
\* leaves both alone; only the process's forced exit drops the jobs.
LEMMA StepOfJobs ==
  ASSUME ServerInv, [ServerNext]_serverVars
  PROVE  \/ \E r \in HttpRequests :
              /\ r \notin Held /\ slots > 0 /\ LoopRuns
              /\ Held' = Held \cup {r} /\ slots' = slots - 1
              /\ UNCHANGED <<process, interrupted>>
         \/ \E r \in HttpRequests :
              /\ r \in Held
              /\ Held' = Held \ {r} /\ slots' = slots + 1
              /\ UNCHANGED <<process, interrupted>>
         \/ Held' = Held /\ UNCHANGED <<slots, process, interrupted>>
         \/ /\ Held' = Held /\ slots' = slots
            /\ process \in {"up", "stopping", "returned"}
            /\ process' # "exited"
            /\ process' = "restored" /\ ~interrupted' => Held = {}
         \/ /\ Held' = {} /\ slots' = slots
            /\ process' = "exited"
<1> USE DEF ServerInv, ServerTypeOK
<1>1. CASE ~\E r \in HttpRequests : Submit(r) \/ PickJob(r) \/ JobReads(r)
                                    \/ JobFinishes(r) \/ JobLeaves(r)
  <2>1. CASE Stop
    <3>1. CASE AskToStop \/ (\E intr \in BOOLEAN : LoopEnds(intr))
      BY <3>1 DEF AskToStop, LoopEnds, Held
    <3>2. CASE Unwire
      BY <3>2 DEF Unwire, Active, Held
    <3>3. CASE ForcedExit
      <4>1. Held' = {}
        BY <3>3 DEF ForcedExit, Held, Holding
      <4> QED
        BY <3>3, <4>1 DEF ForcedExit
    <3> QED
      BY <2>1, <3>1, <3>2, <3>3 DEF Stop
  <2>2. CASE ~Stop
    <3>1. UNCHANGED <<job, slots, process, interrupted>>
      BY <1>1, <2>2 DEF ServerNext, Loop, ArriveRequest, BodyRead, BodyRefused,
        AnsweredAtOnce, JobAnswers, PoolTimesOut, Respond, DispatchFails,
        RefuseRequest, RefusalEnds, ResponseSent, RequestCancelled, Expire,
        JobsStay, serverVars
    <3> QED
      BY <3>1 DEF Held
  <2> QED
    BY <2>1, <2>2
<1>2. ASSUME NEW r \in HttpRequests, Submit(r)
      PROVE  \/ /\ r \notin Held /\ slots > 0 /\ LoopRuns
                /\ Held' = Held \cup {r} /\ slots' = slots - 1
                /\ UNCHANGED <<process, interrupted>>
             \/ Held' = Held /\ UNCHANGED <<slots, process, interrupted>>
  <2>1. CASE closed \/ slots = 0
    BY <1>2, <2>1 DEF Submit, Moves, JobsStay, Held
  <2>2. CASE ~(closed \/ slots = 0)
    <3>1. LoopRuns /\ job[r] = "none"
      BY <1>2, <2>2 DEF Submit, Moves, JobInv
    <3>2. r \notin Held /\ Held' = Held \cup {r}
      BY <1>2, <2>2, <3>1 DEF Submit, Held, Holding
    <3> QED
      BY <1>2, <2>2, <3>1, <3>2 DEF Submit
  <2> QED
    BY <2>1, <2>2
<1>3. ASSUME NEW r \in HttpRequests, PickJob(r) \/ JobReads(r) \/ JobLeaves(r)
      PROVE  Held' = Held /\ UNCHANGED <<slots, process, interrupted>>
  BY <1>3 DEF PickJob, JobReads, JobLeaves, JobMoves, Held, Holding
<1>4. ASSUME NEW r \in HttpRequests, JobFinishes(r)
      PROVE  /\ r \in Held
             /\ Held' = Held \ {r} /\ slots' = slots + 1
             /\ UNCHANGED <<process, interrupted>>
  BY <1>4 DEF JobFinishes, JobMoves, Held, Holding
<1> QED
  BY <1>1, <1>2, <1>3, <1>4

-----------------------------------------------------------------------------
(* The invariant.                                                          *)

LEMMA ServerInvInit == ServerInit => ServerInv
<1> SUFFICES ASSUME ServerInit PROVE ServerInv
  OBVIOUS
<1>1. ServerTypeOK
  <2>1. [at |-> "new", starts |-> 0] \in
          [at : {"new", "body", "refuse", "refusing", "ended"} \cup Waiting,
           starts : 0..2]
    OBVIOUS
  <2>2. "none" \in {"none", "leaving", "done", "killed"} \cup Holding
    OBVIOUS
  <2>3. Workers \in 0..Workers
    BY ServerAssumption
  <2> QED
    BY <2>1, <2>2, <2>3 DEF ServerInit, ServerTypeOK
<1>2. Held = {}
  BY DEF ServerInit, Held, Holding
<1>3. SlotsAreThreads
  BY <1>2, FS_EmptySet, ServerAssumption DEF ServerInit, SlotsAreThreads, Held
<1>4. OneAnswer /\ AnswerInv /\ JobInv /\ EndInv
  BY <1>2 DEF ServerInit, OneAnswer, AnswerInv, JobInv, EndInv
<1> QED
  BY <1>1, <1>3, <1>4 DEF ServerInv

\* The slots and the jobs that hold them keep adding up.
LEMMA SlotsKeepCount ==
  ASSUME ServerInv, [ServerNext]_serverVars
  PROVE  /\ SlotsAreThreads' /\ EndInv'
         /\ slots' \in 0..Workers
<1>1. Held' = Held => Cardinality(Held') = Cardinality(Held)
  OBVIOUS
<1>2. \A r \in HttpRequests :
        r \notin Held => Cardinality(Held \cup {r}) = Cardinality(Held) + 1
  BY HeldFinite, FS_AddElement
<1>3. \A r \in Held : Cardinality(Held \ {r}) = Cardinality(Held) - 1
                      /\ Cardinality(Held) > 0
  <2> SUFFICES ASSUME NEW r \in Held
               PROVE  Cardinality(Held \ {r}) = Cardinality(Held) - 1
                      /\ Cardinality(Held) > 0
    OBVIOUS
  <2>1. Cardinality(Held \ {r}) = Cardinality(Held) - 1
    BY HeldFinite, FS_RemoveElement
  <2>2. IsFiniteSet(Held \ {r}) /\ Cardinality(Held \ {r}) \in Nat
    BY HeldFinite, FS_RemoveElement, FS_CardinalityType
  <2> QED
    BY <2>1, <2>2, HeldFinite
<1>4. process # "exited" => slots + Cardinality(Held) = Workers
  BY DEF ServerInv, SlotsAreThreads, Held
<1>5. slots \in 0..Workers /\ Workers \in Nat /\ Cardinality(Held) \in Nat
  BY HeldFinite, ServerAssumption DEF ServerInv, ServerTypeOK
<1>6. (process = "exited" => Held = {})
      /\ (process = "restored" /\ ~interrupted => Held = {})
  BY DEF ServerInv, EndInv
<1>7. /\ process' # "exited" => slots' + Cardinality(Held') = Workers
      /\ slots' \in 0..Workers
      /\ process' = "exited" => Held' = {}
      /\ process' = "restored" /\ ~interrupted' => Held' = {}
  BY <1>1, <1>2, <1>3, <1>4, <1>5, <1>6, StepOfJobs DEF LoopRuns
<1> QED
  BY <1>7 DEF SlotsAreThreads, EndInv, Held

\* A request goes from one point to another, and has begun no answer by it.
LEMMA MovesTo ==
  ASSUME ServerTypeOK, NEW r \in HttpRequests, NEW from, NEW to, Moves(r, from, to)
  PROVE  /\ http[r].at \in from
         /\ http' = [http EXCEPT ![r] = [at |-> to, starts |-> http[r].starts]]
<1>1. http[r] = [at |-> http[r].at, starts |-> http[r].starts] /\ r \in DOMAIN http
  BY DEF ServerTypeOK
<1>2. [http[r] EXCEPT !.at = to] = [at |-> to, starts |-> http[r].starts]
  BY <1>1
<1> QED
  BY <1>1, <1>2 DEF Moves

\* Where a request may go: on, and an answer is begun only once.
Passes(r, at, n) ==
  /\ at \in {"body", "refuse", "refusing", "ended"} \cup Waiting
  /\ at \in {"body", "bound"} => http[r].at \in {"new", "body"}
  /\ at \in Unanswered => http[r].at \in Unanswered
  /\ \/ n = http[r].starts
     \/ http[r].at \in Unanswered /\ at \notin Unanswered /\ n = http[r].starts + 1

LEMMA StepOfRequests ==
  ASSUME ServerInv, [ServerNext]_serverVars
  PROVE  \/ http' = http /\ job' = job
         \/ \E r \in HttpRequests : \E at, n :
              /\ Passes(r, at, n) /\ job' = job
              /\ http' = [http EXCEPT ![r] = [at |-> at, starts |-> n]]
         \/ \E r \in HttpRequests :
              /\ Passes(r, "waiting", http[r].starts)
              /\ http' = [http EXCEPT ![r] =
                            [at |-> "waiting", starts |-> http[r].starts]]
              /\ job' = [job EXCEPT ![r] = "queued"]
         \/ /\ http' = http
            /\ \E r \in HttpRequests :
                 \E to \in {"bound", "reading", "leaving", "done"} :
                   job[r] # "none" /\ job' = [job EXCEPT ![r] = to]
         \/ (\E intr \in BOOLEAN : LoopEnds(intr)) \/ ForcedExit
<1> USE DEF Passes, Unanswered, Waiting
<1>0. ServerTypeOK
  BY DEF ServerInv
<1>1. CASE Stop \/ UNCHANGED serverVars
  BY <1>1 DEF Stop, AskToStop, Unwire, serverVars
<1> SUFFICES ASSUME NEW r \in HttpRequests,
                    \/ ArriveRequest(r) \/ Loop(r) \/ ResponseSent(r)
                    \/ RequestCancelled(r) \/ Expire(r)
                    \/ PickJob(r) \/ JobReads(r) \/ JobFinishes(r) \/ JobLeaves(r)
             PROVE
         \/ http' = http /\ job' = job
         \/ \E at, n :
              /\ Passes(r, at, n) /\ job' = job
              /\ http' = [http EXCEPT ![r] = [at |-> at, starts |-> n]]
         \/ /\ Passes(r, "waiting", http[r].starts)
            /\ http' = [http EXCEPT ![r] =
                          [at |-> "waiting", starts |-> http[r].starts]]
            /\ job' = [job EXCEPT ![r] = "queued"]
         \/ /\ http' = http
            /\ \E to \in {"bound", "reading", "leaving", "done"} :
                 job[r] # "none" /\ job' = [job EXCEPT ![r] = to]
  BY <1>1 DEF ServerNext
<1>2. ASSUME NEW from, NEW to, Moves(r, from, to), job' = job,
             to \in {"body", "refuse", "refusing", "ended"} \cup Waiting,
             http[r].at \in from =>
               /\ to \in {"body", "bound"} => http[r].at \in {"new", "body"}
               /\ to \in Unanswered => http[r].at \in Unanswered
      PROVE  /\ Passes(r, to, http[r].starts)
             /\ http' = [http EXCEPT ![r] = [at |-> to, starts |-> http[r].starts]]
  <2>1. /\ http[r].at \in from
        /\ http' = [http EXCEPT ![r] = [at |-> to, starts |-> http[r].starts]]
    BY <1>0, <1>2, MovesTo
  <2>2. Passes(r, to, http[r].starts)
    BY <1>2, <2>1
  <2> QED
    BY <2>1, <2>2
<1>3. CASE ArriveRequest(r)
  BY <1>2, <1>3 DEF ArriveRequest, JobsStay
<1>4. CASE BodyRead(r)
  BY <1>2, <1>4 DEF BodyRead, JobsStay
<1>5. CASE BodyRefused(r)
  BY <1>2, <1>5 DEF BodyRefused, JobsStay
<1>6. CASE AnsweredAtOnce(r)
  BY <1>2, <1>6 DEF AnsweredAtOnce, JobsStay
<1>7. CASE Submit(r)
  <2>1. CASE closed \/ slots = 0
    BY <1>2, <1>7, <2>1 DEF Submit, JobsStay
  <2>2. CASE ~(closed \/ slots = 0)
    <3>1. Moves(r, {"bound"}, "waiting") /\ job' = [job EXCEPT ![r] = "queued"]
      BY <1>7, <2>2 DEF Submit
    <3>2. /\ http[r].at \in {"bound"}
          /\ http' = [http EXCEPT ![r] = [at |-> "waiting", starts |-> http[r].starts]]
      BY <1>0, <3>1, MovesTo
    <3> QED
      BY <3>1, <3>2
  <2> QED
    BY <2>1, <2>2
<1>8. CASE JobAnswers(r)
  BY <1>2, <1>8 DEF JobAnswers, JobsStay
<1>9. CASE PoolTimesOut(r)
  BY <1>2, <1>9 DEF PoolTimesOut, JobsStay
<1>10. CASE Respond(r)
  <2>1. http' = [http EXCEPT ![r] = [at |-> "sending", starts |-> http[r].starts + 1]]
        /\ http[r].at = "respond" /\ job' = job
    BY <1>0, <1>10 DEF Respond, JobsStay, ServerTypeOK
  <2> QED
    BY <2>1
<1>11. CASE DispatchFails(r)
  <2>1. CASE Moves(r, Waiting \ {"sending"}, "refuse")
    BY <1>2, <1>11, <2>1 DEF DispatchFails, JobsStay
  <2>2. CASE Moves(r, {"sending"}, "ended")
    BY <1>2, <1>11, <2>2 DEF DispatchFails, JobsStay
  <2> QED
    BY <1>11, <2>1, <2>2 DEF DispatchFails
<1>12. CASE RefuseRequest(r)
  <2>1. http' = [http EXCEPT ![r] = [at |-> "refusing", starts |-> http[r].starts + 1]]
        /\ http[r].at = "refuse" /\ job' = job
    BY <1>0, <1>12 DEF RefuseRequest, JobsStay, ServerTypeOK
  <2> QED
    BY <2>1
<1>13. CASE RefusalEnds(r)
  BY <1>2, <1>13 DEF RefusalEnds, JobsStay
<1>14. CASE ResponseSent(r)
  BY <1>2, <1>14 DEF ResponseSent, JobsStay
<1>15. CASE RequestCancelled(r)
  BY <1>2, <1>15 DEF RequestCancelled, JobsStay
<1>16. CASE Expire(r)
  BY <1>16 DEF Expire, JobsStay
<1>17. CASE PickJob(r) \/ JobReads(r) \/ JobFinishes(r) \/ JobLeaves(r)
  BY <1>17 DEF PickJob, JobReads, JobFinishes, JobLeaves, JobMoves
<1> QED
  BY <1>3, <1>4, <1>5, <1>6, <1>7, <1>8, <1>9, <1>10, <1>11, <1>12, <1>13,
     <1>14, <1>15, <1>16, <1>17 DEF Loop

LEMMA IsFunction ==
  ASSUME NEW S, NEW T, NEW f, f = [s \in S |-> f[s]], \A s \in S : f[s] \in T
  PROVE  f \in [S -> T]
OBVIOUS

\* The points and the jobs keep their types, and an answer is begun once.
LEMMA RequestsKeep ==
  ASSUME ServerInv, [ServerNext]_serverVars
  PROVE  /\ http' \in [HttpRequests ->
              [at : {"new", "body", "refuse", "refusing", "ended"} \cup Waiting,
               starts : 0..2]]
         /\ job' \in [HttpRequests ->
              {"none", "leaving", "done", "killed"} \cup Holding]
         /\ OneAnswer' /\ AnswerInv' /\ JobInv'
<1> DEFINE At == {"new", "body", "refuse", "refusing", "ended"} \cup Waiting
           Job == {"none", "leaving", "done", "killed"} \cup Holding
<1>0. /\ http \in [HttpRequests -> [at : At, starts : 0..2]]
      /\ job \in [HttpRequests -> Job]
      /\ \A r \in HttpRequests :
           /\ http[r].at \in At /\ http[r].starts \in 0..1
           /\ http[r] = [at |-> http[r].at, starts |-> http[r].starts]
           /\ http[r].at \in Unanswered => http[r].starts = 0
           /\ http[r].at \in {"new", "body", "bound"} => job[r] = "none"
  BY DEF ServerInv, ServerTypeOK, OneAnswer, AnswerInv, JobInv
<1>1. ASSUME NEW r \in HttpRequests, NEW at, NEW n, Passes(r, at, n)
      PROVE  /\ at \in At /\ n \in 0..1
             /\ at \in Unanswered => n = 0
             /\ at \in {"body", "bound"} => job[r] = "none"
             /\ at # "new"
  BY <1>0, <1>1 DEF Passes, Unanswered, Waiting
<1> HIDE DEF At, Job
<1>2. ASSUME http' = http, job' = job
      PROVE  /\ http' \in [HttpRequests -> [at : At, starts : 0..2]]
             /\ job' \in [HttpRequests -> Job]
             /\ OneAnswer' /\ AnswerInv' /\ JobInv'
  BY <1>0, <1>2 DEF OneAnswer, AnswerInv, JobInv
<1>3. ASSUME NEW r \in HttpRequests, NEW at, NEW n, Passes(r, at, n),
             http' = [http EXCEPT ![r] = [at |-> at, starts |-> n]],
             \/ job' = job
             \/ at = "waiting" /\ job' = [job EXCEPT ![r] = "queued"]
      PROVE  /\ http' \in [HttpRequests -> [at : At, starts : 0..2]]
             /\ job' \in [HttpRequests -> Job]
             /\ OneAnswer' /\ AnswerInv' /\ JobInv'
  <2>1. [at |-> at, starts |-> n] \in [at : At, starts : 0..2]
    BY <1>1, <1>3
  <2>2. http' \in [HttpRequests -> [at : At, starts : 0..2]]
    BY <1>0, <1>3, <2>1
  <2>3. "queued" \in Job
    BY DEF Job, Holding
  <2>4. job' \in [HttpRequests -> Job]
    BY <1>0, <1>3, <2>3
  <2>5. /\ http'[r].at = at /\ http'[r].starts = n
        /\ \A s \in HttpRequests \ {r} : http'[s] = http[s] /\ job'[s] = job[s]
        /\ at # "waiting" => job'[r] = job[r]
    BY <1>0, <1>3
  <2>6. OneAnswer' /\ AnswerInv'
    BY <1>0, <1>1, <1>3, <2>5 DEF OneAnswer, AnswerInv
  <2>7. JobInv'
    BY <1>0, <1>1, <1>3, <2>5 DEF JobInv
  <2> QED
    BY <2>2, <2>4, <2>6, <2>7
<1>4. ASSUME NEW r \in HttpRequests, NEW to \in {"bound", "reading", "leaving", "done"},
             http' = http, job[r] # "none", job' = [job EXCEPT ![r] = to]
      PROVE  /\ http' \in [HttpRequests -> [at : At, starts : 0..2]]
             /\ job' \in [HttpRequests -> Job]
             /\ OneAnswer' /\ AnswerInv' /\ JobInv'
  <2>1. to \in Job
    BY DEF Job, Holding
  <2>2. job' \in [HttpRequests -> Job]
    BY <1>0, <1>4, <2>1
  <2>3. OneAnswer' /\ AnswerInv'
    BY <1>0, <1>4 DEF OneAnswer, AnswerInv
  <2>4. JobInv'
    BY <1>0, <1>4 DEF JobInv
  <2> QED
    BY <1>0, <1>4, <2>2, <2>3, <2>4
<1>5. ASSUME NEW intr \in BOOLEAN, LoopEnds(intr)
      PROVE  /\ http' \in [HttpRequests -> [at : At, starts : 0..2]]
             /\ job' \in [HttpRequests -> Job]
             /\ OneAnswer' /\ AnswerInv' /\ JobInv'
  <2>1. \A r \in HttpRequests :
          http'[r] = [at |-> IF http[r].at = "new" THEN "new" ELSE "ended",
                      starts |-> http[r].starts]
    <3> SUFFICES ASSUME NEW r \in HttpRequests
                 PROVE  http'[r] = [at |-> IF http[r].at = "new" THEN "new" ELSE "ended",
                                    starts |-> http[r].starts]
      OBVIOUS
    <3>1. http'[r] = [http[r] EXCEPT !.at = IF http[r].at = "new" THEN "new" ELSE "ended"]
      BY <1>5, Zenon DEF LoopEnds
    <3> QED
      BY <1>0, <3>1
  <2>2. http' = [r \in HttpRequests |-> http'[r]] /\ job' = job
    BY <1>5 DEF LoopEnds
  <2>3. \A r \in HttpRequests : http'[r] \in [at : At, starts : 0..2]
    <3> SUFFICES ASSUME NEW r \in HttpRequests
                 PROVE  http'[r] \in [at : At, starts : 0..2]
      OBVIOUS
    <3> DEFINE to == IF http[r].at = "new" THEN "new" ELSE "ended"
    <3>1. to \in At
      BY DEF At
    <3>2. http[r].starts \in 0..2
      BY <1>0
    <3>3. http'[r] = [at |-> to, starts |-> http[r].starts]
      BY <2>1
    <3> HIDE DEF to
    <3> QED
      BY <3>1, <3>2, <3>3
  <2>4. http' \in [HttpRequests -> [at : At, starts : 0..2]]
    BY <2>2, <2>3
  <2>5. OneAnswer' /\ AnswerInv' /\ JobInv'
    BY <1>0, <2>1, <2>2 DEF OneAnswer, AnswerInv, JobInv, Unanswered
  <2> QED
    BY <1>0, <2>2, <2>4, <2>5
<1>6. ASSUME ForcedExit
      PROVE  /\ http' \in [HttpRequests -> [at : At, starts : 0..2]]
             /\ job' \in [HttpRequests -> Job]
             /\ OneAnswer' /\ AnswerInv' /\ JobInv'
  <2>1. /\ http' = http
        /\ job' = [r \in HttpRequests |->
               IF job[r] \in Holding \cup {"leaving"} THEN "killed" ELSE job[r]]
    BY <1>6 DEF ForcedExit
  <2>2. \A r \in HttpRequests : /\ job'[r] \in Job
                                /\ job[r] = "none" => job'[r] = "none"
    <3> SUFFICES ASSUME NEW r \in HttpRequests
                 PROVE  /\ job'[r] \in Job
                        /\ job[r] = "none" => job'[r] = "none"
      OBVIOUS
    <3>1. job'[r] = IF job[r] \in Holding \cup {"leaving"} THEN "killed" ELSE job[r]
      BY <2>1, Zenon
    <3>2. job[r] \in Job /\ "killed" \in Job /\ "none" \notin Holding \cup {"leaving"}
      BY <1>0 DEF Job, Holding
    <3> QED
      BY <3>1, <3>2
  <2>3. job' \in [HttpRequests -> Job]
    <3>1. job' = [r \in HttpRequests |-> job'[r]]
      BY <2>1, Zenon
    <3> QED
      BY <2>2, <3>1, IsFunction
  <2>4. OneAnswer' /\ AnswerInv'
    BY <1>0, <2>1 DEF OneAnswer, AnswerInv
  <2>5. JobInv'
    BY <1>0, <2>1, <2>2 DEF JobInv
  <2> QED
    BY <1>0, <2>1, <2>3, <2>4, <2>5
<1> QED
  <2>1. /\ http' \in [HttpRequests -> [at : At, starts : 0..2]]
        /\ job' \in [HttpRequests -> Job]
        /\ OneAnswer' /\ AnswerInv' /\ JobInv'
    <3>1. CASE \E r \in HttpRequests : \E at, n :
                 /\ Passes(r, at, n) /\ job' = job
                 /\ http' = [http EXCEPT ![r] = [at |-> at, starts |-> n]]
      BY <1>3, <3>1
    <3>2. CASE \E r \in HttpRequests :
                 /\ Passes(r, "waiting", http[r].starts)
                 /\ http' = [http EXCEPT ![r] =
                               [at |-> "waiting", starts |-> http[r].starts]]
                 /\ job' = [job EXCEPT ![r] = "queued"]
      BY <1>3, <3>2
    <3>3. CASE /\ http' = http
               /\ \E r \in HttpRequests :
                    \E to \in {"bound", "reading", "leaving", "done"} :
                      job[r] # "none" /\ job' = [job EXCEPT ![r] = to]
      BY <1>4, <3>3
    <3>4. CASE (\E intr \in BOOLEAN : LoopEnds(intr)) \/ ForcedExit
      BY <1>5, <1>6, <3>4
    <3> QED
      BY <1>2, <3>1, <3>2, <3>3, <3>4, StepOfRequests
  <2> QED
    BY <2>1 DEF At, Job

\* What is left of the types: deadlines, the pool's end and the process.
LEMMA RestKeepsType ==
  ASSUME ServerInv, [ServerNext]_serverVars
  PROVE  /\ live' \in [HttpRequests -> BOOLEAN] /\ closed' \in BOOLEAN
         /\ process' \in {"up", "stopping", "returned", "restored", "exited"}
         /\ interrupted' \in BOOLEAN
<1> USE DEF ServerInv, ServerTypeOK
<1>1. CASE \E r \in HttpRequests : Expire(r)
  BY <1>1 DEF Expire, JobsStay
<1>2. CASE Stop
  BY <1>2 DEF Stop, AskToStop, LoopEnds, Unwire, ForcedExit
<1>3. CASE UNCHANGED <<live, closed, process, interrupted>>
  BY <1>3
<1> QED
  BY <1>1, <1>2, <1>3 DEF ServerNext, Loop, ArriveRequest, BodyRead, BodyRefused,
    AnsweredAtOnce, Submit, JobAnswers, PoolTimesOut, Respond, DispatchFails,
    RefuseRequest, RefusalEnds, ResponseSent, RequestCancelled, JobsStay,
    PickJob, JobReads, JobFinishes, JobLeaves, JobMoves, serverVars

LEMMA ServerInvNext == ServerInv /\ [ServerNext]_serverVars => ServerInv'
<1> SUFFICES ASSUME ServerInv, [ServerNext]_serverVars PROVE ServerInv'
  OBVIOUS
<1>1. ServerTypeOK'
  BY SlotsKeepCount, RequestsKeep, RestKeepsType DEF ServerTypeOK
<1> QED
  BY <1>1, SlotsKeepCount, RequestsKeep DEF ServerInv

LEMMA ServerInvHolds == ServerSpec => []ServerInv
<1>1. ServerInit => ServerInv
  BY ServerInvInit
<1>2. ServerInv /\ [ServerNext]_serverVars => ServerInv'
  BY ServerInvNext
<1> QED
  BY <1>1, <1>2, PTL DEF ServerSpec

-----------------------------------------------------------------------------
(* Theorems.                                                               *)

\* Every variable stays in its range: no more slots are free than there are.
THEOREM ServerTyped == ServerSpec => []ServerTypeOK
<1>1. ServerInv => ServerTypeOK
  BY DEF ServerInv
<1> QED
  BY <1>1, ServerInvHolds, PTL

\* A slot per job that may still run, whatever became of its request; one
\* answer for a request, whatever times out while it is sent; and no provider
\* restored under a job, but by an interrupt.
THEOREM ServerBounded == ServerSpec => []ServerIsBounded
<1>1. ServerInv => ServerIsBounded
  <2> SUFFICES ASSUME ServerInv PROVE WiredWhileWorking
    BY DEF ServerInv, ServerIsBounded
  <2> QED
    BY DEF ServerInv, EndInv, WiredWhileWorking, Active, Held
<1> QED
  BY <1>1, ServerInvHolds, PTL

-----------------------------------------------------------------------------
(* McpSupervisor: one server at a time, and the supervisor that hands over.  *)

ServerType ==
  [proc : {"none", "alive", "exited", "gone"}, gate : {"OPEN", "CLOSED"},
   latched : BOOLEAN, jobs : 0..MaxJobs, abandoned : BOOLEAN, greeted : BOOLEAN]

\* Closed for good: what opens a gate does so once.
Shut(s) == s.latched /\ s.gate = "CLOSED"

\* Only the present server may be alive, and only under a supervisor that owns
\* it; one that has given up or stopped and owns a server has said so.
Owning ==
  /\ \A g \in Generations : Alive(g) => owned /\ g = generation
  /\ owned => generation # 0
  /\ pc \in Starting \cup Retiring \cup {"watch"} => owned
  /\ pc \in {"idle", "stopped"} /\ owned => residual

\* A server is started for the first time, or for an attempt that is counted.
Counting ==
  /\ generation <= attempts + 1
  /\ pc \in {"new", "spawn"} \/ (pc \in Retiring /\ goal = "replace") => generation <= attempts

\* An acknowledgement, heard or under way, is of a server that is closed for
\* good; the supervisor drains with one and shows DRAINING nowhere else.
Acknowledged == seen.closed \/ \E i \in DOMAIN up : up[i].kind = "closed"

Closing ==
  /\ Acknowledged => generation # 0 /\ Shut(Present)
  /\ pc = "drain" => seen.closed
  /\ state = "DRAINING" => pc = "drain"

\* Nothing that has been UNAVAILABLE is on its way to a new start.
Fallen ==
  fallen => pc \in {"idle", "stopped"} \cup Retiring /\ (pc \in Retiring => goal # "replace")

SupInv == SupTypeOK /\ Owning /\ Counting /\ Closing /\ Fallen

-----------------------------------------------------------------------------
(* Generations and frames.                                                 *)

LEMMA GenerationsAre ==
  ASSUME SupTypeOK
  PROVE  /\ generation \in Nat /\ attempts \in Nat /\ attempts <= MaxRecoveries
         /\ generation # 0 => generation \in Generations
         /\ server \in [Generations -> ServerType]
         /\ down \in Seq({"probe", "open", "close"}) /\ up \in Seq(Frames)
BY SupervisorAssumption DEF SupTypeOK, Generations, ServerType

LEMMA SnapIsTyped ==
  ASSUME NEW s \in ServerType
  PROVE  Snap(s) \in Snapshots
BY DEF Snap, Snapshots, ServerType

\* A server whose process, gate, jobs and callers change.
LEMMA ServerChanges ==
  ASSUME NEW q \in ServerType, NEW p \in {"none", "alive", "exited", "gone"},
         NEW gate \in {"OPEN", "CLOSED"}, NEW n \in 0..MaxJobs, NEW b \in BOOLEAN
  PROVE  /\ [q EXCEPT !.proc = p] \in ServerType
         /\ [q EXCEPT !.jobs = n] \in ServerType
         /\ [q EXCEPT !.jobs = n, !.abandoned = b] \in ServerType
         /\ [q EXCEPT !.proc = p, !.gate = gate, !.jobs = n, !.abandoned = b] \in ServerType
         /\ Shut(q) => /\ Shut([q EXCEPT !.jobs = n])
                      /\ Shut([q EXCEPT !.jobs = n, !.abandoned = b])
                      /\ Shut([q EXCEPT !.proc = p, !.gate = "CLOSED", !.jobs = n, !.abandoned = b])
BY DEF ServerType, Shut

\* A report is added to what is under way.
LEMMA Reported ==
  ASSUME SupTypeOK, NEW kind \in Reports, NEW s \in ServerType, Says(kind, s)
  PROVE  /\ up' \in Seq(Frames)
         /\ \A i \in DOMAIN up' : up'[i].kind = kind \/ \E j \in DOMAIN up : up[j].kind = up'[i].kind
<1> DEFINE f == [kind |-> kind, snap |-> Snap(s)]
<1>1. f \in Frames /\ f.kind = kind
  BY SnapIsTyped DEF Frames
<1>2. up \in Seq(Frames) /\ up' = Append(up, f)
  BY GenerationsAre DEF Says
<1> HIDE DEF f
<1>3. /\ up' \in Seq(Frames) /\ DOMAIN up' = 1..(Len(up) + 1) /\ DOMAIN up = 1..Len(up)
      /\ \A i \in 1..Len(up) : up'[i] = up[i]
      /\ up'[Len(up) + 1] = f
  BY <1>1, <1>2
<1>4. ASSUME NEW i \in DOMAIN up'
      PROVE  up'[i].kind = kind \/ \E j \in DOMAIN up : up[j].kind = up'[i].kind
  <2>1. i \in 1..Len(up) \/ i = Len(up) + 1
    BY <1>2, <1>3, LenProperties
  <2>2. CASE i \in 1..Len(up)
    BY <1>3, <2>2
  <2>3. CASE i = Len(up) + 1
    BY <1>1, <1>3, <2>3
  <2> QED
    BY <2>1, <2>2, <2>3
<1> QED
  BY <1>3, <1>4

-----------------------------------------------------------------------------
(* The server's steps.                                                     *)

\* The server g becomes s, and tells of a close only when it is shut.
Serves(g, s) ==
  /\ Alive(g) /\ s \in ServerType
  /\ server' = [server EXCEPT ![g] = s]
  /\ Shut(server[g]) => Shut(s)
  /\ UNCHANGED supVars
  /\ down' \in Seq({"probe", "open", "close"}) /\ up' \in Seq(Frames)
  /\ (\E i \in DOMAIN up' : up'[i].kind = "closed") =>
       Shut(s) \/ \E j \in DOMAIN up : up[j].kind = "closed"

LEMMA ServesKeeps ==
  ASSUME SupInv, NEW g \in Generations, NEW s, Serves(g, s)
  PROVE  SupInv'
<1>1. /\ UNCHANGED supVars /\ server \in [Generations -> ServerType]
      /\ Alive(g) /\ g = generation /\ owned
  BY GenerationsAre DEF Serves, SupInv, Owning
<1>2. UNCHANGED <<pc, goal, state, generation, attempts, owned, renew, residual,
                  seen, fault, wanted, fallen>>
  BY <1>1 DEF supVars
<1>3. server' \in [Generations -> ServerType] /\ server'[g] = s /\ \A h \in Generations \ {g} : server'[h] = server[h]
  BY <1>1 DEF Serves
<1>4. SupTypeOK'
  BY <1>2, <1>3 DEF SupInv, SupTypeOK, Serves, ServerType
<1>5. Owning'
  BY <1>1, <1>2, <1>3 DEF SupInv, Owning, Alive
<1>6. Counting' /\ Fallen'
  BY <1>2 DEF SupInv, Counting, Fallen
<1>7. Closing'
  <2>1. Acknowledged' => Acknowledged \/ Shut(s)
    BY <1>2 DEF Acknowledged, Serves
  <2>2. Acknowledged => Shut(server[g])
    BY <1>1 DEF SupInv, Closing, Present
  <2>3. Acknowledged' => Shut(server'[g])
    BY <1>3, <2>1, <2>2 DEF Serves
  <2>4. Present' = server'[g] /\ generation # 0
    BY <1>1, <1>2 DEF Present, SupInv, Owning
  <2> QED
    BY <1>2, <2>3, <2>4 DEF SupInv, Closing, Shut
<1> QED
  BY <1>4, <1>5, <1>6, <1>7 DEF SupInv

LEMMA ServerKeeps ==
  ASSUME SupInv, NEW g \in Generations, Server(g)
  PROVE  SupInv'
<1>1. /\ server \in [Generations -> ServerType] /\ server[g] \in ServerType
      /\ SupTypeOK /\ down \in Seq({"probe", "open", "close"}) /\ up \in Seq(Frames)
      /\ MaxJobs \in Nat \ {0}
  BY GenerationsAre, SupervisorAssumption DEF SupInv
<1>2. CASE Greet(g)
  <2> DEFINE s == [server[g] EXCEPT !.greeted = TRUE]
  <2>1. s \in ServerType /\ (Shut(server[g]) => Shut(s))
    BY <1>1 DEF ServerType, Shut
  <2>2. Alive(g) /\ server' = [server EXCEPT ![g] = s] /\ UNCHANGED <<supVars, down>> /\ Says("hello", server[g])
    BY <1>2 DEF Greet, Speaks, Becomes
  <2>3. /\ up' \in Seq(Frames)
        /\ \A i \in DOMAIN up' : up'[i].kind = "hello" \/ \E j \in DOMAIN up : up[j].kind = up'[i].kind
    BY <1>1, <2>2, Reported DEF Reports
  <2>4. Serves(g, s)
    BY <1>1, <2>1, <2>2, <2>3 DEF Serves
  <2> QED
    BY <2>4, ServesKeeps
<1>3. CASE Beat(g)
  <2>1. Alive(g) /\ UNCHANGED <<supVars, server, down>> /\ Says("beat", server[g])
    BY <1>3 DEF Beat, Speaks
  <2>2. /\ up' \in Seq(Frames)
        /\ \A i \in DOMAIN up' : up'[i].kind = "beat" \/ \E j \in DOMAIN up : up[j].kind = up'[i].kind
    BY <1>1, <2>1, Reported DEF Reports
  <2>3. server' = [server EXCEPT ![g] = server[g]]
    BY <1>1, <2>1
  <2>4. Serves(g, server[g])
    BY <1>1, <2>1, <2>2, <2>3 DEF Serves
  <2> QED
    BY <2>4, ServesKeeps
<1>4. CASE Obey(g)
  <2>1. PICK command : command = Head(down)
    OBVIOUS
  <2>2. PICK s : s = Obeyed(server[g], command)
    OBVIOUS
  <2>3. /\ Alive(g) /\ down # <<>> /\ server' = [server EXCEPT ![g] = s]
        /\ down' = Tail(down) /\ UNCHANGED supVars
        /\ \E kind \in Replies(server[g], command) : Says(kind, s)
    BY <1>4, <2>1, <2>2 DEF Obey, Speaks, Becomes
  <2>4. command \in {"probe", "open", "close"} /\ down' \in Seq({"probe", "open", "close"})
    BY <1>1, <2>1, <2>3, HeadTailProperties
  <2>5. s \in ServerType /\ (Shut(server[g]) => Shut(s)) /\ (command = "close" => Shut(s))
    <3>1. CASE command = "probe"
      BY <1>1, <2>2, <3>1 DEF Obeyed
    <3>2. CASE command = "open"
      BY <1>1, <2>2, <3>2 DEF Obeyed, ServerType, Shut
    <3>3. CASE command = "close"
      BY <1>1, <2>2, <3>3 DEF Obeyed, ServerType, Shut
    <3> QED
      BY <2>4, <3>1, <3>2, <3>3
  <2>6. PICK kind \in Replies(server[g], command) : Says(kind, s)
    BY <2>3
  <2>7. kind \in Reports /\ (kind = "closed" => command = "close")
    BY <2>4, <2>6 DEF Replies, Reports
  <2>8. /\ up' \in Seq(Frames)
        /\ \A i \in DOMAIN up' : up'[i].kind = kind \/ \E j \in DOMAIN up : up[j].kind = up'[i].kind
    BY <1>1, <2>5, <2>6, <2>7, Reported
  <2>9. Serves(g, s)
    BY <2>3, <2>4, <2>5, <2>7, <2>8 DEF Serves
  <2> QED
    BY <2>9, ServesKeeps
<1>5. CASE LeaseRunsOut(g) \/ Admit(g) \/ JobEnds(g) \/ CallerLeaves(g) \/ Exit(g)
  <2>1. PICK s : /\ Alive(g) /\ Becomes(g, s) /\ UNCHANGED <<supVars, down, up>>
                 /\ \/ s = [server[g] EXCEPT !.gate = "CLOSED"]
                    \/ /\ server[g].gate = "OPEN" /\ server[g].jobs < MaxJobs
                       /\ s = [server[g] EXCEPT !.jobs = @ + 1]
                    \/ /\ server[g].jobs > 0
                       /\ s = [server[g] EXCEPT !.jobs = @ - 1,
                                                !.abandoned = @ /\ server[g].jobs > 1]
                    \/ s = [server[g] EXCEPT !.abandoned = TRUE]
                    \/ s = [server[g] EXCEPT !.proc = "exited", !.gate = "CLOSED",
                                             !.jobs = 0, !.abandoned = FALSE]
    BY <1>5 DEF LeaseRunsOut, Admit, JobEnds, CallerLeaves, Exit
  <2>2. s \in ServerType /\ (Shut(server[g]) => Shut(s))
    <3>1. CASE s = [server[g] EXCEPT !.gate = "CLOSED"]
      BY <1>1, <3>1 DEF ServerType, Shut
    <3>2. CASE server[g].jobs < MaxJobs /\ s = [server[g] EXCEPT !.jobs = @ + 1]
      <4>1. PICK n : n = server[g].jobs + 1
        OBVIOUS
      <4>2. n \in 0..MaxJobs
        BY <1>1, <3>2, <4>1 DEF ServerType
      <4>3. s = [server[g] EXCEPT !.jobs = n]
        BY <1>1, <3>2, <4>1
      <4> QED
        BY <1>1, <4>2, <4>3, ServerChanges
    <3>3. CASE server[g].jobs > 0 /\ s = [server[g] EXCEPT !.jobs = @ - 1,
                                             !.abandoned = @ /\ server[g].jobs > 1]
      <4>1. PICK n : n = server[g].jobs - 1
        OBVIOUS
      <4>2. PICK b \in BOOLEAN : b = (server[g].abandoned /\ server[g].jobs > 1)
        OBVIOUS
      <4>3. n \in 0..MaxJobs
        BY <1>1, <3>3, <4>1 DEF ServerType
      <4>4. s = [server[g] EXCEPT !.jobs = n, !.abandoned = b]
        BY <1>1, <3>3, <4>1, <4>2
      <4> QED
        BY <1>1, <4>3, <4>4, ServerChanges
    <3>4. CASE s = [server[g] EXCEPT !.abandoned = TRUE]
      BY <1>1, <3>4 DEF ServerType, Shut
    <3>5. CASE s = [server[g] EXCEPT !.proc = "exited", !.gate = "CLOSED",
                                     !.jobs = 0, !.abandoned = FALSE]
      <4>1. 0 \in 0..MaxJobs
        BY <1>1
      <4> QED
        BY <1>1, <3>5, <4>1, ServerChanges
    <3> QED
      BY <2>1, <3>1, <3>2, <3>3, <3>4, <3>5
  <2>3. Serves(g, s)
    BY <1>1, <2>1, <2>2 DEF Serves, Becomes
  <2> QED
    BY <2>3, ServesKeeps
<1> QED
  BY <1>2, <1>3, <1>4, <1>5 DEF Server

-----------------------------------------------------------------------------
(* The supervisor's steps.                                                 *)

\* A decision leaves the server and what it has said as they are.
Decides ==
  /\ UNCHANGED <<server, up, generation>>
  /\ seen'.closed => seen.closed
  /\ owned' = owned

LEMMA StillOwns ==
  ASSUME SupInv, Decides
  PROVE  /\ \A g \in Generations : Alive(g)' => owned' /\ g = generation'
         /\ owned' => generation' # 0
         /\ Acknowledged' => generation' # 0 /\ Shut(Present)'
<1>1. Acknowledged' => Acknowledged
  BY DEF Acknowledged, Decides
<1> QED
  BY <1>1 DEF Decides, SupInv, Owning, Closing, Alive, Present, Shut

LEMMA CommandIsTyped ==
  ASSUME SupTypeOK, NEW kind \in {"probe", "open", "close"}, Command(kind)
  PROVE  down' \in Seq({"probe", "open", "close"})
BY DEF Command, SupTypeOK

LEMMA ReceiveChildKeeps ==
  ASSUME SupInv, ReceiveChild
  PROVE  SupInv'
<1>1. PICK f : f = Head(up)
  OBVIOUS
<1>2. /\ owned /\ up # <<>> /\ seen' = Heard(f) /\ up' = Tail(up)
      /\ fault' = (fault \/ f.kind = "fault")
      /\ UNCHANGED <<pc, goal, state, generation, attempts, owned, renew, residual,
                     wanted, fallen, server, down>>
  BY <1>1 DEF ReceiveChild
<1>3. up \in Seq(Frames) /\ Len(up) \in Nat /\ Len(up) > 0
  BY <1>2, GenerationsAre, EmptySeq DEF SupInv
<1>4. /\ f \in Frames /\ f = up[1] /\ 1 \in DOMAIN up /\ up' \in Seq(Frames)
      /\ \A i \in DOMAIN up' : \E j \in DOMAIN up : up'[i] = up[j]
  <2>1. /\ f \in Frames /\ up' \in Seq(Frames) /\ Len(up') = Len(up) - 1
        /\ \A i \in 1..Len(up') : up'[i] = up[i + 1]
    BY <1>1, <1>2, <1>3, HeadTailProperties
  <2>2. DOMAIN up = 1..Len(up) /\ DOMAIN up' = 1..Len(up')
    BY <1>3, <2>1, LenProperties
  <2>3. ASSUME NEW i \in DOMAIN up' PROVE \E j \in DOMAIN up : up'[i] = up[j]
    <3>1. i + 1 \in DOMAIN up /\ up'[i] = up[i + 1]
      BY <1>3, <2>1, <2>2
    <3> QED
      BY <3>1
  <2> QED
    BY <1>1, <1>3, <2>1, <2>2, <2>3
<1>5. /\ seen' \in [hello : BOOLEAN, beat : BOOLEAN, probe : {"none", "passed", "failed"},
                    opened : BOOLEAN, closed : BOOLEAN, snap : Snapshots]
      /\ seen'.closed => seen.closed \/ f.kind = "closed"
      /\ seen.closed => seen'.closed
  <2>1. seen \in [hello : BOOLEAN, beat : BOOLEAN, probe : {"none", "passed", "failed"},
                  opened : BOOLEAN, closed : BOOLEAN, snap : Snapshots]
    BY DEF SupInv, SupTypeOK
  <2>2. f.kind \in Reports /\ f.snap \in Snapshots
    BY <1>4 DEF Frames
  <2>3. CASE f.kind = "beat"
    <3>1. seen' = [seen EXCEPT !.beat = TRUE, !.snap = f.snap]
      BY <1>2, <2>3 DEF Heard
    <3>2. \A q \in [hello : BOOLEAN, beat : BOOLEAN, probe : {"none", "passed", "failed"},
                    opened : BOOLEAN, closed : BOOLEAN, snap : Snapshots], k \in Snapshots :
            /\ [q EXCEPT !.beat = TRUE, !.snap = k] \in
                 [hello : BOOLEAN, beat : BOOLEAN, probe : {"none", "passed", "failed"},
                  opened : BOOLEAN, closed : BOOLEAN, snap : Snapshots]
            /\ [q EXCEPT !.beat = TRUE, !.snap = k].closed = q.closed
      OBVIOUS
    <3> QED
      BY <2>1, <2>2, <3>1, <3>2
  <2>4. CASE f.kind # "beat"
    BY <1>2, <2>1, <2>2, <2>4 DEF Heard, Reports
  <2> QED
    BY <2>3, <2>4
<1>6. fault' \in BOOLEAN
  BY <1>2 DEF SupInv, SupTypeOK
<1>7. SupTypeOK'
  BY <1>2, <1>4, <1>5, <1>6 DEF SupInv, SupTypeOK
<1>8. Owning' /\ Counting' /\ Fallen'
  BY <1>2 DEF SupInv, Owning, Counting, Fallen, Alive
<1>9. Closing'
  <2>1. Acknowledged' => Acknowledged
    BY <1>4, <1>5 DEF Acknowledged
  <2> QED
    BY <1>2, <1>5, <2>1 DEF SupInv, Closing, Present, Shut
<1> QED
  BY <1>7, <1>8, <1>9 DEF SupInv

LEMMA HearingKeeps ==
  ASSUME SupInv, ControlFails \/ ReceiveParent \/ Degrade
  PROVE  SupInv'
<1>1. /\ UNCHANGED <<pc, goal, generation, attempts, owned, renew, residual, seen, fallen, procVars>>
      /\ state' \in {state, "READY", "DEGRADED"}
  BY DEF ControlFails, ReceiveParent, Degrade
<1>2. fault' \in BOOLEAN /\ wanted' \subseteq {"stop", "fail_closed"}
  BY DEF ControlFails, ReceiveParent, Degrade, SupInv, SupTypeOK
<1>3. SupTypeOK'
  BY <1>1, <1>2 DEF SupInv, SupTypeOK, procVars, States, Working
<1>4. Owning' /\ Counting' /\ Fallen'
  BY <1>1 DEF SupInv, Owning, Counting, Fallen, Alive, procVars
<1>5. Closing'
  BY <1>1 DEF SupInv, Closing, Acknowledged, Present, Shut, procVars
<1> QED
  BY <1>3, <1>4, <1>5 DEF SupInv

LEMMA SpawnKeeps ==
  ASSUME SupInv, Spawn
  PROVE  SupInv'
<1> DEFINE n == generation + 1
           s == [NoServer EXCEPT !.proc = "alive"]
<1>1. /\ pc = "spawn" /\ ~owned /\ generation' = n /\ server' = [server EXCEPT ![n] = s]
      /\ owned' = TRUE /\ renew' = TRUE /\ seen' = Unheard /\ fault' = FALSE
      /\ down' = <<>> /\ up' = <<>>
      /\ pc' = "hello" /\ goal' = goal /\ state' = "STARTING"
      /\ UNCHANGED <<attempts, residual, wanted, fallen>>
  BY DEF Spawn, GoTo
<1>2. /\ generation \in Nat /\ attempts \in Nat /\ attempts <= MaxRecoveries /\ generation <= attempts
      /\ server \in [Generations -> ServerType]
  BY <1>1, GenerationsAre DEF SupInv, Counting
<1>3. n \in Generations /\ n \in 0..(MaxRecoveries + 1) /\ n # 0 /\ n <= attempts + 1
  BY <1>2, SupervisorAssumption DEF Generations
<1>5. 0 \in 0..MaxJobs /\ MaxJobs \in 0..MaxJobs
  BY SupervisorAssumption
<1>6. s \in ServerType
  <2>1. NoServer \in ServerType
    BY <1>5 DEF NoServer, ServerType
  <2> QED
    BY <1>5, <2>1, ServerChanges
<1> HIDE DEF n, s
<1>7. server' \in [Generations -> ServerType] /\ \A h \in Generations \ {n} : server'[h] = server[h]
  BY <1>1, <1>2, <1>3, <1>6
<1>8. Unheard \in [hello : BOOLEAN, beat : BOOLEAN, probe : {"none", "passed", "failed"},
                   opened : BOOLEAN, closed : BOOLEAN, snap : Snapshots]
  BY <1>5 DEF Unheard, NoSnapshot, Snapshots
<1>9. SupTypeOK'
  <2>1. down' \in Seq({"probe", "open", "close"}) /\ up' \in Seq(Frames)
    BY <1>1, EmptySeq
  <2> QED
    BY <1>1, <1>3, <1>7, <1>8, <2>1, ZenonT(60) DEF SupInv, SupTypeOK, ServerType, Starting, States
<1>10. Owning'
  <2>1. \A h \in Generations : ~Alive(h)
    BY <1>1 DEF SupInv, Owning
  <2>2. \A h \in Generations : Alive(h)' => h = n
    BY <1>7, <2>1 DEF Alive
  <2> QED
    BY <1>1, <1>3, <2>2 DEF Owning
<1>11. Counting' /\ Fallen'
  BY <1>1, <1>3 DEF SupInv, Counting, Fallen, Retiring
<1>12. Closing'
  <2>1. ~Acknowledged'
    BY <1>1, EmptySeq DEF Acknowledged, Unheard
  <2> QED
    BY <1>1, <2>1 DEF Closing
<1> QED
  BY <1>9, <1>10, <1>11, <1>12 DEF SupInv

LEMMA SpawnFailsKeeps ==
  ASSUME SupInv, SpawnFails
  PROVE  SupInv'
<1>1. /\ pc = "spawn" /\ ~owned /\ generation' = generation + 1
      /\ seen' = Unheard /\ fault' = TRUE /\ down' = <<>> /\ up' = <<>>
      /\ renew' = FALSE /\ pc' = "idle" /\ goal' = "giveup" /\ state' = "UNAVAILABLE" /\ fallen' = TRUE
      /\ UNCHANGED <<attempts, owned, residual, wanted, server>>
  BY DEF SpawnFails, GiveUp, GoTo
<1>2. /\ generation \in Nat /\ attempts \in Nat /\ attempts <= MaxRecoveries /\ generation <= attempts
  BY <1>1, GenerationsAre DEF SupInv, Counting
<1>3. generation + 1 \in 0..(MaxRecoveries + 1) /\ generation + 1 <= attempts + 1
  BY <1>2, SupervisorAssumption
<1>4. Unheard \in [hello : BOOLEAN, beat : BOOLEAN, probe : {"none", "passed", "failed"},
                   opened : BOOLEAN, closed : BOOLEAN, snap : Snapshots]
  BY SupervisorAssumption DEF Unheard, NoSnapshot, Snapshots
<1>5. SupTypeOK'
  <2>1. down' \in Seq({"probe", "open", "close"}) /\ up' \in Seq(Frames)
    BY <1>1, EmptySeq
  <2> QED
    BY <1>1, <1>3, <1>4, <2>1 DEF SupInv, SupTypeOK, States
<1>6. Owning'
  BY <1>1 DEF SupInv, Owning, Alive, Starting, Retiring
<1>7. Counting' /\ Fallen'
  BY <1>1, <1>3 DEF SupInv, Counting, Fallen, Retiring
<1>8. Closing'
  <2>1. ~Acknowledged'
    BY <1>1, EmptySeq DEF Acknowledged, Unheard
  <2> QED
    BY <1>1, <2>1 DEF Closing
<1> QED
  BY <1>5, <1>6, <1>7, <1>8 DEF SupInv

LEMMA DecisionKeeps ==
  ASSUME SupInv,
         Start \/ Proceed \/ StartFails \/ Recover \/ ObeyFailure \/ ShutDown \/ AwaitAck
           \/ Drain \/ Terminate
  PROVE  SupInv'
<1>1. /\ UNCHANGED <<generation, owned, residual, seen, fault, server, up>>
      /\ renew' \in BOOLEAN /\ wanted' \subseteq {"stop", "fail_closed"} /\ fallen' \in BOOLEAN
  BY DEF SupInv, SupTypeOK, procVars,
     Start, Proceed, StartFails, Recover, ObeyFailure, ShutDown, AwaitAck, Drain, Terminate, GiveUp, Command
<1>2. down' \in Seq({"probe", "open", "close"})
  <2>1. CASE Proceed
    BY <2>1, CommandIsTyped, GenerationsAre DEF Proceed, SupInv
  <2>2. CASE ~Proceed
    BY <2>2, GenerationsAre DEF SupInv, procVars,
       Start, StartFails, Recover, ObeyFailure, ShutDown, AwaitAck, Drain, Terminate
  <2> QED
    BY <2>1, <2>2
<1>3. Decides
  BY <1>1 DEF Decides
<1>4. /\ \A g \in Generations : Alive(g)' => owned' /\ g = generation'
      /\ owned' => generation' # 0
      /\ Acknowledged' => generation' # 0 /\ Shut(Present)'
  BY <1>3, StillOwns
<1>5. generation \in Nat /\ attempts \in Nat /\ attempts \in 0..MaxRecoveries /\ MaxRecoveries \in Nat
  BY GenerationsAre, SupervisorAssumption DEF SupInv
<1>6. /\ attempts' \in 0..MaxRecoveries
      /\ attempts' = attempts \/ (Recover /\ attempts' = attempts + 1)
  BY <1>5 DEF Start, Proceed, StartFails, Recover, ObeyFailure, ShutDown, AwaitAck, Drain,
     Terminate, AttemptsLeft, Counted
<1>7. /\ pc' \in {"spawn", "watch", "idle", "stopped"} \cup Starting \cup Retiring
      /\ goal' \in {"start", "replace", "last", "giveup", "stop"}
      /\ state' \in States
  BY DEF SupInv, SupTypeOK, Starting, Retiring, States, Working, GoTo, GiveUp,
     Start, Proceed, StartFails, Recover, ObeyFailure, ShutDown, AwaitAck, Drain, Terminate
<1>8. SupTypeOK'
  BY <1>1, <1>2, <1>6, <1>7 DEF SupInv, SupTypeOK
<1>9. Owning'
  <2>1. /\ pc' \in Starting \cup Retiring \cup {"watch"} => owned
        /\ pc' \in {"idle", "stopped"} => ~owned
    BY DEF SupInv, Owning, Starting, Retiring, GoTo, GiveUp,
       Start, Proceed, StartFails, Recover, ObeyFailure, ShutDown, AwaitAck, Drain, Terminate
  <2> QED
    BY <1>1, <1>4, <2>1 DEF Owning
<1>10. Counting'
  <2>1. CASE Recover
    <3>1. /\ pc = "watch" /\ pc' = "close"
          /\ goal' = "replace" => attempts' = attempts + 1
      BY <2>1 DEF Recover, GoTo, Counted
    <3>2. generation <= attempts + 1 /\ attempts \in Nat /\ attempts' \in Nat
      BY <1>5, <1>6 DEF SupInv, Counting
    <3>3. attempts' = attempts \/ attempts' = attempts + 1
      BY <1>6
    <3>4. generation <= attempts' + 1
      <4>1. CASE attempts' = attempts
        BY <3>2, <4>1
      <4>2. CASE attempts' = attempts + 1
        <5>1. generation \in Nat
          BY <1>5
        <5> QED
          BY <3>2, <4>2, <5>1
      <4> QED
        BY <3>3, <4>1, <4>2
    <3>5. goal' = "replace" => generation <= attempts'
      BY <3>1, <3>2
    <3> QED
      BY <1>1, <3>1, <3>4, <3>5 DEF Counting
  <2>2. CASE ~Recover
    <3>1. /\ attempts' = attempts /\ pc' # "new"
          /\ pc' = "spawn" => pc = "new"
          /\ pc' \in Retiring /\ goal' = "replace" => pc \in Retiring /\ goal = "replace"
      BY <1>6, <2>2 DEF Starting, Retiring, GoTo, GiveUp,
         Start, Proceed, StartFails, ObeyFailure, ShutDown, AwaitAck, Drain, Terminate
    <3> QED
      BY <1>1, <3>1 DEF SupInv, Counting
  <2> QED
    BY <2>1, <2>2
<1>11. Fallen'
  BY DEF SupInv, Fallen, Starting, Retiring, GoTo, GiveUp,
     Start, Proceed, StartFails, Recover, ObeyFailure, ShutDown, AwaitAck, Drain, Terminate
<1>12. Closing'
  <2>1. /\ pc' = "drain" => seen.closed
        /\ state' = "DRAINING" => pc' = "drain"
    BY DEF SupInv, Closing, Acked, Starting, Retiring, GoTo, GiveUp,
       Start, Proceed, StartFails, Recover, ObeyFailure, ShutDown, AwaitAck, Drain, Terminate
  <2> QED
    BY <1>1, <1>4, <2>1 DEF Closing
<1> QED
  BY <1>8, <1>9, <1>10, <1>11, <1>12 DEF SupInv

LEMMA SendCloseKeeps ==
  ASSUME SupInv, SendClose
  PROVE  SupInv'
<1>1. /\ pc = "close" /\ pc' \in {"term", "acking"} /\ goal' = goal /\ state' \in {state, "RECOVERING"}
      /\ UNCHANGED <<generation, attempts, owned, renew, residual, fault, wanted, fallen, server, up>>
  BY DEF SendClose, GoTo
<1>2. /\ down' \in Seq({"probe", "open", "close"})
      /\ seen' \in [hello : BOOLEAN, beat : BOOLEAN, probe : {"none", "passed", "failed"},
                    opened : BOOLEAN, closed : BOOLEAN, snap : Snapshots]
      /\ seen'.closed => seen.closed
  BY GenerationsAre, CommandIsTyped DEF SendClose, SupInv, SupTypeOK
<1>3. Decides
  BY <1>1, <1>2 DEF Decides
<1>4. SupTypeOK'
  BY <1>1, <1>2 DEF SupInv, SupTypeOK, Retiring, States
<1>5. Owning' /\ Counting' /\ Fallen'
  BY <1>1, <1>3, StillOwns DEF SupInv, Owning, Counting, Fallen, Retiring
<1>6. Closing'
  BY <1>1, <1>3, StillOwns DEF SupInv, Closing
<1> QED
  BY <1>4, <1>5, <1>6 DEF SupInv

LEMMA ReapKeeps ==
  ASSUME SupInv, Reap
  PROVE  SupInv'
<1> DEFINE s == [Present EXCEPT !.proc = IF @ = "exited" THEN "gone" ELSE @]
<1>1. /\ pc = "kill" /\ owned /\ Present.proc # "alive"
      /\ server' = [server EXCEPT ![generation] = s]
      /\ owned' = FALSE /\ residual' = FALSE /\ seen' = Unheard
      /\ UNCHANGED <<generation, attempts, renew, wanted, down, up>>
  BY DEF Reap, Ended, Exited, Becomes
<1>2. PICK within \in BOOLEAN : Continue(within) /\ fault' = (fault \/ ~within)
  BY DEF Reap
<1>3. /\ generation # 0 /\ generation \in Generations /\ generation \in Nat
      /\ server \in [Generations -> ServerType] /\ Present \in ServerType
  BY <1>1, GenerationsAre DEF SupInv, Owning, Present
<1>4. s \in ServerType /\ s.proc # "alive" /\ s.latched = Present.latched /\ s.gate = Present.gate
  BY <1>1, <1>3 DEF ServerType
<1> HIDE DEF s
<1>5. /\ server' \in [Generations -> ServerType] /\ server'[generation] = s
      /\ \A h \in Generations \ {generation} : server'[h] = server[h]
  BY <1>1, <1>3, <1>4
<1>6. /\ pc' \in {"spawn", "idle", "stopped"} /\ goal' = goal
      /\ state' = IF pc' = "spawn" THEN state ELSE "UNAVAILABLE"
      /\ fallen' = (fallen \/ pc' # "spawn")
      /\ pc' = "spawn" => goal = "replace"
  BY <1>2 DEF Continue, Onward
<1>7. SupTypeOK'
  <2>1. Unheard \in [hello : BOOLEAN, beat : BOOLEAN, probe : {"none", "passed", "failed"},
                     opened : BOOLEAN, closed : BOOLEAN, snap : Snapshots]
    BY SupervisorAssumption DEF Unheard, NoSnapshot, Snapshots
  <2>2. fault' \in BOOLEAN /\ fallen' \in BOOLEAN /\ state' \in States
    BY <1>2, <1>6 DEF SupInv, SupTypeOK, States
  <2> QED
    BY <1>1, <1>5, <1>6, <2>1, <2>2, ZenonT(60) DEF SupInv, SupTypeOK, ServerType
<1>8. Owning'
  <2>1. \A h \in Generations : ~Alive(h)'
    BY <1>4, <1>5 DEF SupInv, Owning, Alive
  <2> QED
    BY <1>1, <1>6, <2>1 DEF Owning, Starting, Retiring
<1>9. Counting' /\ Fallen'
  BY <1>1, <1>6 DEF SupInv, Counting, Fallen, Retiring
<1>10. Closing'
  <2>1. Acknowledged' => Acknowledged
    BY <1>1 DEF Acknowledged, Unheard
  <2>2. Acknowledged' => Shut(server'[generation])
    BY <1>4, <1>5, <2>1 DEF SupInv, Closing, Shut
  <2>3. Present' = server'[generation]
    BY <1>1 DEF Present
  <2>4. state # "DRAINING"
    BY <1>1 DEF SupInv, Closing
  <2> QED
    BY <1>1, <1>3, <1>6, <2>2, <2>3, <2>4 DEF Closing, Shut
<1> QED
  BY <1>7, <1>8, <1>9, <1>10 DEF SupInv

LEMMA ReapFailsKeeps ==
  ASSUME SupInv, ReapFails
  PROVE  SupInv'
<1>1. /\ pc = "kill" /\ owned' = TRUE /\ residual' = TRUE /\ fault' = TRUE
      /\ UNCHANGED <<generation, attempts, renew, wanted, seen, server, down, up>>
  BY DEF ReapFails, Unaccounted, procVars
<1>2. /\ pc' \in {"idle", "stopped"} /\ goal' = goal /\ state' = "UNAVAILABLE" /\ fallen' = TRUE
  BY DEF ReapFails, Continue, Onward
<1>3. owned
  BY <1>1 DEF SupInv, Owning, Retiring
<1>4. SupTypeOK'
  BY <1>1, <1>2 DEF SupInv, SupTypeOK, States
<1>5. Decides
  BY <1>1, <1>3 DEF Decides
<1>6. Owning' /\ Counting' /\ Fallen' /\ Closing'
  BY <1>1, <1>2, <1>5, StillOwns DEF SupInv, Owning, Counting, Fallen, Closing, Starting, Retiring
<1> QED
  BY <1>4, <1>6 DEF SupInv

-----------------------------------------------------------------------------
(* The theorems.                                                           *)

LEMMA SupBeginnings == SupInit => SupInv
<1> SUFFICES ASSUME SupInit PROVE SupInv
  OBVIOUS
<1> USE SupervisorAssumption
<1>1. \A g \in Generations : server[g] = NoServer
  BY DEF SupInit
<1>2. NoServer \in ServerType /\ NoServer.proc = "none"
  BY DEF NoServer, ServerType
<1>3. Unheard \in [hello : BOOLEAN, beat : BOOLEAN, probe : {"none", "passed", "failed"},
                   opened : BOOLEAN, closed : BOOLEAN, snap : Snapshots] /\ ~Unheard.closed
  BY DEF Unheard, NoSnapshot, Snapshots
<1>4. SupTypeOK
  <2>1. down \in Seq({"probe", "open", "close"}) /\ up \in Seq(Frames)
    BY EmptySeq DEF SupInit
  <2>2. server \in [Generations -> ServerType]
    BY <1>2 DEF SupInit
  <2>3. 0 \in 0..MaxRecoveries /\ 0 \in 0..(MaxRecoveries + 1)
    OBVIOUS
  <2>4. /\ pc \in {"new", "spawn", "watch", "idle", "stopped"} \cup Starting \cup Retiring
        /\ goal \in {"start", "replace", "last", "giveup", "stop"} /\ state \in States
        /\ generation \in 0..(MaxRecoveries + 1) /\ attempts \in 0..MaxRecoveries
        /\ owned \in BOOLEAN /\ renew \in BOOLEAN /\ residual \in BOOLEAN
        /\ fault \in BOOLEAN /\ wanted \subseteq {"stop", "fail_closed"} /\ fallen \in BOOLEAN
    BY <2>3 DEF SupInit, States
  <2>5. seen = Unheard
    BY DEF SupInit
  <2> QED
    BY <1>3, <2>1, <2>2, <2>4, <2>5 DEF SupTypeOK, ServerType
<1>5. Owning /\ Counting /\ Fallen
  BY <1>1, <1>2 DEF SupInit, Owning, Counting, Fallen, Alive, Starting, Retiring
<1>6. Closing
  <2>1. ~Acknowledged
    BY <1>3, EmptySeq DEF SupInit, Acknowledged
  <2> QED
    BY <2>1 DEF SupInit, Closing
<1> QED
  BY <1>4, <1>5, <1>6 DEF SupInv

LEMMA SupStep ==
  ASSUME SupInv, [SupNext]_vars
  PROVE  SupInv'
<1>1. CASE \E g \in Generations : Server(g)
  BY <1>1, ServerKeeps
<1>2. CASE ReceiveChild \/ ControlFails \/ ReceiveParent \/ Degrade \/ Recover
  BY <1>2, ReceiveChildKeeps, HearingKeeps, DecisionKeeps
<1>3. CASE Attend
  BY <1>3, SpawnKeeps, SpawnFailsKeeps, DecisionKeeps, SendCloseKeeps, ReapKeeps, ReapFailsKeeps
     DEF Attend, Retire
<1>4. CASE UNCHANGED vars
  BY <1>4 DEF vars, supVars, procVars, SupInv, SupTypeOK, Owning, Counting, Closing, Fallen,
     Acknowledged, Alive, Present, Shut
<1> QED
  BY <1>1, <1>2, <1>3, <1>4 DEF SupNext

THEOREM SupSound == SupSpec => []SupInv
<1> QED
  BY SupBeginnings, SupStep, PTL DEF SupSpec

\* Every variable keeps its type: with it, that no more than MaxRecoveries
\* servers are started after the first.
THEOREM SupTyped == SupSpec => []SupTypeOK
<1>1. SupInv => SupTypeOK
  BY DEF SupInv
<1> QED
  BY <1>1, SupSound, PTL

\* Never two servers at once, nothing admitted by one that is shown DRAINING,
\* and no process left behind in silence.
THEOREM HandoverSafe == SupSpec => []HandoverIsSafe
<1>1. SupInv => HandoverIsSafe
  BY DEF SupInv, Owning, Closing, Acknowledged, HandoverIsSafe, OneServer, DrainingIsClosed,
     LeftoverIsDeclared, Shut
<1> QED
  BY <1>1, SupSound, PTL

\* After UNAVAILABLE no server is ever started again, and each start after the
\* first is one of the attempts that were counted.
THEOREM NeverRearmed == SupSpec => NoRearm
<1>1. SupInv /\ [SupNext]_vars =>
        [/\ fallen => generation' = generation
         /\ generation' <= attempts' + 1]_vars
  <2> SUFFICES ASSUME SupInv, SupNext
               PROVE  /\ fallen => generation' = generation
                      /\ generation' <= attempts' + 1
    OBVIOUS
  <2>1. generation' <= attempts' + 1
    BY SupStep DEF SupInv, Counting
  <2>2. ASSUME generation' # generation PROVE ~fallen
    <3>1. Spawn \/ SpawnFails
      BY <2>2 DEF SupNext, Server, Greet, Beat, Obey, LeaseRunsOut, Admit, JobEnds, CallerLeaves,
         Exit, ReceiveChild, ControlFails, ReceiveParent, Degrade, Recover, Attend, Start, Proceed,
         StartFails, ObeyFailure, ShutDown, Retire, SendClose, AwaitAck, Drain, Terminate, Reap,
         ReapFails, supVars
    <3>2. pc = "spawn"
      BY <3>1 DEF Spawn, SpawnFails
    <3> QED
      BY <3>2 DEF SupInv, Fallen, Retiring
  <2> QED
    BY <2>1, <2>2
<1> QED
  BY <1>1, SupSound, PTL DEF SupSpec, NoRearm

-----------------------------------------------------------------------------
(* QueryWorker: a slot is kept by every call that may leave something      *)
(* behind, and a completed answer is one of a child that ended well.       *)

\* The exchange is over, but for the joining of what it started.
Leaving == {"joining", "closing", "done"}

\* What is true of a call at every moment: without a slot it has no child, no
\* task and no guard; while its caller waits, a good result is one that
\* nothing can spoil any more; and it completes by giving its slot back.
CallSound(c) ==
  /\ c.at = "new" => c = Fresh
  /\ c.at = "admitted" => /\ c.slot /\ c.answer = "none" /\ c.child = "none"
                          /\ c.task = "none" /\ c.guard = "none"
  /\ c.at \in {"waiting", "draining", "forcing"} => c.slot
  /\ c.at = "waiting" => c.answer = "none"
  /\ c.at \in {"draining", "forcing"} => c.answer \in {"error", "cancelled"}
  /\ ~c.slot => c.child # "alive" /\ c.task = "none" /\ c.guard = "none"
  /\ c.task \in Leaving => c.closing
  /\ c.at = "waiting" /\ c.task \in Leaving /\ c.result = "ok" =>
       c.child = "clean" /\ ~c.cancelled /\ ~c.errors
  /\ c.answer = "completed" =>
       ~c.slot /\ c.at = "ended" /\ c.child = "clean" /\ ~c.cancelled /\ ~c.errors

SlotsAddUp == free + Cardinality({w \in Calls : call[w].slot}) = Slots

WorkerInv == WorkerTypeOK /\ SlotsAddUp /\ \A w \in Calls : CallSound(call[w])

\* A step turns one call into another, and takes or gives a slot with it.
CallBecomes(w, c) ==
  /\ c \in CallType /\ CallSound(c) /\ call' = [call EXCEPT ![w] = c]
  /\ \/ c.slot = call[w].slot /\ free' = free
     \/ c.slot /\ ~call[w].slot /\ free > 0 /\ free' = free - 1
     \/ ~c.slot /\ call[w].slot /\ free' = free + 1

LEMMA SlotsOneMore ==
  ASSUME NEW S, NEW w, IsFiniteSet(S)
  PROVE  /\ w \notin S => Cardinality(S \cup {w}) = Cardinality(S) + 1
         /\ w \in S => /\ Cardinality(S \ {w}) = Cardinality(S) - 1
                       /\ Cardinality(S) > 0
         /\ Cardinality(S) \in Nat
<1>1. Cardinality(S) \in Nat
  BY FS_CardinalityType
<1>2. w \notin S => Cardinality(S \cup {w}) = Cardinality(S) + 1
  BY FS_AddElement
<1>3. ASSUME w \in S
      PROVE  Cardinality(S \ {w}) = Cardinality(S) - 1 /\ Cardinality(S) > 0
  <2>1. Cardinality(S \ {w}) = Cardinality(S) - 1
    BY <1>3, FS_RemoveElement
  <2>2. Cardinality(S \ {w}) \in Nat
    BY <1>3, FS_RemoveElement, FS_CardinalityType
  <2> QED
    BY <1>1, <2>1, <2>2
<1> QED
  BY <1>1, <1>2, <1>3

LEMMA CallKeeps ==
  ASSUME WorkerInv, NEW w \in Calls, NEW c, CallBecomes(w, c)
  PROVE  WorkerInv'
<1> DEFINE S == {v \in Calls : call[v].slot}
           T == {v \in Calls : call'[v].slot}
<1>1. /\ call \in [Calls -> CallType] /\ free \in 0..Slots /\ Slots \in Nat
      /\ free + Cardinality(S) = Slots
  BY WorkerAssumption DEF WorkerInv, WorkerTypeOK, SlotsAddUp
<1>2. /\ call' \in [Calls -> CallType] /\ call'[w] = c
      /\ \A v \in Calls : v # w => call'[v] = call[v]
  BY <1>1 DEF CallBecomes
<1>3. \A v \in Calls : CallSound(call'[v])
  BY <1>2 DEF WorkerInv, CallBecomes
<1>4. IsFiniteSet(S)
  <2>1. S \subseteq Calls
    OBVIOUS
  <2> QED
    BY <2>1, WorkerAssumption, FS_Subset
<1>5. free' + Cardinality(T) = Slots /\ free' \in 0..Slots
  <2>1. CASE c.slot = call[w].slot /\ free' = free
    <3>1. T = S
      BY <1>2, <2>1
    <3> QED
      BY <1>1, <2>1, <3>1
  <2>2. CASE c.slot /\ ~call[w].slot /\ free > 0 /\ free' = free - 1
    <3>1. T = S \cup {w} /\ w \notin S
      BY <1>2, <2>2
    <3> HIDE DEF S, T
    <3>2. Cardinality(T) = Cardinality(S) + 1 /\ Cardinality(S) \in Nat
      BY <1>4, <3>1, SlotsOneMore
    <3> QED
      BY <1>1, <2>2, <3>2
  <2>3. CASE ~c.slot /\ call[w].slot /\ free' = free + 1
    <3>1. T = S \ {w} /\ w \in S
      BY <1>2, <2>3
    <3> HIDE DEF S, T
    <3>2. Cardinality(T) = Cardinality(S) - 1 /\ Cardinality(S) \in Nat /\ Cardinality(S) > 0
      BY <1>4, <3>1, SlotsOneMore
    <3> QED
      BY <1>1, <2>3, <3>2
  <2> QED
    BY <2>1, <2>2, <2>3 DEF CallBecomes
<1> QED
  BY <1>2, <1>3, <1>5 DEF WorkerInv, WorkerTypeOK, SlotsAddUp

LEMMA EndedIsTyped ==
  ASSUME NEW c \in CallType,
         NEW answer \in {"none", "refused", "busy", "completed", "error", "cancelled"}
  PROVE  [c EXCEPT !.at = "ended", !.answer = answer] \in CallType
BY ZenonT(60) DEF CallType

LEMMA RemainsAreTyped ==
  ASSUME NEW c \in CallType, NEW child \in {"none", "alive", "clean", "failed"},
         NEW b \in BOOLEAN, NEW e \in BOOLEAN
  PROVE  [c EXCEPT !.child = child, !.cancelled = b, !.errors = e] \in CallType
BY Zenon DEF CallType

\* What the steps build a call with.
LEMMA CallParts ==
  ASSUME NEW c \in CallType
  PROVE  /\ Cancel(c) \in CallType
         /\ \A result \in {"ok", "failed"} : Leave(c, result) \in CallType
         /\ \A answer \in {"none", "refused", "busy", "completed", "error", "cancelled"} :
              Over(c, answer) \in CallType
         /\ Fresh \in CallType
<1>1. Fresh \in CallType
  BY DEF Fresh, CallType, Work, Late
<1>2. Cancel(c) \in CallType
  <2>1. PICK hit \in BOOLEAN :
          Cancel(c) = [c EXCEPT !.cancelled = TRUE, !.closing = TRUE, !.hit = hit]
    BY DEF Cancel, CallType
  <2> QED
    BY <2>1, ZenonT(60) DEF CallType
<1>3. ASSUME NEW result \in {"ok", "failed"} PROVE Leave(c, result) \in CallType
  <2> DEFINE p == [c EXCEPT !.task = "joining", !.result = result, !.closing = TRUE]
  <2>1. PICK left \in BOOLEAN, guard \in {"none", "watch", "grace", "term", "kill", "done"} :
          Leave(c, result) = [p EXCEPT !.left = left, !.guard = guard]
    BY DEF Leave, CallType
  <2>2. p \in CallType
    BY ZenonT(60) DEF CallType
  <2> HIDE DEF p
  <2>3. [p EXCEPT !.left = left, !.guard = guard] \in CallType
    BY <2>2, ZenonT(60) DEF CallType
  <2> QED
    BY <2>1, <2>3
<1>4. ASSUME NEW answer \in {"none", "refused", "busy", "completed", "error", "cancelled"}
      PROVE  Over(c, answer) \in CallType
  <2>1. /\ c.child \in {"none", "alive", "clean", "failed"}
        /\ c.cancelled \in BOOLEAN /\ c.errors \in BOOLEAN
    BY DEF CallType
  <2> DEFINE p == [Fresh EXCEPT !.at = "ended", !.answer = answer]
  <2>2. Over(c, answer) = [p EXCEPT !.child = c.child, !.cancelled = c.cancelled,
                                    !.errors = c.errors]
    BY Zenon DEF Over
  <2>3. p \in CallType
    BY <1>1, EndedIsTyped
  <2> HIDE DEF p
  <2>4. [p EXCEPT !.child = c.child, !.cancelled = c.cancelled, !.errors = c.errors] \in CallType
    BY <2>1, <2>3, RemainsAreTyped
  <2> QED
    BY <2>2, <2>4
<1> QED
  BY <1>1, <1>2, <1>3, <1>4

LEMMA FinishKeeps ==
  ASSUME WorkerInv, NEW w \in Calls, NEW answer \in {"completed", "error", "cancelled"},
         Finish(w, answer), call[w].at \notin {"new", "ended"},
         answer = "completed" =>
           /\ call[w].child = "clean" /\ call[w].task = "done"
           /\ ~call[w].cancelled /\ ~call[w].errors
  PROVE  WorkerInv'
<1> DEFINE q == call[w]
<1>1. q \in CallType /\ CallSound(q) /\ q.slot
  BY DEF WorkerInv, WorkerTypeOK, CallSound, CallType
<1>2. CASE Reaped(q) /\ Finished(q)
  <2>1. free' = free + 1 /\ call' = [call EXCEPT ![w] = Over(q, answer)]
    BY <1>2 DEF Finish, C
  <2>2. Over(q, answer) \in CallType
    BY <1>1, CallParts
  <2>3. CallSound(Over(q, answer)) /\ ~Over(q, answer).slot
    BY <1>1, <1>2 DEF Over, Fresh, CallSound, CallType, Reaped, Leaving
  <2>4. CallBecomes(w, Over(q, answer))
    BY <1>1, <2>1, <2>2, <2>3 DEF CallBecomes
  <2> QED
    BY <2>4, CallKeeps
<1>3. CASE ~(Reaped(q) /\ Finished(q))
  <2> DEFINE c == [q EXCEPT !.at = "ended", !.answer = answer]
  <2>1. free' = free /\ call' = [call EXCEPT ![w] = c]
    BY <1>3 DEF Finish, C, Set
  <2>2. answer # "completed"
    BY <1>3 DEF Reaped, Finished
  <2>3. c \in CallType /\ CallSound(c) /\ c.slot = q.slot
    <3>1. c \in CallType
      BY <1>1, <2>2, Zenon DEF CallType
    <3>2. CallSound(c) /\ c.slot = q.slot
      BY <1>1, <2>2 DEF CallType, CallSound, Leaving
    <3> QED
      BY <3>1, <3>2
  <2>4. CallBecomes(w, c)
    BY <2>1, <2>3 DEF CallBecomes
  <2> QED
    BY <2>4, CallKeeps
<1> QED
  BY <1>2, <1>3

\* A step that sets a call, its slot left alone.
LEMMA SetKeeps ==
  ASSUME WorkerInv, NEW w \in Calls, NEW c, Set(w, c), c \in CallType, CallSound(c),
         c.slot = call[w].slot
  PROVE  WorkerInv'
BY CallKeeps DEF CallBecomes, Set

LEMMA CallerKeeps ==
  ASSUME WorkerInv, NEW w \in Calls, Caller(w) \/ CallerTimesOut(w) \/ CallerCancelled(w)
  PROVE  WorkerInv'
<1> DEFINE q == call[w]
<1>1. /\ q \in CallType /\ CallSound(q)
      /\ free \in 0..Slots /\ Slots \in Nat
  BY WorkerAssumption DEF WorkerInv, WorkerTypeOK
<1>2. CASE Refuse(w) \/ Busy(w)
  <2>1. PICK answer \in {"refused", "busy"} :
          q.at = "new" /\ Set(w, [q EXCEPT !.at = "ended", !.answer = answer])
    BY <1>2 DEF Refuse, Busy, C
  <2> DEFINE c == [q EXCEPT !.at = "ended", !.answer = answer]
  <2>2. c \in CallType /\ CallSound(c) /\ c.slot = q.slot
    BY <1>1, <2>1, ZenonT(60) DEF CallType, CallSound, Leaving, Fresh
  <2> QED
    BY <2>1, <2>2, SetKeeps
<1>3. CASE TakeSlot(w)
  <2> DEFINE c == [q EXCEPT !.at = "admitted", !.slot = TRUE]
  <2>1. q.at = "new" /\ free > 0 /\ free' = free - 1 /\ call' = [call EXCEPT ![w] = c]
    BY <1>3 DEF TakeSlot, C
  <2>2. c \in CallType /\ CallSound(c) /\ c.slot /\ ~q.slot
    <3>1. c \in CallType
      BY <1>1, <2>1, Zenon DEF CallType
    <3>2. CallSound(c) /\ c.slot /\ ~q.slot
      BY <1>1, <2>1 DEF CallType, CallSound, Leaving, Fresh
    <3> QED
      BY <3>1, <3>2
  <2>3. CallBecomes(w, c)
    BY <2>1, <2>2 DEF CallBecomes
  <2> QED
    BY <2>3, CallKeeps
<1>4. CASE PrepareFails(w)
  BY <1>4, FinishKeeps DEF PrepareFails, C
<1>5. CASE StartTask(w)
  <2> DEFINE c == [q EXCEPT !.at = "waiting", !.task = "starting", !.guard = "watch"]
  <2>1. q.at = "admitted" /\ Set(w, c)
    BY <1>5 DEF StartTask, C
  <2>2. c \in CallType /\ CallSound(c) /\ c.slot = q.slot
    BY <1>1, <2>1 DEF CallType, CallSound, Leaving
  <2> QED
    BY <2>1, <2>2, SetKeeps
<1>6. CASE GetResult(w)
  <2>1. q.at = "waiting" /\ q.task = "done" /\ Finish(w, Answer(q))
    BY <1>6 DEF GetResult, C
  <2>2. Answer(q) = "completed" => q.child = "clean" /\ ~q.cancelled /\ ~q.errors
    BY <1>1, <2>1 DEF Answer, CallSound, Leaving
  <2>3. Answer(q) \in {"completed", "error"}
    BY DEF Answer
  <2> QED
    BY <2>1, <2>2, <2>3, FinishKeeps
<1>7. CASE Drained(w) \/ DrainGivesUp(w)
  <2>1. /\ q.at \in {"draining", "forcing"}
        /\ Finish(w, q.answer) \/ Finish(w, "error")
    BY <1>7 DEF Drained, DrainGivesUp, C
  <2>2. q.answer \in {"error", "cancelled"}
    BY <1>1, <2>1 DEF CallSound
  <2> QED
    BY <2>1, <2>2, FinishKeeps
<1>8. CASE DrainForces(w)
  <2> DEFINE c == [q EXCEPT !.at = "forcing"]
  <2>1. q.at = "draining" /\ Set(w, c)
    BY <1>8 DEF DrainForces, C
  <2>2. c \in CallType /\ CallSound(c) /\ c.slot = q.slot
    BY <1>1, <2>1 DEF CallType, CallSound, Leaving
  <2> QED
    BY <2>1, <2>2, SetKeeps
<1>9. CASE CallerTimesOut(w) \/ CallerCancelled(w)
  <2>1. PICK answer \in {"error", "cancelled"} : DrainOwner(w, answer)
    BY <1>9 DEF CallerTimesOut, CallerCancelled
  <2> DEFINE c == [Cancel(q) EXCEPT !.at = "draining", !.answer = answer]
  <2>2. q.at = "waiting" /\ Set(w, c)
    BY <2>1 DEF DrainOwner, C
  <2>3. c \in CallType /\ c.slot = q.slot
    <3>1. Cancel(q) \in CallType
      BY <1>1, CallParts
    <3>2. ASSUME NEW p \in CallType PROVE [p EXCEPT !.at = "draining", !.answer = answer] \in CallType
      BY Zenon DEF CallType
    <3>3. c.slot = q.slot
      BY <1>1 DEF CallType, Cancel
    <3> QED
      BY <3>1, <3>2, <3>3
  <2>4. CallSound(c)
    BY <1>1, <2>2 DEF CallType, CallSound, Leaving, Cancel
  <2> QED
    BY <2>2, <2>3, <2>4, SetKeeps
<1> QED
  BY <1>2, <1>3, <1>4, <1>5, <1>6, <1>7, <1>8, <1>9 DEF Caller

LEMMA ExchangeKeeps ==
  ASSUME WorkerInv, NEW w \in Calls, Exchange(w)
  PROVE  WorkerInv'
<1> DEFINE q == call[w]
<1>1. q \in CallType /\ CallSound(q)
  BY DEF WorkerInv, WorkerTypeOK
<1>2. CASE Attach(w)
  <2>1. PICK b \in BOOLEAN : /\ q.task = "starting"
                             /\ Set(w, [q EXCEPT !.child = "alive", !.ready = TRUE, !.closing = b])
    BY <1>1, <1>2 DEF Attach, C, CallType
  <2> DEFINE c == [q EXCEPT !.child = "alive", !.ready = TRUE, !.closing = b]
  <2>2. c \in CallType /\ CallSound(c) /\ c.slot = q.slot
    <3>1. c \in CallType
      BY <1>1, <2>1, Zenon DEF CallType
    <3>2. CallSound(c) /\ c.slot = q.slot
      BY <1>1, <2>1 DEF CallType, CallSound, Leaving, Fresh
    <3> QED
      BY <3>1, <3>2
  <2> QED
    BY <2>1, <2>2, SetKeeps
<1>3. CASE ExchangeFails(w) \/ LeaveContext(w)
  <2>1. PICK result \in {"ok", "failed"} :
          /\ q.task \in {"starting", "cleanup"} /\ Set(w, Leave(q, result))
          /\ result = "ok" => Clean(q)
    BY <1>3 DEF ExchangeFails, LeaveContext, C
  <2> DEFINE c == Leave(q, result)
  <2>2. c \in CallType /\ c.slot = q.slot
    <3>1. c.slot = q.slot
      BY <1>1 DEF CallType, Leave
    <3> QED
      BY <1>1, <3>1, CallParts
  <2>3. CallSound(c)
    BY <1>1, <2>1 DEF CallType, CallSound, Leaving, Leave, Fresh, Clean
  <2> QED
    BY <2>1, <2>2, <2>3, SetKeeps
<1>4. CASE EnterProtocol(w) \/ CloseChild(w)
  <2>1. PICK task \in {"protocol", "done"} :
          /\ q.task # "none" /\ Set(w, [q EXCEPT !.task = task])
          /\ task = "done" => q.task = "closing"
    BY <1>4 DEF EnterProtocol, CloseChild, C
  <2> DEFINE c == [q EXCEPT !.task = task]
  <2>2. c \in CallType /\ CallSound(c) /\ c.slot = q.slot
    BY <1>1, <2>1 DEF CallType, CallSound, Leaving, Fresh
  <2> QED
    BY <2>1, <2>2, SetKeeps
<1>5. CASE OperationEnds(w)
  <2>1. PICK ok \in BOOLEAN :
          /\ q.task = "protocol"
          /\ Set(w, [q EXCEPT !.task = "cleanup", !.closing = TRUE, !.stdin = FALSE,
                              !.result = Verdict(q, ok)])
    BY <1>5 DEF OperationEnds, C
  <2> DEFINE c == [q EXCEPT !.task = "cleanup", !.closing = TRUE, !.stdin = FALSE,
                            !.result = Verdict(q, ok)]
  <2>2. Verdict(q, ok) \in {"ok", "failed"}
    BY DEF Verdict
  <2>3. c \in CallType /\ CallSound(c) /\ c.slot = q.slot
    <3>1. c \in CallType
      BY <1>1, <2>1, <2>2, Zenon DEF CallType
    <3>2. CallSound(c) /\ c.slot = q.slot
      BY <1>1, <2>1, <2>2 DEF CallType, CallSound, Leaving, Fresh
    <3> QED
      BY <3>1, <3>2
  <2> QED
    BY <2>1, <2>3, SetKeeps
<1>6. CASE Join(w)
  <2>1. PICK task \in {"closing", "done"}, stdin \in BOOLEAN :
          /\ q.task = "joining"
          /\ Set(w, [q EXCEPT !.task = task, !.stdin = stdin])
    BY <1>1, <1>6 DEF Join, C, CallType
  <2> DEFINE c == [q EXCEPT !.task = task, !.stdin = stdin]
  <2>2. c \in CallType /\ CallSound(c) /\ c.slot = q.slot
    <3>1. c \in CallType
      BY <1>1, <2>1, Zenon DEF CallType
    <3>2. CallSound(c) /\ c.slot = q.slot
      BY <1>1, <2>1 DEF CallType, CallSound, Leaving, Fresh
    <3> QED
      BY <3>1, <3>2
  <2> QED
    BY <2>1, <2>2, SetKeeps
<1> QED
  BY <1>2, <1>3, <1>4, <1>5, <1>6 DEF Exchange

LEMMA GuardKeeps ==
  ASSUME WorkerInv, NEW w \in Calls, Guard(w)
  PROVE  WorkerInv'
<1> DEFINE q == call[w]
<1>1. q \in CallType /\ CallSound(q)
  BY DEF WorkerInv, WorkerTypeOK
<1>2. CASE GuardLeaves(w) \/ GuardSees(w) \/ GuardForces(w)
  <2>1. PICK guard \in {"term", "kill", "done"} :
          q.guard # "none" /\ Set(w, [q EXCEPT !.guard = guard])
    BY <1>2 DEF GuardLeaves, GuardSees, GuardForces, C
  <2> DEFINE c == [q EXCEPT !.guard = guard]
  <2>2. c \in CallType /\ CallSound(c) /\ c.slot = q.slot
    BY <1>1, <2>1 DEF CallType, CallSound, Leaving, Fresh
  <2> QED
    BY <2>1, <2>2, SetKeeps
<1>3. CASE GuardCloses(w) /\ q.closing
  <2> DEFINE c == [q EXCEPT !.guard = "grace", !.stdin = FALSE]
  <2>1. q.guard = "watch" /\ Set(w, c)
    BY <1>3 DEF GuardCloses, C
  <2>2. c \in CallType /\ CallSound(c) /\ c.slot = q.slot
    <3>1. c \in CallType
      BY <1>1, <2>1, Zenon DEF CallType
    <3>2. CallSound(c) /\ c.slot = q.slot
      BY <1>1, <2>1 DEF CallType, CallSound, Leaving, Fresh
    <3> QED
      BY <3>1, <3>2
  <2> QED
    BY <2>1, <2>2, SetKeeps
<1>4. CASE GuardCloses(w) /\ ~q.closing
  <2> DEFINE c == [Cancel(q) EXCEPT !.guard = "grace", !.stdin = FALSE]
  <2>1. q.guard = "watch" /\ Set(w, c)
    BY <1>4 DEF GuardCloses, C
  <2>2. c \in CallType /\ c.slot = q.slot
    <3>1. Cancel(q) \in CallType
      BY <1>1, CallParts
    <3>2. ASSUME NEW p \in CallType PROVE [p EXCEPT !.guard = "grace", !.stdin = FALSE] \in CallType
      BY Zenon DEF CallType
    <3>3. c.slot = q.slot
      BY <1>1 DEF CallType, Cancel
    <3> QED
      BY <3>1, <3>2, <3>3
  <2>3. CallSound(c)
    BY <1>1, <1>4, <2>1 DEF CallType, CallSound, Leaving, Fresh, Cancel
  <2> QED
    BY <2>1, <2>2, <2>3, SetKeeps
<1>5. CASE GuardGivesUp(w)
  <2> DEFINE c == [q EXCEPT !.guard = "done", !.errors = TRUE]
  <2>1. q.guard = "kill" /\ q.child = "alive" /\ Set(w, c)
    BY <1>5 DEF GuardGivesUp, C, Reaped
  <2>2. c \in CallType /\ CallSound(c) /\ c.slot = q.slot
    <3>1. c \in CallType
      BY <1>1, <2>1, Zenon DEF CallType
    <3>2. CallSound(c) /\ c.slot = q.slot
      BY <1>1, <2>1 DEF CallType, CallSound, Leaving, Fresh
    <3> QED
      BY <3>1, <3>2
  <2> QED
    BY <2>1, <2>2, SetKeeps
<1> QED
  BY <1>2, <1>3, <1>4, <1>5 DEF Guard

LEMMA ChildAndTimeKeep ==
  ASSUME WorkerInv, NEW w \in Calls, ChildEnds(w) \/ ChildFails(w) \/ Tick(w)
  PROVE  WorkerInv'
<1> DEFINE q == call[w]
<1>1. q \in CallType /\ CallSound(q)
  BY DEF WorkerInv, WorkerTypeOK
<1>2. CASE ChildEnds(w) \/ ChildFails(w)
  <2>1. PICK child \in {"clean", "failed"} :
          q.child = "alive" /\ Set(w, [q EXCEPT !.child = child])
    BY <1>2 DEF ChildEnds, ChildFails, C
  <2> DEFINE c == [q EXCEPT !.child = child]
  <2>2. c \in CallType /\ CallSound(c) /\ c.slot = q.slot
    BY <1>1, <2>1 DEF CallType, CallSound, Leaving, Fresh
  <2> QED
    BY <2>1, <2>2, SetKeeps
<1>3. CASE Tick(w)
  <2>1. PICK n \in Work..Late : q.at # "new" /\ Set(w, [q EXCEPT !.clock = n])
    BY <1>1, <1>3 DEF Tick, Running, C, CallType, Work, Late
  <2> DEFINE c == [q EXCEPT !.clock = n]
  <2>2. c \in CallType /\ CallSound(c) /\ c.slot = q.slot
    BY <1>1, <2>1 DEF CallType, CallSound, Leaving
  <2> QED
    BY <2>1, <2>2, SetKeeps
<1> QED
  BY <1>2, <1>3

LEMMA WorkerBeginnings == WorkerInit => WorkerInv
<1> SUFFICES ASSUME WorkerInit PROVE WorkerInv
  OBVIOUS
<1>1. Fresh \in CallType /\ CallSound(Fresh) /\ ~Fresh.slot
  BY DEF Fresh, CallType, CallSound, Leaving, Work, Late
<1>2. free = Slots /\ Slots \in Nat /\ \A w \in Calls : call[w] = Fresh
  BY WorkerAssumption DEF WorkerInit
<1>3. {w \in Calls : call[w].slot} = {}
  BY <1>1, <1>2
<1>4. SlotsAddUp
  BY <1>2, <1>3, FS_EmptySet DEF SlotsAddUp
<1> QED
  BY <1>1, <1>2, <1>4 DEF WorkerInv, WorkerTypeOK, WorkerInit

LEMMA WorkerStep == WorkerInv /\ [WorkerNext]_workerVars => WorkerInv'
<1> SUFFICES ASSUME WorkerInv, [WorkerNext]_workerVars PROVE WorkerInv'
  OBVIOUS
<1>1. CASE WorkerNext
  BY <1>1, CallerKeeps, ExchangeKeeps, GuardKeeps, ChildAndTimeKeep DEF WorkerNext
<1>2. CASE UNCHANGED workerVars
  BY <1>2 DEF workerVars, WorkerInv, WorkerTypeOK, SlotsAddUp
<1> QED
  BY <1>1, <1>2

THEOREM WorkerSound == WorkerSpec => []WorkerInv
<1> QED
  BY WorkerBeginnings, WorkerStep, PTL DEF WorkerSpec

\* Every variable stays in its range.
THEOREM WorkersTyped == WorkerSpec => []WorkerTypeOK
<1>1. WorkerInv => WorkerTypeOK
  BY DEF WorkerInv
<1> QED
  BY <1>1, WorkerSound, PTL

\* Every child and every task that may still be there holds a slot, and a
\* completed answer is one of a child that exited well and was reaped.
THEOREM WorkersBounded == WorkerSpec => []WorkersAreBounded
<1>1. WorkerInv => WorkersAreBounded
  <2> SUFFICES ASSUME WorkerInv PROVE WorkersAreBounded
    OBVIOUS
  <2>1. \A w \in Calls : call[w] \in CallType /\ CallSound(call[w])
    BY DEF WorkerInv, WorkerTypeOK
  <2> QED
    BY <2>1 DEF WorkerInv, SlotsAddUp, WorkersAreBounded, ChildrenHoldSlots, CompletedIsClean,
       CallSound, Reaped, Finished, C
<1> QED
  BY <1>1, WorkerSound, PTL
=============================================================================
