------------------------------ MODULE McpServer ------------------------------
(***************************************************************************)
(* The persistent laboratory server over HTTP: signed requests on one      *)
(* event loop, their provider reads as jobs on the threads of a            *)
(* BoundedPool, and the end of the process, after which the fake providers *)
(* are unwired.                                                            *)
(*                                                                         *)
(* A thread cannot be stopped: a request may time out, be cancelled or     *)
(* lose its envelope while its job goes on, and the process may be told to *)
(* stop meanwhile.                                                         *)
(*                                                                         *)
(* External: uvicorn, which when told to stop accepts nothing more, ends   *)
(* the requests, runs the lifespan's finally and then returns from run, or *)
(* raises the KeyboardInterrupt it was stopped with; and the SDK's session *)
(* manager, which dispatches a request to its handler.                     *)
(***************************************************************************)
EXTENDS Naturals, FiniteSets

CONSTANTS
  HttpRequests,  \* HTTP requests, each with an envelope of its own
  Workers        \* threads and slots of the pool, 4

ASSUME ServerAssumption == Workers \in Nat \ {0} /\ IsFiniteSet(HttpRequests)

VARIABLES
  http,         \* each request: where it is, and how many answers it began
  live,         \* its envelope is before its deadline
  job,          \* its job
  slots,        \* BoundedPool._slots
  closed,       \* BoundedPool._closed
  process,      \* the process
  interrupted   \* run raised KeyboardInterrupt

serverVars == <<http, live, job, slots, closed, process, interrupted>>

Waiting == {"bound", "waiting", "respond", "sending"}  \* under fail_after
Holding == {"queued", "bound", "reading"}              \* jobs with a slot

ServerTypeOK ==
  /\ http \in [HttpRequests ->
       [at : {"new", "body", "refuse", "refusing", "ended"} \cup Waiting,
        starts : 0..2]]
  /\ live \in [HttpRequests -> BOOLEAN]
  /\ job \in [HttpRequests -> {"none", "leaving", "done", "killed"} \cup Holding]
  /\ slots \in 0..Workers /\ closed \in BOOLEAN
  /\ process \in {"up", "stopping", "returned", "restored", "exited"}
  /\ interrupted \in BOOLEAN

ServerInit ==
  /\ http = [r \in HttpRequests |-> [at |-> "new", starts |-> 0]]
  /\ live = [r \in HttpRequests |-> TRUE]
  /\ job = [r \in HttpRequests |-> "none"]
  /\ slots = Workers /\ closed = FALSE
  /\ process = "up" /\ interrupted = FALSE

-----------------------------------------------------------------------------
(* The requests, on the event loop.                                        *)

LoopRuns == process \in {"up", "stopping"}

Moves(r, from, to) ==
  /\ LoopRuns /\ http[r].at \in from
  /\ http' = [http EXCEPT ![r].at = to]

JobsStay == UNCHANGED <<job, slots, closed, process, interrupted>>

Expire(r) ==
  /\ live[r] /\ http[r].at # "new"
  /\ http[r].at # "ended" \/ job[r] \in Holding
  /\ live' = [live EXCEPT ![r] = FALSE]
  /\ UNCHANGED http /\ JobsStay

\* Headers and envelope: verified, or refused.
ArriveRequest(r) ==
  /\ process = "up"
  /\ Moves(r, {"new"}, "body") \/ Moves(r, {"new"}, "refuse")
  /\ UNCHANGED live /\ JobsStay

\* The whole body came, is the message that was signed, and the envelope is
\* still valid: the request has a scope.
BodyRead(r) ==
  /\ live[r] /\ Moves(r, {"body"}, "bound")
  /\ UNCHANGED live /\ JobsStay

\* Too long, too late, cut off, malformed, another message, or expired.
BodyRefused(r) ==
  /\ Moves(r, {"body"}, "refuse")
  /\ UNCHANGED live /\ JobsStay

\* The SDK answers what needs no job, or an error: also an invalid context.
AnsweredAtOnce(r) ==
  /\ Moves(r, {"bound"}, "respond")
  /\ UNCHANGED live /\ JobsStay

\* BoundedPool.run: busy is an answer, too.
Submit(r) ==
  /\ live[r]
  /\ IF closed \/ slots = 0
     THEN Moves(r, {"bound"}, "respond") /\ JobsStay
     ELSE /\ Moves(r, {"bound"}, "waiting")
          /\ slots' = slots - 1
          /\ job' = [job EXCEPT ![r] = "queued"]
          /\ UNCHANGED <<closed, process, interrupted>>
  /\ UNCHANGED live

JobAnswers(r) ==
  /\ job[r] \in {"leaving", "done"}
  /\ Moves(r, {"waiting"}, "respond")
  /\ UNCHANGED live /\ JobsStay

\* Mutant: a request that times out gives back the slot of its job.
PoolFreesSlot(r) ==
  /\ Moves(r, {"waiting"}, "respond")
  /\ slots' = slots + 1
  /\ UNCHANGED <<live, job, closed, process, interrupted>>

\* asyncio.wait_for around the shielded future.
PoolTimesOut(r) ==
  /\ Moves(r, {"waiting"}, "respond")
  /\ UNCHANGED live /\ JobsStay

\* BoundedResponse has the whole answer: it is sent from here on.
Respond(r) ==
  /\ LoopRuns /\ http[r].at = "respond"
  /\ http' = [http EXCEPT ![r] = [at |-> "sending", starts |-> @.starts + 1]]
  /\ UNCHANGED live /\ JobsStay

ResponseSent(r) ==
  /\ Moves(r, {"sending"}, "ended")
  /\ UNCHANGED live /\ JobsStay

\* Mutant: the time-out is answered even when an answer was begun.
TimesOutAnyhow(r) ==
  /\ Moves(r, Waiting, "refuse")
  /\ UNCHANGED live /\ JobsStay

\* Mutant: nothing bounds the sending.
NeverTimesOut(r) ==
  /\ Moves(r, Waiting \ {"sending"}, "refuse")
  /\ UNCHANGED live /\ JobsStay

\* fail_after, or an error of the SDK: answered only if no answer was begun.
DispatchFails(r) ==
  /\ \/ Moves(r, Waiting \ {"sending"}, "refuse")
     \/ Moves(r, {"sending"}, "ended")
  /\ UNCHANGED live /\ JobsStay

\* The connection is lost, and the SDK or uvicorn cancels the request.
RequestCancelled(r) ==
  /\ Moves(r, Waiting \cup {"body", "refuse", "refusing"}, "ended")
  /\ UNCHANGED live /\ JobsStay

\* _bounded_error_response: 50 ms at most, and nothing once the budget is spent.
RefuseRequest(r) ==
  /\ LoopRuns /\ http[r].at = "refuse"
  /\ http' = [http EXCEPT ![r] = [at |-> "refusing", starts |-> @.starts + 1]]
  /\ UNCHANGED live /\ JobsStay

RefusalEnds(r) ==
  /\ Moves(r, {"refuse", "refusing"}, "ended")
  /\ UNCHANGED live /\ JobsStay

-----------------------------------------------------------------------------
(* The jobs, on the threads.                                               *)

OnThread == {"bound", "reading", "leaving"}
ThreadFree == Cardinality({r \in HttpRequests : job[r] \in OnThread}) < Workers

JobMoves(r, to) ==
  /\ job' = [job EXCEPT ![r] = to]
  /\ UNCHANGED <<http, live, closed, process, interrupted>>

\* A thread takes the job and binds the scope of its request.
PickJob(r) ==
  /\ job[r] = "queued" /\ ThreadFree
  /\ JobMoves(r, "bound") /\ UNCHANGED slots

\* Adapter.call: the envelope is checked again, the tool, the policy and the
\* arguments are looked at, and the provider is read.
JobReads(r) ==
  /\ job[r] = "bound" /\ live[r]
  /\ JobMoves(r, "reading") /\ UNCHANGED slots

\* invoke's finally.  A job may be denied before it reads, or never end.
JobFinishes(r) ==
  /\ job[r] \in {"bound", "reading"}
  /\ JobMoves(r, "leaving")
  /\ slots' = slots + 1

\* The observer has been told.
JobLeaves(r) ==
  /\ job[r] = "leaving"
  /\ JobMoves(r, "done") /\ UNCHANGED slots

-----------------------------------------------------------------------------
(* The end of the process.                                                 *)

AskToStop ==
  /\ process = "up" /\ process' = "stopping"
  /\ UNCHANGED <<http, live, job, slots, closed, interrupted>>

\* The loop ends: requests are over or cancelled, the pool is closed, and no
\* job is waited for.
LoopEnds(intr) ==
  /\ process = "stopping" /\ process' = "returned"
  /\ http' = [r \in HttpRequests |-> [http[r] EXCEPT !.at =
                 IF @ = "new" THEN "new" ELSE "ended"]]
  /\ closed' = TRUE /\ interrupted' = intr
  /\ UNCHANGED <<live, job, slots>>

Active == \E r \in HttpRequests : job[r] \in Holding

\* Mutant: main leaves its with blocks without looking at the pool.
UnwireAnyhow ==
  /\ process = "returned" /\ process' = "restored"
  /\ UNCHANGED <<http, live, job, slots, closed, interrupted>>

\* main leaves its with blocks; a KeyboardInterrupt does not pass the check.
Unwire ==
  /\ process = "returned" /\ (interrupted \/ ~Active)
  /\ process' = "restored"
  /\ UNCHANGED <<http, live, job, slots, closed, interrupted>>

\* os._exit(124)
ForcedExit ==
  /\ process = "returned" /\ ~interrupted /\ Active
  /\ process' = "exited"
  /\ job' = [r \in HttpRequests |->
               IF job[r] \in Holding \cup {"leaving"} THEN "killed" ELSE job[r]]
  /\ UNCHANGED <<http, live, slots, closed, interrupted>>

-----------------------------------------------------------------------------
\* What the loop does by itself, sooner or later.
Loop(r) ==
  \/ BodyRead(r) \/ BodyRefused(r) \/ AnsweredAtOnce(r) \/ Submit(r)
  \/ JobAnswers(r) \/ PoolTimesOut(r) \/ Respond(r) \/ DispatchFails(r)
  \/ RefuseRequest(r) \/ RefusalEnds(r)

Stop == AskToStop \/ (\E intr \in BOOLEAN : LoopEnds(intr)) \/ Unwire \/ ForcedExit

ServerNext ==
  \/ \E r \in HttpRequests :
       \/ ArriveRequest(r) \/ Loop(r) \/ ResponseSent(r) \/ RequestCancelled(r)
       \/ Expire(r)
       \/ PickJob(r) \/ JobReads(r) \/ JobFinishes(r) \/ JobLeaves(r)
  \/ Stop

ServerSpec == ServerInit /\ [][ServerNext]_serverVars

\* The loop goes on and its timers fire.  No thread, no client and nobody who
\* might stop the process has to do anything.
ServerFairness == \A r \in HttpRequests : WF_serverVars(Loop(r))

ServerFairSpec == ServerSpec /\ ServerFairness

-----------------------------------------------------------------------------
(* Properties.                                                             *)

\* A slot is held by every job that may still run, whatever became of the
\* request that waits for it (BoundedPool: "timeout never releases a running
\* thread's slot").
SlotsAreThreads ==
  process # "exited" =>
    slots + Cardinality({r \in HttpRequests : job[r] \in Holding}) = Workers

\* A request is answered at most once, also when its time runs out while its
\* answer is being sent.
OneAnswer == \A r \in HttpRequests : http[r].starts <= 1

\* main: "Do not restore real providers/network under unfinished work during
\* shutdown".  Of a run that was interrupted the code does not promise it.
WiredWhileWorking == process = "restored" /\ ~interrupted => ~Active

ServerIsBounded == SlotsAreThreads /\ OneAnswer /\ WiredWhileWorking

\* Every request that came ends, even if its job and its client never do.
RequestsEnd ==
  \A r \in HttpRequests : http[r].at = "body" ~> http[r].at = "ended"
=============================================================================
