------------------------ MODULE TicketWorkflowProofs ------------------------
(***************************************************************************)
(* Theorems about TicketWorkflow for every set of requests, deliveries and *)
(* plans, every risk assignment, every bound and every combination of      *)
(* faults.                                                                 *)
(***************************************************************************)
EXTENDS TicketWorkflow, TLAPS

(* The inductive invariant.                                                *)

\* Where the loop over the attempts stands, and that it has a recommended
\* plan by then.
LoopInv ==
  /\ wf.at \in {"none", "AssessTicketAutomation", "SearchSimilarCases",
                "AssessTicketPlan"} => wf.attempt = 1
  /\ wf.at = "AssessTicketPlan" /\ wf.step \in {"write", "done"}
       => wf.rec \in Plans
  /\ wf.at \in {"WaitForApproval", "ExecuteTicketPlan", "CheckTicketStatus"}
       => wf.attempt < MaxAttempts /\ wf.rec \in Plans

\* A decided request used the token of an earlier wait, or of the last one
\* if the execution waits no more.
TokenInv ==
  /\ wf.at = "none" => wf.token = 0
  /\ \A r \in Requests : Decided(r) =>
       /\ req[r].token <= wf.token
       /\ wf.at = "WaitForApproval" => req[r].token < wf.token

IndInv == TypeOK /\ LoopInv /\ TokenInv

-----------------------------------------------------------------------------
(* Lemmas.                                                                 *)

\* Entering a state keeps the execution well typed.
LEMMA EnterTyped ==
  ASSUME wf \in Executions, NEW state \in Tasks \cup Ends, NEW token \in Nat
  PROVE  /\ Enter(state, token) \in Executions
         /\ Enter(state, token).at = state
         /\ Enter(state, token).attempt = wf.attempt
         /\ Enter(state, token).rec = wf.rec
         /\ Enter(state, token).step = "start"
         /\ Enter(state, token).token =
              IF state = "WaitForApproval" THEN token + 1 ELSE token
<1> DEFINE next == IF state = "WaitForApproval" THEN token + 1 ELSE token
<1>1. next \in Nat
  OBVIOUS
<1>2. 0 \in 0..MaxRetries /\ 0 \in RoleRanks
  BY ConstantsAssumption DEF RoleRanks
<1>3. "start" \in Steps /\ "none" \in Bases
  BY DEF Steps, Bases
<1> HIDE DEF next
<1>4. Enter(state, token) = [wf EXCEPT !.at = state, !.step = "start",
        !.result = "none", !.retries = 0, !.approved = NoPlan, !.approver = 0,
        !.basis = "none", !.token = next]
  BY DEF Enter, next
<1>5. Enter(state, token) \in Executions
  BY <1>1, <1>2, <1>3, <1>4, ZenonT(60) DEF Executions
<1>6. /\ Enter(state, token).at = state
      /\ Enter(state, token).attempt = wf.attempt
      /\ Enter(state, token).rec = wf.rec
      /\ Enter(state, token).step = "start"
      /\ Enter(state, token).token = next
  BY <1>4 DEF Executions
<1> QED
  BY <1>5, <1>6 DEF next

\* It leaves what has been done and registered.
LEMMA EnterRuns ==
  ASSUME wf \in Executions, NEW state \in Tasks \cup Ends, NEW token \in Nat
  PROVE  /\ Enter(state, token).runs = wf.runs
         /\ Enter(state, token).retries = 0
         /\ Enter(state, token).succeeded = wf.succeeded
         /\ Enter(state, token).registered = wf.registered
         /\ Enter(state, token).result = "none"
BY DEF Enter, Executions

\* A transition of the state machine leads to a task or to an end.
LEMMA NextStateTyped == NextState \in Tasks \cup Ends
BY DEF NextState, AfterAttempt, Tasks, Ends

LEMMA CatchStateTyped == CatchState \in Tasks \cup Ends
BY DEF CatchState, Tasks, Ends

Results == {"none", "yes", "no", "ok", "bad", "error"}

\* A step inside a task moves the step counter and the result only.
LEMMA StepTyped ==
  ASSUME wf \in Executions, NEW step \in Steps, NEW result \in Results
  PROVE  /\ Step(step, result) \in Executions
         /\ Step(step, result) = [wf EXCEPT !.step = step, !.result = result]
         /\ Step(step, result).at = wf.at
         /\ Step(step, result).step = step
         /\ Step(step, result).attempt = wf.attempt
         /\ Step(step, result).rec = wf.rec
         /\ Step(step, result).token = wf.token
         /\ Step(step, result).approved = wf.approved
         /\ Step(step, result).approver = wf.approver
         /\ Step(step, result).basis = wf.basis
<1>1. Step(step, result) = [wf EXCEPT !.step = step, !.result = result]
  BY DEF Step
<1>2. result \in {"none", "yes", "no", "ok", "bad", "error"}
  BY DEF Results
<1>3. Step(step, result) \in Executions
  BY <1>1, <1>2, ZenonT(60) DEF Executions
<1>4. /\ Step(step, result).at = wf.at /\ Step(step, result).step = step
      /\ Step(step, result).attempt = wf.attempt /\ Step(step, result).rec = wf.rec
      /\ Step(step, result).token = wf.token
      /\ Step(step, result).approved = wf.approved
      /\ Step(step, result).approver = wf.approver
      /\ Step(step, result).basis = wf.basis
  BY <1>1 DEF Executions
<1> QED
  BY <1>1, <1>3, <1>4

\* The registration of a case is such a step, and says which case it was.
LEMMA RegisterTells ==
  ASSUME wf \in Executions, RegisterCase
  PROVE  /\ wf' \in Executions /\ ticket' = ticket /\ req' = req
         /\ wf.at \in CaseTasks /\ wf.step = "start" /\ wf'.at = wf.at
         /\ wf'.attempt = wf.attempt /\ wf'.retries = wf.retries /\ wf'.rec = wf.rec
         /\ wf'.token = wf.token /\ wf'.runs = wf.runs /\ wf'.succeeded = wf.succeeded
         /\ wf'.result = "none" /\ wf'.registered = FinalStatus(wf.at)
         /\ wf'.step = IF NeedsAlignment(FinalStatus(wf.at)) THEN "write" ELSE "done"
<1> DEFINE next == IF NeedsAlignment(FinalStatus(wf.at)) THEN "write" ELSE "done"
<1>1. FinalStatus(wf.at) \in {"RESUELTO", "FALLIDO", "RECHAZADO"}
  BY DEF FinalStatus
<1>2. next \in Steps /\ "none" \in Results
  BY DEF Steps, Results
<1>3. wf' = [wf EXCEPT !.step = next, !.result = "none", !.registered = FinalStatus(wf.at)]
  BY DEF RegisterCase, Step
<1>4. ticket' = ticket /\ req' = req /\ wf.at \in CaseTasks /\ wf.step = "start"
  BY DEF RegisterCase
<1> HIDE DEF next
<1>5. wf' \in Executions
  BY <1>1, <1>2, <1>3, ZenonT(60) DEF Executions, Results
<1>6. /\ wf'.at = wf.at /\ wf'.attempt = wf.attempt /\ wf'.retries = wf.retries
      /\ wf'.rec = wf.rec /\ wf'.token = wf.token /\ wf'.runs = wf.runs
      /\ wf'.succeeded = wf.succeeded /\ wf'.result = "none"
      /\ wf'.registered = FinalStatus(wf.at) /\ wf'.step = next
  BY <1>3 DEF Executions
<1> QED
  BY <1>4, <1>5, <1>6 DEF next

\* An update of the status pair keeps the item well typed.
LEMMA WithStatusTyped ==
  ASSUME ticket \in TicketItems, NEW status \in Statuses, NEW exec \in Execs
  PROVE  WithStatus(status, exec) \in TicketItems
BY DEF WithStatus, Upserted, TicketItems

\* A PUT keeps it so, whatever it writes.
LEMMA PutByTyped ==
  ASSUME ticket \in TicketItems, NEW body \in Bodies
  PROVE  PutBy(body) \in TicketItems
<1>1. /\ Upserted \in {"ghost", "whole", "absent"}
      /\ body.status \in Statuses /\ body.exec \in Execs /\ body.arn \in BOOLEAN
      /\ body.pending \in Decision /\ body.plan \in Plans \cup {NoPlan}
  BY DEF Bodies, Upserted, TicketItems
<1>2. /\ ticket.status \in Statuses /\ ticket.exec \in Execs /\ ticket.arn \in BOOLEAN
      /\ ticket.pending \in Decision /\ ticket.plan \in Plans \cup {NoPlan}
      /\ ticket.touched \in BOOLEAN
  BY DEF TicketItems
<1> DEFINE status  == IF "status" \in body.fields THEN body.status ELSE ticket.status
           exec    == IF "execution_status" \in body.fields THEN body.exec ELSE ticket.exec
           arn     == IF "execution_arn" \in body.fields THEN body.arn ELSE ticket.arn
           pending == IF "pending_decision" \in body.fields THEN body.pending
                                                           ELSE ticket.pending
           plan    == IF "action_plan" \in body.fields THEN body.plan ELSE ticket.plan
           touched == ticket.touched \/ body.fields \cap {"status", "execution_status"} # {}
<1>3. /\ status \in Statuses /\ exec \in Execs /\ arn \in BOOLEAN
      /\ pending \in Decision /\ plan \in Plans \cup {NoPlan} /\ touched \in BOOLEAN
  BY <1>1, <1>2
<1>4. PutBy(body) = [ticket EXCEPT !.item = Upserted, !.status = status, !.exec = exec,
                       !.arn = arn, !.pending = pending, !.plan = plan, !.touched = touched]
  BY Zenon DEF PutBy
<1> HIDE DEF status, exec, arn, pending, plan, touched
<1> QED
  BY <1>1, <1>3, <1>4, ZenonT(60) DEF TicketItems

\* The conditional update of the assessment does.
LEMMA SyncTyped ==
  ASSUME ticket \in TicketItems,
         NEW outcome \in {"CANNOT_RESOLVE", "ASSESSMENT_FAILED"},
         SyncUnresolvable(outcome)
  PROVE  ticket' \in TicketItems
BY DEF SyncUnresolvable, TicketItems, Statuses, Execs

\* Requests move on and end as well-typed records.
LEMMA BecomeTyped ==
  ASSUME req \in [Requests -> RequestRecords], NEW r \in Requests,
         NEW pc \in ReqPcs, Become(r, pc)
  PROVE  /\ req' \in [Requests -> RequestRecords]
         /\ req'[r] = [req[r] EXCEPT !.pc = pc]
         /\ req'[r].pc = pc
         /\ req'[r].kind = req[r].kind /\ req'[r].token = req[r].token
         /\ \A q \in Requests \ {r} : req'[q] = req[q]
BY DEF Become, RequestRecords

LEMMA IdleTyped == IdleRequest \in RequestRecords
<1>1. OtherFields \in Bodies
  BY DEF OtherFields, Bodies, Writable, Statuses, Execs, Decision, NoDecision, RoleRanks
<1> QED
  BY <1>1 DEF IdleRequest, RequestRecords, ReqPcs, AllKinds, RoleRanks, Bases

LEMMA SucceedTyped ==
  ASSUME req \in [Requests -> RequestRecords], NEW r \in Requests, Succeed(r)
  PROVE  /\ req' \in [Requests -> RequestRecords]
         /\ req'[r].pc = "ok"
         /\ req'[r].kind = req[r].kind /\ req'[r].token = req[r].token
         /\ \A q \in Requests \ {r} : req'[q] = req[q]
<1> DEFINE done == [IdleRequest EXCEPT !.pc = "ok", !.kind = req[r].kind,
                                       !.token = req[r].token]
<1>1. done \in RequestRecords
  BY IdleTyped DEF RequestRecords, ReqPcs
<1>2. done.pc = "ok" /\ done.kind = req[r].kind /\ done.token = req[r].token
  BY DEF IdleRequest
<1>3. req' = [req EXCEPT ![r] = done]
  BY DEF Succeed
<1> HIDE DEF done
<1> QED
  BY <1>1, <1>2, <1>3

LEMMA FailTyped ==
  ASSUME req \in [Requests -> RequestRecords], NEW r \in Requests, Fail(r)
  PROVE  /\ req' \in [Requests -> RequestRecords]
         /\ req'[r].pc = "error"
         /\ \A q \in Requests \ {r} : req'[q] = req[q]
<1> DEFINE failed == [IdleRequest EXCEPT !.pc = "error"]
<1>1. failed \in RequestRecords /\ failed.pc = "error"
  BY IdleTyped DEF RequestRecords, ReqPcs, IdleRequest
<1>2. req' = [req EXCEPT ![r] = failed]
  BY DEF Fail
<1> HIDE DEF failed
<1> QED
  BY <1>1, <1>2

LEMMA MadeTyped ==
  ASSUME req \in [Requests -> RequestRecords], NEW r \in Requests,
         NEW kind \in AllKinds, NEW pc \in ReqPcs,
         NEW role \in CallerRoles \cup {0, 1},
         NEW token \in Nat, NEW plan \in Plans \cup {NoPlan},
         NEW basis \in Bases, Made(r, kind, pc, role, token, plan, basis)
  PROVE  /\ req' \in [Requests -> RequestRecords]
         /\ req' = [req EXCEPT ![r] = [pc |-> pc, kind |-> kind, role |-> role,
                      token |-> token, plan |-> plan, basis |-> basis,
                      body |-> OtherFields]]
<1>1. OtherFields \in Bodies
  BY IdleTyped DEF IdleRequest, RequestRecords
<1> QED
  BY <1>1, ConstantsAssumption DEF Made, RequestRecords, RoleRanks

\* The highest of some levels is one of them, and not below any.
LEMMA HighestIsHighest ==
  ASSUME NEW S \in SUBSET Levels, S # {}
  PROVE  Highest(S) \in S /\ \A m \in S : Order[m] <= Order[Highest(S)]
<1>1. \E l \in S : \A m \in S : Order[m] <= Order[l]
  <2>1. CASE "critical" \in S
    <3>1. \A m \in S : Order[m] <= Order["critical"]
      BY DEF Levels, Order
    <3> QED
      BY <2>1, <3>1
  <2>2. CASE "critical" \notin S /\ "risky" \in S
    BY <2>2 DEF Levels, Order
  <2>3. CASE "critical" \notin S /\ "risky" \notin S /\ "controlled" \in S
    BY <2>3 DEF Levels, Order
  <2>4. CASE S = {"basic"}
    BY <2>4 DEF Order
  <2> QED
    BY <2>1, <2>2, <2>3, <2>4 DEF Levels
<1> QED
  BY <1>1 DEF Highest

\* A higher level never demands less.
LEMMA RankIsMonotone ==
  ASSUME NEW l \in Levels, NEW m \in Levels, Order[l] <= Order[m]
  PROVE  /\ RequiredRank[l] \in 1..3 /\ RequiredRank[m] \in 1..3
         /\ RequiredRank[l] <= RequiredRank[m]
  BY DEF Levels, Order, RequiredRank

\* What a step declares and what its command implies are levels.
LEMMA RisksAreLevels ==
  ASSUME NEW step \in PlanSteps
  PROVE  {Declared(step)} \cup CommandRisks(step.command) \in SUBSET Levels
<1>1. Declared(step) \in Levels
  BY DEF Declared, PlanSteps, Levels
<1> QED
  BY <1>1 DEF CommandRisks

\* Whatever a step declares, a plan never demands less than the step, or its
\* command, does: neither a low declaration nor a low level of the plan helps.
THEOREM PlanRiskIsCeiling ==
  ASSUME NEW plan \in PlanContents, NEW step \in plan.steps,
         NEW risk \in {Declared(step)} \cup CommandRisks(step.command)
  PROVE  /\ RequiredRoleOf(plan) \in 1..3
         /\ RequiredRank[risk] \in 1..3
         /\ RequiredRank[risk] <= RequiredRoleOf(plan)
<1> DEFINE risks == {Declared(step)} \cup CommandRisks(step.command)
           all == {"basic"} \cup {StepRisk(s) : s \in plan.steps}
                    \cup ({plan.level} \cap Levels)
<1>1. \A s \in plan.steps : s \in PlanSteps
  BY DEF PlanContents
<1>2. \A s \in plan.steps : StepRisk(s) \in Levels
  BY <1>1, RisksAreLevels, HighestIsHighest DEF StepRisk
<1>3. risks \in SUBSET Levels /\ risk \in risks
  BY <1>1, RisksAreLevels
<1>4. Order[risk] <= Order[StepRisk(step)]
  BY <1>3, HighestIsHighest DEF StepRisk
<1>5. all \in SUBSET Levels /\ StepRisk(step) \in all /\ all # {}
  BY <1>2 DEF Levels
<1>6. PlanRisk(plan) = Highest(all)
  BY DEF PlanRisk
<1> HIDE DEF all, risks
<1>7. PlanRisk(plan) \in Levels /\ Order[StepRisk(step)] <= Order[PlanRisk(plan)]
  BY <1>5, <1>6, HighestIsHighest
<1> QED
  BY <1>2, <1>3, <1>4, <1>7, RankIsMonotone DEF RequiredRoleOf

\* A plan demands a role, whatever its steps are.
LEMMA RequiredIsRank ==
  ASSUME NEW plan \in PlanContents
  PROVE  RequiredRoleOf(plan) \in 1..3
<1> DEFINE all == {"basic"} \cup {StepRisk(s) : s \in plan.steps}
                    \cup ({plan.level} \cap Levels)
<1>1. \A s \in plan.steps : StepRisk(s) \in Levels
  BY RisksAreLevels, HighestIsHighest DEF StepRisk, PlanContents
<1>2. all \in SUBSET Levels /\ all # {}
  BY <1>1 DEF Levels
<1>3. PlanRisk(plan) = Highest(all)
  BY DEF PlanRisk
<1> HIDE DEF all
<1>4. PlanRisk(plan) \in Levels
  BY <1>2, <1>3, HighestIsHighest
<1> QED
  BY <1>4 DEF RequiredRoleOf, RequiredRank, Levels

\* What a wait asks for is a decision on its plan.
LEMMA AskedTyped ==
  ASSUME wf \in Executions, wf.rec \in Plans, NEW token \in Nat
  PROVE  Asked(token) \in Decision
<1>1. RequiredRoleOf(Content[wf.rec]) \in RoleRanks
  BY RequiredIsRank, ConstantsAssumption DEF RoleRanks
<1> QED
  BY <1>1 DEF Asked, Decision, Executions

-----------------------------------------------------------------------------
(* The state machine keeps the records well typed.                         *)

LEMMA WorkflowTyped == TypeOK /\ LoopInv /\ Workflow => TypeOK'
<1> SUFFICES ASSUME TypeOK, LoopInv, Workflow PROVE TypeOK'
  OBVIOUS
<1> USE DEF TypeOK
<1>0. UNCHANGED <<req, starter>>
  BY DEF Workflow, AssessTicketAutomation, SearchSimilarCases,
    AssessTicketPlan, PersistPlan, MarkPlanUnavailable, WaitForApproval,
    AskForDecision, ApprovalTimesOut, ExecuteTicketPlan, VictorResults,
    PersistOutcome,
    MarkExecutionFailed, PersistFailure, CheckTicketStatus, RegisterCase,
    AlignTicket, TaskReturns, TaskRetries, TaskFails
<1> SUFFICES ticket' \in TicketItems /\ wf' \in Executions
  BY <1>0
<1> USE DEF Steps, Results
<1>1. CASE AssessTicketAutomation
  <2>1. ticket' \in TicketItems
    BY <1>1, SyncTyped DEF AssessTicketAutomation
  <2>2. wf' \in Executions
    BY <1>1, StepTyped DEF AssessTicketAutomation
  <2> QED BY <2>1, <2>2
<1>2. CASE SearchSimilarCases
  BY <1>2, StepTyped DEF SearchSimilarCases
<1>3. CASE AssessTicketPlan
  <2>1. CASE wf' = Step("raise", "error")
    BY <1>3, <2>1, StepTyped DEF AssessTicketPlan
  <2>2. CASE \E rec \in Plans, others \in SUBSET Plans :
               wf' = [wf EXCEPT !.rec = rec, !.opts = {rec} \cup others,
                                !.step = IF Found THEN "write" ELSE "done"]
    <3> PICK rec \in Plans, others \in SUBSET Plans :
          wf' = [wf EXCEPT !.rec = rec, !.opts = {rec} \cup others,
                           !.step = IF Found THEN "write" ELSE "done"]
      BY <2>2, Zenon
    <3> DEFINE opts == {rec} \cup others
               step == IF Found THEN "write" ELSE "done"
    <3>0. opts \in SUBSET Plans /\ step \in Steps
      OBVIOUS
    <3> HIDE DEF opts, step
    <3>1. wf' \in Executions
      <4>1. wf' = [wf EXCEPT !.rec = rec, !.opts = opts, !.step = step]
        BY Zenon DEF opts, step
      <4> QED
        BY <3>0, <4>1, ZenonT(60) DEF Executions
    <3> QED
      BY <1>3, <3>1 DEF AssessTicketPlan
  <2> QED
    BY <1>3, <2>1, <2>2 DEF AssessTicketPlan
<1>4. CASE PersistPlan
  <2>1. ticket' \in TicketItems
    BY <1>4, ZenonT(60) DEF PersistPlan, TicketItems, Upserted, Executions
  <2>2. wf' \in Executions
    BY <1>4, StepTyped DEF PersistPlan
  <2> QED BY <2>1, <2>2
<1>5. CASE MarkPlanUnavailable
  BY <1>5, StepTyped, SyncTyped DEF MarkPlanUnavailable
<1>6. CASE WaitForApproval
  BY <1>6, StepTyped DEF WaitForApproval
<1>7. CASE AskForDecision
  <2> DEFINE asked == WithStatus("PREAPROBADO", "AWAITING_APPROVAL")
             decision == Asked(wf.token)
  <2>1. asked \in TicketItems
    BY WithStatusTyped DEF Statuses, Execs
  <2>2. decision \in Decision
    BY <1>7, AskedTyped DEF AskForDecision, Running, LoopInv, Executions
  <2>3. ticket' = [asked EXCEPT !.pending = decision]
    BY <1>7 DEF AskForDecision
  <2> HIDE DEF asked, decision
  <2>4. ticket' \in TicketItems
    BY <2>1, <2>2, <2>3 DEF TicketItems
  <2> QED
    BY <1>7, <2>4, StepTyped DEF AskForDecision
<1>8. CASE ApprovalTimesOut
  BY <1>8, EnterTyped DEF ApprovalTimesOut, Ends, Executions
<1>9. CASE ExecuteTicketPlan
  <2> PICK outcome \in VictorResults, step \in Steps :
        wf' = [wf EXCEPT !.step = step, !.result = outcome, !.runs = @ + 1,
                         !.succeeded = @ \/ outcome = "ok"]
    BY <1>9 DEF ExecuteTicketPlan, VictorResults
  <2>1. wf.runs + 1 \in Nat
    BY DEF Executions
  <2> DEFINE succeeded == wf.succeeded \/ outcome = "ok"
  <2>2. succeeded \in BOOLEAN
    OBVIOUS
  <2>3. wf' = [wf EXCEPT !.step = step, !.result = outcome,
                         !.runs = wf.runs + 1, !.succeeded = succeeded]
    BY Zenon
  <2> HIDE DEF succeeded
  <2>4. wf' \in Executions
    BY <2>1, <2>2, <2>3, ZenonT(60) DEF VictorResults, Executions
  <2> QED
    BY <1>9, <2>4 DEF ExecuteTicketPlan, VictorResults
<1>10. CASE PersistOutcome
  <2>1. ticket' \in TicketItems
    BY <1>10, WithStatusTyped DEF PersistOutcome, Statuses, Execs
  <2>2. wf.result \in Results
    BY DEF Executions
  <2> QED
    BY <1>10, <2>1, <2>2, StepTyped DEF PersistOutcome
<1>11. CASE MarkExecutionFailed
  BY <1>11, StepTyped DEF MarkExecutionFailed
<1>12. CASE PersistFailure
  BY <1>12, StepTyped, WithStatusTyped DEF PersistFailure, Statuses, Execs
<1>13. CASE CheckTicketStatus
  BY <1>13, StepTyped DEF CheckTicketStatus
<1>14. CASE RegisterCase
  BY <1>14, RegisterTells
<1>15. CASE AlignTicket
  <2>1. FinalStatus(wf.at) \in Statuses
    BY DEF FinalStatus, Statuses
  <2>2. ticket' \in TicketItems
    BY <1>15, <2>1, WithStatusTyped DEF AlignTicket, Execs
  <2> QED
    BY <1>15, <2>2, StepTyped DEF AlignTicket
<1>16. CASE TaskReturns
  <2>0. ticket' = ticket /\ wf.token \in Nat /\ wf.attempt \in 1..MaxAttempts
    BY <1>16 DEF TaskReturns, Executions
  <2> DEFINE next == Enter(NextState, wf.token)
  <2>1. next \in Executions /\ next.attempt = wf.attempt
    BY <2>0, EnterTyped, NextStateTyped
  <2> HIDE DEF next
  <2>2. CASE wf.at = "WaitForApproval"
    BY <1>16, <2>0, <2>2, StepTyped DEF TaskReturns
  <2>3. CASE wf.at = "CheckTicketStatus"
    <3>1. wf.attempt + 1 \in 1..MaxAttempts
      BY <2>0, <2>3, ConstantsAssumption DEF LoopInv
    <3>2. wf' = [next EXCEPT !.attempt =
                   IF wf.result = "no" THEN @ + 1 ELSE @]
      BY <1>16, <2>3 DEF TaskReturns, next
    <3> QED
      BY <2>0, <2>1, <3>1, <3>2 DEF Executions
  <2>4. CASE wf.at \notin {"WaitForApproval", "CheckTicketStatus"}
    BY <1>16, <2>0, <2>1, <2>4 DEF TaskReturns, next
  <2> QED
    BY <2>2, <2>3, <2>4
<1>17. CASE TaskRetries
  <2>0. ticket' = ticket /\ wf.token \in Nat /\ wf.at \in Tasks
    BY <1>17 DEF TaskRetries, Failing, Executions
  <2> DEFINE next == Enter(wf.at, wf.token)
  <2>1. next \in Executions
    BY <2>0, EnterTyped
  <2>2. wf.retries + 1 \in 0..MaxRetries
    BY <1>17, ConstantsAssumption DEF TaskRetries, RetriesRemain, Executions
  <2>3. wf' = [next EXCEPT !.retries = wf.retries + 1,
                           !.approved = wf.approved, !.approver = wf.approver,
                           !.basis = wf.basis]
    BY <1>17 DEF TaskRetries
  <2> HIDE DEF next
  <2> QED
    BY <2>0, <2>1, <2>2, <2>3 DEF Executions
<1>18. CASE TaskFails
  BY <1>18, EnterTyped, CatchStateTyped DEF TaskFails, Executions
<1> QED
  BY <1>1, <1>2, <1>3, <1>4, <1>5, <1>6, <1>7, <1>8, <1>9, <1>10, <1>11,
     <1>12, <1>13, <1>14, <1>15, <1>16, <1>17, <1>18 DEF Workflow

-----------------------------------------------------------------------------
(* So do the requests and the starters.                                    *)

\* The pending decision is one, and of its options and the recorded plan one
\* may be executed.
LEMMA PendingTyped ==
  ASSUME TypeOK
  PROVE  /\ ticket.pending.token \in Nat /\ ticket.pending.role \in RoleRanks
         /\ ticket.pending.opts \subseteq Plans
         /\ ExecutablePlan \in Plans \cup {NoPlan}
         /\ Basis \in Bases
<1>1. ticket.pending \in Decision /\ ticket.plan \in Plans \cup {NoPlan}
  BY DEF TypeOK, TicketItems
<1> QED
  BY <1>1 DEF Decision, ExecutablePlan, Basis, Bases

\* What a public approval does to its request.
LEMMA PublicResult ==
  ASSUME TypeOK, NEW r \in Requests, PublicApprove(r)
  PROVE  \/ Fail(r)
         \/ \E plan \in Plans \cup {NoPlan} :
              /\ req' = [req EXCEPT ![r] = [req[r] EXCEPT !.pc = "checked",
                                              !.plan = plan, !.basis = Basis]]
              /\ [req[r] EXCEPT !.pc = "checked", !.plan = plan, !.basis = Basis]
                   \in RequestRecords
              /\ req[r].pc = "looked" /\ req[r].kind \in {"public", "publicNo"}
              /\ req[r].kind = "public" => plan = ExecutablePlan /\ plan \in Plans
              /\ Found => ticket.pending.open
<1> DEFINE plan == IF req[r].kind = "public" THEN ExecutablePlan ELSE NoPlan
<1>1. plan \in Plans \cup {NoPlan} /\ Basis \in Bases
  BY PendingTyped
<1>2. req \in [Requests -> RequestRecords] /\ "checked" \in ReqPcs
  BY DEF TypeOK, ReqPcs
<1>3. req[r].pc = "looked" /\ req[r].kind \in {"public", "publicNo"}
  BY DEF PublicApprove
<1>4. \/ Fail(r)
      \/ /\ req' = [req EXCEPT ![r].pc = "checked", ![r].basis = Basis, ![r].plan = plan]
         /\ Found => ticket.pending.open
         /\ req[r].kind = "public" => plan = ExecutablePlan /\ plan # NoPlan
  BY DEF PublicApprove
<1> HIDE DEF plan
<1>5. CASE ~Fail(r)
  <2>1. req' = [req EXCEPT ![r] =
                  [req[r] EXCEPT !.pc = "checked", !.plan = plan, !.basis = Basis]]
    BY <1>2, <1>4, <1>5 DEF RequestRecords
  <2>2. [req[r] EXCEPT !.pc = "checked", !.plan = plan, !.basis = Basis] \in RequestRecords
    BY <1>1, <1>2 DEF RequestRecords
  <2> QED
    BY <1>1, <1>3, <1>4, <1>5, <2>1, <2>2
<1> QED
  BY <1>5

\* What the route and the handler of a callback do to its request.
LEMMA CallbackResult ==
  ASSUME TypeOK, NEW r \in Requests, CallbackRoute(r) \/ CallbackResolve(r), ~Fail(r)
  PROVE  \E new \in RequestRecords :
           /\ req' = [req EXCEPT ![r] = new]
           /\ new.kind = req[r].kind /\ new.role = req[r].role /\ new.token = req[r].token
           /\ CallbackRoute(r) => /\ new.pc = "routed" /\ new.basis = Basis
                                  /\ Found => MeetsContract(req[r].role)
           /\ CallbackResolve(r) =>
                /\ new.pc = "checked" /\ req[r].pc = "routed"
                /\ req[r].kind # "callbackNo" =>
                     /\ new.plan = ExecutablePlan
                     /\ req[r].kind = "callback" => new.plan \in Plans
                     /\ new.basis = IF ticket.pending.asked THEN req[r].basis ELSE "other"
<1>1. /\ req \in [Requests -> RequestRecords] /\ req[r] \in RequestRecords
      /\ {"checked", "routed"} \subseteq ReqPcs /\ Basis \in Bases /\ "other" \in Bases
      /\ ExecutablePlan \in Plans \cup {NoPlan} /\ req[r].basis \in Bases
  BY PendingTyped DEF TypeOK, ReqPcs, Bases, RequestRecords
<1>2. CASE CallbackRoute(r)
  <2> DEFINE new == [req[r] EXCEPT !.pc = "routed", !.basis = Basis]
  <2>1. /\ req' = [req EXCEPT ![r].pc = "routed", ![r].basis = Basis]
        /\ req[r].pc = "looked" /\ req[r].kind \in {"callback", "callbackNo"}
        /\ Found => MeetsContract(req[r].role)
    BY <1>2 DEF CallbackRoute
  <2>2. req' = [req EXCEPT ![r] = new]
    BY <1>1, <2>1
  <2>3. new \in RequestRecords /\ new.pc = "routed" /\ new.basis = Basis
        /\ new.kind = req[r].kind /\ new.role = req[r].role /\ new.token = req[r].token
    BY <1>1 DEF RequestRecords
  <2>4. ~CallbackResolve(r)
    BY <2>1 DEF CallbackResolve
  <2> QED
    BY <2>1, <2>2, <2>3, <2>4
<1>3. CASE CallbackResolve(r) /\ req[r].kind = "callbackNo"
  <2> DEFINE new == [req[r] EXCEPT !.pc = "checked"]
  <2>1. req[r].pc = "routed" /\ req' = [req EXCEPT ![r] = new]
    BY <1>1, <1>3 DEF CallbackResolve, Become
  <2>2. /\ new \in RequestRecords /\ new.pc = "checked"
        /\ new.kind = req[r].kind /\ new.role = req[r].role /\ new.token = req[r].token
    BY <1>1 DEF RequestRecords
  <2>3. ~CallbackRoute(r)
    BY <2>1 DEF CallbackRoute
  <2> QED
    BY <1>3, <2>1, <2>2, <2>3
<1>4. CASE CallbackResolve(r) /\ req[r].kind # "callbackNo"
  <2> DEFINE basis == IF ticket.pending.asked THEN req[r].basis ELSE "other"
             new == [req[r] EXCEPT !.pc = "checked", !.plan = ExecutablePlan, !.basis = basis]
  <2>1. /\ req[r].pc = "routed" /\ (req[r].kind = "callback" => ExecutablePlan # NoPlan)
        /\ req' = [req EXCEPT ![r].pc = "checked", ![r].plan = ExecutablePlan,
                               ![r].basis = IF ticket.pending.asked THEN @ ELSE "other"]
    BY <1>4 DEF CallbackResolve
  <2>2. req' = [req EXCEPT ![r] = new]
    BY <1>1, <2>1 DEF RequestRecords
  <2>3. /\ new \in RequestRecords /\ new.pc = "checked" /\ new.plan = ExecutablePlan
        /\ new.kind = req[r].kind /\ new.role = req[r].role /\ new.token = req[r].token
        /\ new.basis = basis
    BY <1>1 DEF RequestRecords
  <2>4. ~CallbackRoute(r) /\ (req[r].kind = "callback" => new.plan \in Plans)
    BY <1>1, <2>1, <2>3 DEF CallbackRoute
  <2>5. new.basis = IF ticket.pending.asked THEN req[r].basis ELSE "other"
    BY <2>3
  <2> HIDE DEF new, basis
  <2> QED
    BY <2>1, <2>2, <2>3, <2>4, <2>5
<1> QED
  BY <1>2, <1>3, <1>4

LEMMA ArrivalTyped ==
  ASSUME TypeOK, NEW r \in Requests, Arrival(r)
  PROVE  TypeOK'
<1> USE DEF TypeOK
<1>0. UNCHANGED <<ticket, wf, starter>>
  BY DEF Arrival, Approve, Reject, Select, Custom, Choose, Put, SuperadminPut,
    CallbackLook, CallbackRoute, PublicApprove
<1> SUFFICES req' \in [Requests -> RequestRecords]
  BY <1>0
<1>a. /\ {"checked", "get", "looked", "routed"} \subseteq ReqPcs
      /\ {"none", "chosen"} \subseteq Bases
  BY DEF ReqPcs, Bases
<1>1. CASE Approve(r)
  <2> PICK role \in CallerRoles :
        Made(r, "approve", "checked", role, ticket.pending.token,
             ExecutablePlan, Basis)
    BY <1>1 DEF Approve
  <2>1. "approve" \in AllKinds /\ "checked" \in ReqPcs
    BY <1>a DEF AllKinds
  <2> QED
    BY <2>1, MadeTyped, PendingTyped
<1>2. CASE Reject(r)
  <2> PICK role \in CallerRoles :
        Made(r, "reject", "checked", role, ticket.pending.token, NoPlan,
             "none")
    BY <1>2 DEF Reject
  <2>1. "reject" \in AllKinds /\ "checked" \in ReqPcs /\ "none" \in Bases
    BY <1>a DEF AllKinds
  <2> QED
    BY <2>1, MadeTyped, PendingTyped
<1>3. CASE Select(r) \/ Custom(r)
  <2> PICK kind \in {"select", "custom"}, role \in CallerRoles, plan \in Plans :
        Made(r, kind, "get", role, ticket.pending.token, plan, "chosen")
    BY <1>3, PendingTyped DEF Select, Custom, Choose, OptionPlans, OwnPlans
  <2>1. kind \in AllKinds /\ "get" \in ReqPcs /\ "chosen" \in Bases
    BY <1>a DEF AllKinds
  <2> QED
    BY <2>1, MadeTyped, PendingTyped
<1>4. CASE Put(r) \/ SuperadminPut(r)
  <2> PICK body \in PutBodies :
        req' = [req EXCEPT ![r] = [IdleRequest EXCEPT
                  !.pc = "get", !.kind = "put", !.body = body]]
    BY <1>4 DEF Put, SuperadminPut
  <2>1. "put" \in AllKinds /\ "get" \in ReqPcs /\ body \in Bodies
    BY <1>a, ConstantsAssumption DEF AllKinds
  <2>2. [IdleRequest EXCEPT !.pc = "get", !.kind = "put", !.body = body] \in RequestRecords
    BY <2>1, IdleTyped DEF RequestRecords
  <2> QED
    BY <2>2
<1>5. CASE CallbackLook(r)
  <2> PICK kind \in {"callback", "callbackNo", "public", "publicNo"},
           role \in CallerRoles \cup {1} :
        Made(r, kind, "looked", role, ticket.pending.token, NoPlan, "none")
    BY <1>5 DEF CallbackLook
  <2>1. kind \in AllKinds /\ "looked" \in ReqPcs /\ "none" \in Bases
    BY <1>a DEF AllKinds
  <2> QED
    BY <2>1, MadeTyped, PendingTyped
<1>6. CASE CallbackRoute(r)
  BY <1>6, CallbackResult, FailTyped
<1>7. CASE PublicApprove(r)
  BY <1>7, PublicResult, FailTyped
<1> QED
  BY <1>1, <1>2, <1>3, <1>4, <1>5, <1>6, <1>7 DEF Arrival

LEMMA AdvanceTyped ==
  ASSUME TypeOK, NEW r \in Requests, Advance(r)
  PROVE  TypeOK'
<1> USE DEF TypeOK, ReqPcs
<1>0. /\ starter' = starter
      /\ req[r] \in RequestRecords
  BY DEF Advance, UpdateGet, UpdatePut, CallbackResolve, Resume,
    WriteDecision, Answer, RequestDies
<1>1. CASE UpdateGet(r)
  BY <1>0, <1>1, BecomeTyped, FailTyped DEF UpdateGet
<1>2. CASE UpdatePut(r)
  <2>1. ticket' \in TicketItems
    <3>1. PutBy(req[r].body) \in TicketItems
      BY <1>0, PutByTyped DEF RequestRecords
    <3>2. [ticket EXCEPT !.item = Upserted, !.plan = req[r].plan] \in TicketItems
      BY <1>0 DEF RequestRecords, TicketItems, Upserted
    <3> QED
      BY <1>2, <3>1, <3>2 DEF UpdatePut
  <2>2. req' \in [Requests -> RequestRecords]
    BY <1>2, BecomeTyped, SucceedTyped DEF UpdatePut
  <2> QED
    BY <1>0, <1>2, <2>1, <2>2 DEF UpdatePut
<1>3. CASE CallbackResolve(r)
  <2>1. req' \in [Requests -> RequestRecords]
    BY <1>3, CallbackResult, FailTyped
  <2> QED
    BY <1>0, <1>3, <2>1 DEF CallbackResolve
<1>4. CASE Resume(r)
  <2>1. req' \in [Requests -> RequestRecords]
    BY <1>4, BecomeTyped, SucceedTyped, FailTyped DEF Resume, ResumeRefused
  <2>2. wf' \in Executions
    <3> DEFINE next == Enter("ExecuteTicketPlan", wf.token)
    <3>1. wf.token \in Nat
      BY DEF Executions
    <3>2. next \in Executions
      BY <3>1, EnterTyped DEF Tasks
    <3>3. Enter("RegisterRejectedCase", wf.token) \in Executions
      BY <3>1, EnterTyped DEF Tasks
    <3> HIDE DEF next
    <3>4. [next EXCEPT !.approved = req[r].plan, !.approver = req[r].role,
                       !.basis = req[r].basis] \in Executions
      BY <1>0, <3>2 DEF Executions, RequestRecords
    <3> QED
      BY <1>4, <3>3, <3>4 DEF Resume, next
  <2> QED
    BY <1>0, <1>4, <2>1, <2>2 DEF Resume
<1>5. CASE WriteDecision(r)
  <2>1. req' \in [Requests -> RequestRecords]
    BY <1>5, BecomeTyped DEF WriteDecision
  <2>2. ticket' \in TicketItems
    <3>1. {Approved, Rejected, Marked} \subseteq TicketItems
      <4>1. NoDecision \in Decision
        BY DEF NoDecision, Decision, RoleRanks
      <4> QED
        BY <1>0, <4>1, ZenonT(60) DEF Approved, Rejected, Marked, TicketItems, Statuses,
          Execs
    <3> QED
      BY <1>5, <3>1 DEF WriteDecision
  <2> QED
    BY <1>0, <1>5, <2>1, <2>2 DEF WriteDecision
<1>6. CASE Answer(r)
  BY <1>0, <1>6, SucceedTyped, FailTyped DEF Answer
<1>7. CASE RequestDies(r)
  BY <1>0, <1>7, FailTyped DEF RequestDies
<1> QED
  BY <1>1, <1>2, <1>3, <1>4, <1>5, <1>6, <1>7 DEF Advance

LEMMA StarterTyped ==
  ASSUME TypeOK, NEW d \in Deliveries, Starter(d)
  PROVE  TypeOK'
<1> USE DEF TypeOK
<1>1. CASE StartAutomation(d)
  BY <1>1, EnterTyped DEF StartAutomation, Tasks
<1>2. CASE RecordArn(d)
  <2>1. [ticket EXCEPT !.arn = TRUE] \in TicketItems
    BY DEF TicketItems
  <2> QED
    BY <1>2, <2>1 DEF RecordArn
<1>3. CASE RecordStarted(d)
  <2>1. [ticket EXCEPT !.exec = "STARTED"] \in TicketItems
    BY DEF TicketItems, Execs
  <2> QED
    BY <1>3, <2>1 DEF RecordStarted
<1> QED
  BY <1>1, <1>2, <1>3 DEF Starter

\* What the program does in one step keeps the records well typed.
LEMMA NextTyped == TypeOK /\ LoopInv /\ [Next]_vars => TypeOK'
<1> SUFFICES ASSUME TypeOK, LoopInv, [Next]_vars PROVE TypeOK'
  OBVIOUS
<1>1. CASE DeleteTicket
  <2>1. NoDecision \in Decision
    BY DEF NoDecision, Decision, RoleRanks
  <2>2. [NoItem EXCEPT !.touched = TRUE] \in TicketItems
    BY <2>1 DEF NoItem, TicketItems, Statuses, Execs
  <2> QED
    BY <1>1, <2>2 DEF DeleteTicket, TypeOK
<1>2. CASE UNCHANGED vars
  BY <1>2 DEF vars, TypeOK
<1> QED
  BY <1>1, <1>2, WorkflowTyped, ArrivalTyped, AdvanceTyped, StarterTyped DEF Next

-----------------------------------------------------------------------------
(* The loop and the tokens.                                                *)

\* A step inside a task disturbs neither, if it does not make up a plan.
LEMMA StayingInTask ==
  ASSUME LoopInv, TokenInv, req' = req,
         wf'.at = wf.at, wf'.token = wf.token,
         wf'.attempt = wf.attempt, wf'.rec = wf.rec,
         wf.at = "AssessTicketPlan" /\ wf'.step \in {"write", "done"}
           => wf.step \in {"write", "done"}
  PROVE  LoopInv' /\ TokenInv'
BY DEF LoopInv, TokenInv, Decided

\* Entering a state draws a new token where the execution is to wait.
LEMMA EnteringKeepsTokens ==
  ASSUME TypeOK, TokenInv, req' = req, wf'.at # "none",
         wf'.token = IF wf'.at = "WaitForApproval" THEN wf.token + 1
                                                   ELSE wf.token
  PROVE  TokenInv'
<1>1. wf.token \in Nat /\ \A r \in Requests : req[r].token \in Nat
  BY DEF TypeOK, Executions, RequestRecords
<1> QED
  BY <1>1 DEF TokenInv, Decided

LEMMA WorkflowInd ==
  TypeOK /\ LoopInv /\ TokenInv /\ Workflow => LoopInv' /\ TokenInv'
<1> SUFFICES ASSUME TypeOK, LoopInv, TokenInv, Workflow
             PROVE  LoopInv' /\ TokenInv'
  OBVIOUS
<1>0. wf \in Executions /\ wf.token \in Nat /\ wf.attempt \in Nat
  BY ConstantsAssumption DEF TypeOK, Executions
<1> USE <1>0 DEF Running
<1>1. CASE AssessTicketAutomation
  BY <1>1, StepTyped, StayingInTask DEF AssessTicketAutomation, Steps, Results
<1>2. CASE SearchSimilarCases
  BY <1>2, StepTyped, StayingInTask DEF SearchSimilarCases, Steps, Results
<1>3. CASE AssessTicketPlan
  <2>1. CASE wf' = Step("raise", "error")
    BY <1>3, <2>1, StepTyped, StayingInTask DEF AssessTicketPlan, Steps, Results
  <2>2. CASE \E rec \in Plans, others \in SUBSET Plans :
               wf' = [wf EXCEPT !.rec = rec, !.opts = {rec} \cup others,
                                !.step = IF Found THEN "write" ELSE "done"]
    <3>1. /\ wf'.at = "AssessTicketPlan" /\ wf'.rec \in Plans
          /\ wf'.token = wf.token /\ wf'.attempt = wf.attempt
          /\ wf.at = "AssessTicketPlan" /\ req' = req
      BY <1>3, <2>2 DEF AssessTicketPlan, Executions
    <3> QED
      BY <3>1 DEF LoopInv, TokenInv, Decided
  <2> QED
    BY <1>3, <2>1, <2>2 DEF AssessTicketPlan
<1>4. CASE PersistPlan
  BY <1>4, StepTyped, StayingInTask DEF PersistPlan, Steps, Results
<1>5. CASE MarkPlanUnavailable
  BY <1>5, StepTyped, StayingInTask DEF MarkPlanUnavailable, Steps, Results
<1>6. CASE WaitForApproval
  BY <1>6, StepTyped, StayingInTask DEF WaitForApproval, Steps, Results
<1>7. CASE AskForDecision
  BY <1>7, StepTyped, StayingInTask DEF AskForDecision, Steps, Results
<1>8. CASE ApprovalTimesOut
  <2>1. wf'.at = "TimedOut" /\ wf'.token = wf.token /\ req' = req
    BY <1>8, EnterTyped DEF ApprovalTimesOut, Ends
  <2> QED
    BY <2>1, EnteringKeepsTokens DEF LoopInv
<1>9. CASE ExecuteTicketPlan
  <2>1. /\ wf.at = "ExecuteTicketPlan" /\ wf'.at = wf.at
        /\ wf'.token = wf.token /\ wf'.attempt = wf.attempt
        /\ wf'.rec = wf.rec /\ req' = req
    BY <1>9 DEF ExecuteTicketPlan, VictorResults, Executions
  <2> QED
    BY <2>1, StayingInTask
<1>10. CASE PersistOutcome
  <2>1. wf.result \in Results
    BY DEF Executions, Results
  <2> QED
    BY <1>10, <2>1, StepTyped, StayingInTask, ZenonT(60) DEF PersistOutcome, Steps
<1>11. CASE MarkExecutionFailed
  BY <1>11, StepTyped, StayingInTask DEF MarkExecutionFailed, Steps, Results
<1>12. CASE PersistFailure
  BY <1>12, StepTyped, StayingInTask DEF PersistFailure, Steps, Results
<1>13. CASE CheckTicketStatus
  BY <1>13, StepTyped, StayingInTask DEF CheckTicketStatus, Steps, Results
<1>14. CASE RegisterCase
  BY <1>14, RegisterTells, StayingInTask DEF CaseTasks
<1>15. CASE AlignTicket
  BY <1>15, StepTyped, StayingInTask DEF AlignTicket, CaseTasks, Steps, Results
<1>16. CASE TaskReturns
  <2> DEFINE next == Enter(NextState, wf.token)
  <2>0. req' = req /\ wf.step = "done" /\ wf.at \in Tasks
    BY <1>16 DEF TaskReturns
  <2>1. /\ next \in Executions /\ next.at = NextState /\ next.step = "start"
        /\ next.attempt = wf.attempt /\ next.rec = wf.rec
        /\ next.token = IF NextState = "WaitForApproval" THEN wf.token + 1
                                                         ELSE wf.token
    BY EnterTyped, NextStateTyped
  <2>2. NextState # "none"
    BY NextStateTyped DEF Tasks, Ends
  <2> HIDE DEF next
  <2>3. CASE wf.at = "WaitForApproval"
    <3>1. wf' = Step("waiting", "none")
      BY <1>16, <2>3 DEF TaskReturns
    <3> QED
      BY <2>0, <2>3, <3>1, StepTyped, StayingInTask DEF Steps, Results
  <2>4. CASE wf.at = "CheckTicketStatus"
    <3>1. wf' = [next EXCEPT !.attempt =
                   IF wf.result = "no" THEN @ + 1 ELSE @]
      BY <1>16, <2>4 DEF TaskReturns, next
    <3>2. /\ wf'.at = NextState /\ wf'.token = next.token /\ wf'.rec = wf.rec
          /\ wf'.attempt \in {wf.attempt, wf.attempt + 1}
      BY <2>1, <3>1 DEF Executions
    <3>3. NextState \in {"RegisterSuccessfulCase", "RegisterFailedCase",
                         "WaitForApproval"}
      BY <2>4 DEF NextState, AfterAttempt
    <3>4. NextState = "WaitForApproval" => wf.attempt + 1 < MaxAttempts
      BY <2>4 DEF NextState, AfterAttempt, AttemptsRemain
    <3>5. LoopInv'
      BY <2>4, <3>2, <3>3, <3>4, ConstantsAssumption DEF LoopInv
    <3>6. TokenInv'
      BY <2>0, <2>1, <2>2, <3>2, EnteringKeepsTokens
    <3> QED
      BY <3>5, <3>6
  <2>5. CASE wf.at \notin {"WaitForApproval", "CheckTicketStatus"}
    <3>1. wf' = next
      BY <1>16, <2>5 DEF TaskReturns, next
    <3>2. TokenInv'
      BY <2>0, <2>1, <2>2, <3>1, EnteringKeepsTokens
    <3>3. NextState # "AssessTicketAutomation"
      BY DEF NextState, AfterAttempt
    <3>4. NextState \in {"SearchSimilarCases", "AssessTicketPlan"}
            => wf.at \in {"AssessTicketAutomation", "SearchSimilarCases"}
      BY <2>5 DEF NextState, AfterAttempt
    <3>5. NextState = "WaitForApproval" =>
            wf.at = "AssessTicketPlan" /\ 1 < MaxAttempts
      BY <2>5 DEF NextState, AfterAttempt, AttemptsRemain
    <3>6. NextState # "ExecuteTicketPlan"
      BY DEF NextState, AfterAttempt
    <3>7. NextState = "CheckTicketStatus" => wf.at = "ExecuteTicketPlan"
      BY <2>5 DEF NextState, AfterAttempt
    <3>8. LoopInv'
      BY <2>0, <2>1, <2>2, <3>1, <3>3, <3>4, <3>5, <3>6, <3>7 DEF LoopInv
    <3> QED
      BY <3>2, <3>8
  <2> QED
    BY <2>3, <2>4, <2>5
<1>17. CASE TaskRetries
  <2> DEFINE next == Enter(wf.at, wf.token)
  <2>0. req' = req /\ wf.at \in Tasks
    BY <1>17 DEF TaskRetries, Failing
  <2>1. /\ next \in Executions /\ next.at = wf.at /\ next.step = "start"
        /\ next.attempt = wf.attempt /\ next.rec = wf.rec
        /\ next.token = IF wf.at = "WaitForApproval" THEN wf.token + 1
                                                     ELSE wf.token
    BY <2>0, EnterTyped
  <2>2. wf' = [next EXCEPT !.retries = wf.retries + 1,
                           !.approved = wf.approved, !.approver = wf.approver,
                           !.basis = wf.basis]
    BY <1>17 DEF TaskRetries
  <2> HIDE DEF next
  <2>3. /\ wf'.at = wf.at /\ wf'.step = "start" /\ wf'.attempt = wf.attempt
        /\ wf'.rec = wf.rec /\ wf'.token = next.token
    BY <2>1, <2>2 DEF Executions
  <2>4. TokenInv'
    BY <2>0, <2>1, <2>3, EnteringKeepsTokens DEF Tasks
  <2>5. LoopInv'
    BY <2>3 DEF LoopInv
  <2> QED
    BY <2>4, <2>5
<1>18. CASE TaskFails
  <2>1. /\ req' = req /\ wf'.at = CatchState
        /\ wf'.token = IF CatchState = "WaitForApproval" THEN wf.token + 1
                                                         ELSE wf.token
    BY <1>18, EnterTyped, CatchStateTyped DEF TaskFails
  <2>2. CatchState \in
          {"MarkPlanUnavailable", "MarkExecutionFailed", "ExecutionFailed"}
    BY DEF CatchState
  <2>3. TokenInv'
    BY <2>1, <2>2, EnteringKeepsTokens
  <2>4. LoopInv'
    BY <2>1, <2>2 DEF LoopInv
  <2> QED
    BY <2>3, <2>4
<1> QED
  BY <1>1, <1>2, <1>3, <1>4, <1>5, <1>6, <1>7, <1>8, <1>9, <1>10, <1>11,
     <1>12, <1>13, <1>14, <1>15, <1>16, <1>17, <1>18 DEF Workflow

\* A resumption decides for its own request only.
LEMMA ResumeDecides ==
  ASSUME TypeOK, NEW r \in Requests, Resume(r)
  PROVE  \A q \in Requests : Decided(q)' =>
           /\ req'[q].token = req[q].token
           /\ q = r \/ Decided(q)
<1>1. CASE Become(r, "resumed")
  BY <1>1, BecomeTyped DEF TypeOK, Decided, ReqPcs, RequestRecords
<1> QED
  BY <1>1, SucceedTyped, FailTyped DEF TypeOK, Resume, ResumeRefused, Decided

\* Nothing else a request does makes it a decided one.
LEMMA OthersDecideNothing ==
  ASSUME TypeOK, NEW r \in Requests, Arrival(r) \/ Advance(r),
         ~(Resume(r) /\ TokenIsLive(req[r].token))
  PROVE  \A q \in Requests : Decided(q)' =>
           Decided(q) /\ req'[q].token = req[q].token
<1> USE DEF TypeOK
<1>1. CASE Arrival(r) /\ ~PublicApprove(r) /\ ~CallbackRoute(r)
  <2>1. CASE Put(r) \/ SuperadminPut(r)
    BY <2>1 DEF Put, SuperadminPut, IdleRequest, Decided
  <2>2. CASE Approve(r) \/ Reject(r)
    BY <2>2 DEF Approve, Reject, Made, Decided
  <2>3. CASE Select(r) \/ Custom(r) \/ CallbackLook(r)
    BY <2>3 DEF Select, Custom, Choose, CallbackLook, Made, Decided
  <2> QED
    BY <1>1, <2>1, <2>2, <2>3 DEF Arrival
<1>9. CASE PublicApprove(r)
  <2>1. CASE Fail(r)
    BY <2>1, FailTyped DEF Decided
  <2>2. CASE ~Fail(r)
    <3> PICK plan \in Plans \cup {NoPlan} :
          req' = [req EXCEPT ![r] = [req[r] EXCEPT !.pc = "checked", !.plan = plan,
                                                   !.basis = Basis]]
      BY <1>9, <2>2, PublicResult
    <3>1. ~Decided(r)' /\ \A q \in Requests \ {r} : req'[q] = req[q]
      BY DEF Decided, RequestRecords
    <3> QED
      BY <3>1 DEF Decided
  <2> QED
    BY <2>1, <2>2
<1>2. CASE UpdateGet(r)
  BY <1>2 DEF UpdateGet, Become, Fail, IdleRequest, Decided, RequestRecords
<1>3. CASE UpdatePut(r)
  <2>1. CASE req[r].kind = "put" /\ Succeed(r)
    BY <2>1, SucceedTyped DEF Decided
  <2>2. CASE Become(r, "checked")
    BY <2>2, BecomeTyped DEF Decided, ReqPcs, RequestRecords
  <2> QED
    BY <1>3, <2>1, <2>2 DEF UpdatePut
<1>4. CASE CallbackRoute(r) \/ CallbackResolve(r)
  <2>1. CASE Fail(r)
    BY <2>1, FailTyped DEF Decided
  <2>2. CASE ~Fail(r)
    BY <1>4, <2>2, CallbackResult DEF Decided
  <2> QED
    BY <2>1, <2>2
<1>5. CASE Resume(r)
  BY <1>5, FailTyped DEF Resume, ResumeRefused, Decided
<1>6. CASE WriteDecision(r)
  BY <1>6 DEF WriteDecision, Become, Decided, RequestRecords
<1>7. CASE Answer(r)
  <2>1. req[r].pc \in {"wrote", "conflict"} /\ (Succeed(r) \/ Fail(r))
    BY <1>7 DEF Answer
  <2> QED
    BY <2>1, SucceedTyped, FailTyped DEF Decided
<1>8. CASE RequestDies(r)
  BY <1>8, FailTyped DEF RequestDies, Decided
<1> QED
  BY <1>1, <1>2, <1>3, <1>4, <1>5, <1>6, <1>7, <1>8, <1>9 DEF Advance

\* Requests decide with the token of the wait only.
LEMMA RequestInd ==
  ASSUME TypeOK, LoopInv, TokenInv, NEW r \in Requests,
         Arrival(r) \/ Advance(r)
  PROVE  LoopInv' /\ TokenInv'
<1>1. CASE Resume(r) /\ TokenIsLive(req[r].token)
  <2>0. wf.token \in Nat /\ wf \in Executions
        /\ \A q \in Requests : req[q].token \in Nat
    BY DEF TypeOK, Executions, RequestRecords
  <2> DEFINE exe == Enter("ExecuteTicketPlan", wf.token)
             rej == Enter("RegisterRejectedCase", wf.token)
  <2>1. /\ exe \in Executions /\ exe.at = "ExecuteTicketPlan"
        /\ exe.token = wf.token /\ exe.attempt = wf.attempt
        /\ exe.rec = wf.rec
    BY <2>0, EnterTyped DEF Tasks
  <2>2. /\ rej.at = "RegisterRejectedCase" /\ rej.token = wf.token
    BY <2>0, EnterTyped DEF Tasks
  <2>3. \/ wf' = [exe EXCEPT !.approved = req[r].plan,
                             !.approver = req[r].role, !.basis = req[r].basis]
        \/ wf' = rej
    BY <1>1 DEF Resume
  <2>4. wf.at = "WaitForApproval" /\ req[r].token = wf.token
    BY <1>1 DEF TokenIsLive
  <2> HIDE DEF exe, rej
  <2>5. /\ wf'.token = wf.token
        /\ \/ wf'.at = "RegisterRejectedCase"
           \/ /\ wf'.at = "ExecuteTicketPlan"
              /\ wf'.attempt = wf.attempt /\ wf'.rec = wf.rec
    BY <2>1, <2>2, <2>3 DEF Executions
  <2>6. LoopInv'
    BY <2>4, <2>5 DEF LoopInv
  <2>7. TokenInv'
    BY <1>1, <2>0, <2>4, <2>5, ResumeDecides DEF TokenInv
  <2> QED
    BY <2>6, <2>7
<1>2. CASE ~(Resume(r) /\ TokenIsLive(req[r].token))
  <2>1. wf' = wf
    BY <1>2 DEF Arrival, Approve, Reject, Select, Custom, Choose, Put, SuperadminPut,
    CallbackLook, CallbackRoute, PublicApprove, Advance, UpdateGet, UpdatePut, CallbackResolve, Resume,
      WriteDecision, Answer, RequestDies
  <2> QED
    BY <1>2, <2>1, OthersDecideNothing DEF LoopInv, TokenInv
<1> QED
  BY <1>1, <1>2

\* The starter enters the first state once.
LEMMA StarterInd ==
  ASSUME TypeOK, LoopInv, TokenInv, NEW d \in Deliveries, Starter(d)
  PROVE  LoopInv' /\ TokenInv'
<1>1. wf \in Executions /\ req' = req
  BY DEF TypeOK, Starter, StartAutomation, RecordArn, RecordStarted
<1>2. CASE wf' = wf
  BY <1>1, <1>2 DEF LoopInv, TokenInv, Decided
<1>3. CASE wf.at = "none" /\ wf' = Enter("AssessTicketAutomation", 0)
  <2>1. /\ wf'.at = "AssessTicketAutomation" /\ wf'.token = 0
        /\ wf'.attempt = wf.attempt
    BY <1>1, <1>3, EnterTyped DEF Tasks
  <2> QED
    BY <1>1, <1>3, <2>1 DEF LoopInv, TokenInv, Decided
<1> QED
  BY <1>1, <1>2, <1>3 DEF Starter, StartAutomation, RecordArn, RecordStarted

LEMMA InitInd == Init => IndInv
<1> SUFFICES ASSUME Init PROVE IndInv
  OBVIOUS
<1>1. TypeOK
  <2>0. NoDecision \in Decision
    BY DEF NoDecision, Decision, RoleRanks
  <2>1. ticket \in TicketItems
    BY <2>0 DEF Init, NewItem, NoItem, TicketItems, Statuses, Execs
  <2>2. wf \in Executions
    BY ConstantsAssumption DEF Init, Executions, Steps, RoleRanks, Bases
  <2>3. req \in [Requests -> RequestRecords]
    BY IdleTyped DEF Init
  <2> QED
    BY <2>1, <2>2, <2>3 DEF Init, TypeOK
<1>2. LoopInv /\ TokenInv
  BY DEF Init, LoopInv, TokenInv, Decided, IdleRequest
<1> QED
  BY <1>1, <1>2 DEF IndInv

LEMMA NextInd == IndInv /\ [Next]_vars => IndInv'
<1> SUFFICES ASSUME IndInv, [Next]_vars PROVE IndInv'
  OBVIOUS
<1> USE DEF IndInv
<1>1. TypeOK'
  BY NextTyped
<1>2. CASE DeleteTicket \/ UNCHANGED vars
  BY <1>1, <1>2 DEF DeleteTicket, vars, LoopInv, TokenInv, Decided
<1> QED
  BY <1>1, <1>2, WorkflowInd, RequestInd, StarterInd DEF Next

LEMMA Inductive == Spec => []IndInv
BY InitInd, NextInd, PTL DEF Spec

-----------------------------------------------------------------------------
(* The theorems.                                                           *)

\* In every reachable state the three records are well typed; in particular
\* the attempt counter never passes MaxAttempts and a retry counter never
\* passes MaxRetries.
THEOREM TypeCorrect == Spec => []TypeOK
<1>1. IndInv => TypeOK
  BY DEF IndInv
<1> QED
  BY <1>1, Inductive, PTL

\* However many requests decide, and however the attempts, the retries and
\* the faults interleave, one of them at most is taken on one wait: its
\* token is used up by the first, and a handler that is refused neither writes
\* its decision nor answers that it was taken (approve_ticket, reject_ticket,
\* decision/select, decision/custom, approval/callback, public-approve).
THEOREM OneDecision == Spec => []OneDecisionPerWait
<1>1. Init => OneDecisionPerWait
  BY DEF Init, OneDecisionPerWait, Decided, IdleRequest
<1>2. IndInv /\ OneDecisionPerWait /\ [Next]_vars => OneDecisionPerWait'
  <2> SUFFICES ASSUME IndInv, OneDecisionPerWait, [Next]_vars,
                      NEW r1 \in Requests, NEW r2 \in Requests, r1 # r2,
                      Decided(r1)', Decided(r2)',
                      req'[r1].token = req'[r2].token
               PROVE  FALSE
    BY DEF OneDecisionPerWait
  <2> USE DEF IndInv
  <2>1. CASE \E r \in Requests : Resume(r) /\ TokenIsLive(req[r].token)
    <3> PICK r \in Requests : Resume(r) /\ TokenIsLive(req[r].token)
      BY <2>1
    <3>1. \A q \in Requests : Decided(q)' =>
            /\ req'[q].token = req[q].token
            /\ q = r \/ Decided(q)
      BY ResumeDecides DEF TypeOK
    <3>2. \A q \in Requests : Decided(q) => req[q].token # req[r].token
      <4>1. wf.token \in Nat /\ \A q \in Requests : req[q].token \in Nat
        BY DEF TypeOK, Executions, RequestRecords
      <4> QED
        BY <4>1 DEF TokenInv, TokenIsLive
    <3> QED
      BY <3>1, <3>2 DEF OneDecisionPerWait
  <2>2. CASE ~\E r \in Requests : Resume(r) /\ TokenIsLive(req[r].token)
    <3>1. \A q \in Requests : Decided(q)' =>
            Decided(q) /\ req'[q].token = req[q].token
      <4>1. CASE req' = req
        BY <4>1 DEF Decided
      <4>2. CASE \E r \in Requests : Arrival(r) \/ Advance(r)
        BY <2>2, <4>2, OthersDecideNothing
      <4> QED
        BY <4>1, <4>2 DEF Next, vars, Workflow, AssessTicketAutomation,
          SearchSimilarCases, AssessTicketPlan, PersistPlan,
          MarkPlanUnavailable, WaitForApproval, AskForDecision,
          ApprovalTimesOut, ExecuteTicketPlan, VictorResults, PersistOutcome,
          MarkExecutionFailed, PersistFailure, CheckTicketStatus, RegisterCase,
          AlignTicket, TaskReturns, TaskRetries, TaskFails, Starter,
          StartAutomation, RecordArn, RecordStarted, DeleteTicket
    <3> QED
      BY <3>1 DEF OneDecisionPerWait
  <2> QED
    BY <2>1, <2>2
<1> QED
  BY <1>1, <1>2, Inductive, PTL DEF Spec

-----------------------------------------------------------------------------
(* Governance.                                                             *)

\* Where the recommended plan may still change.
Early == {"none", "AssessTicketAutomation", "SearchSimilarCases", "AssessTicketPlan"}

\* The role covers the recommended plan, which is there for good.
CoversRecommended(role) ==
  /\ wf.at \notin Early /\ wf.rec \in Plans
  /\ role >= RequiredRoleOf(Content[wf.rec])

\* A pending decision that waitForApproval wrote is on the recommended plan.
AskedInv ==
  ticket.pending.asked =>
    /\ Found /\ CoversRecommended(ticket.pending.role)
    /\ ticket.pending.rec = wf.rec
    /\ ticket.pending.open => ticket.pending.role <= 1

\* A request past its check carries a plan; one that its role reaches, unless
\* that rests on a pending decision which somebody else wrote.  A callback
\* that has only been checked carries the role for the recommended one.
ApprovalInv ==
  \A r \in Requests :
    /\ req[r].pc \in {"get", "put", "checked"} /\ req[r].kind \in Approving =>
         /\ req[r].plan \in Plans
         /\ req[r].basis # "other" => Reaches(req[r].role, req[r].plan)
    /\ req[r].pc = "looked" /\ req[r].kind = "public" => req[r].role = 1
    /\ req[r].pc = "routed" =>
         /\ req[r].kind \in {"callback", "callbackNo"}
         /\ req[r].basis # "other" => CoversRecommended(req[r].role)

\* The state machine executes what a request approved and nothing else, and
\* keeps to the plan that it recommended once.
LEMMA WorkflowKeepsApproval ==
  ASSUME TypeOK, Workflow
  PROVE  /\ wf'.at = "ExecuteTicketPlan" =>
              /\ wf.at = "ExecuteTicketPlan" /\ wf'.approved = wf.approved
              /\ wf'.approver = wf.approver /\ wf'.basis = wf.basis
         /\ wf.at \notin Early => wf'.at \notin Early /\ wf'.rec = wf.rec
<1>0. wf \in Executions /\ wf.token \in Nat
  BY DEF TypeOK, Executions
<1> USE <1>0 DEF Running, Early
<1>1. CASE \E step \in Steps, result \in Results : wf' = Step(step, result)
  <2> PICK step \in Steps, result \in Results : wf' = Step(step, result)
    BY <1>1
  <2>1. /\ Step(step, result).at = wf.at /\ Step(step, result).rec = wf.rec
        /\ Step(step, result).approved = wf.approved
        /\ Step(step, result).approver = wf.approver
        /\ Step(step, result).basis = wf.basis
    BY StepTyped
  <2> QED
    BY <2>1
<1>2. CASE AssessTicketPlan
  <2>1. wf.at = "AssessTicketPlan" /\ wf'.at = wf.at
    <3>1. CASE wf' = Step("raise", "error")
      BY <1>2, <3>1, StepTyped DEF AssessTicketPlan, Steps, Results
    <3>2. CASE wf' # Step("raise", "error")
      BY <1>2, <3>2 DEF AssessTicketPlan, Executions
    <3> QED
      BY <3>1, <3>2
  <2> QED
    BY <2>1
<1>3. CASE ExecuteTicketPlan
  BY <1>3 DEF ExecuteTicketPlan, VictorResults, Executions
<1>9. CASE RegisterCase
  <2>1. wf'.at = wf.at /\ wf'.rec = wf.rec /\ wf.at \in CaseTasks
    BY <1>9 DEF RegisterCase, Step, Executions
  <2> QED
    BY <2>1 DEF CaseTasks
<1>4. CASE ApprovalTimesOut
  <2>1. Enter("TimedOut", wf.token).at = "TimedOut" /\ Enter("TimedOut", wf.token).rec = wf.rec
    BY EnterTyped DEF Ends
  <2> QED
    BY <1>4, <2>1 DEF ApprovalTimesOut
<1>5. CASE TaskReturns
  <2> DEFINE next == Enter(NextState, wf.token)
  <2>1. next \in Executions /\ next.at = NextState /\ next.rec = wf.rec
    BY EnterTyped, NextStateTyped
  <2>2. /\ NextState # "ExecuteTicketPlan"
        /\ NextState \in Early => wf.at \in Early
    BY DEF NextState, AfterAttempt
  <2> HIDE DEF next
  <2>3. /\ wf'.at \in {NextState, "WaitForApproval"} /\ wf'.rec = wf.rec
    <3>1. CASE wf.at = "WaitForApproval"
      BY <1>5, <3>1, StepTyped DEF TaskReturns, Steps, Results
    <3>2. CASE wf.at = "CheckTicketStatus"
      <4>1. wf' = [next EXCEPT !.attempt =
                     IF wf.result = "no" THEN @ + 1 ELSE @]
        BY <1>5, <3>2 DEF TaskReturns, next
      <4> QED
        BY <2>1, <4>1 DEF Executions
    <3>3. CASE wf.at \notin {"WaitForApproval", "CheckTicketStatus"}
      BY <1>5, <2>1, <3>3 DEF TaskReturns, next
    <3> QED
      BY <3>1, <3>2, <3>3
  <2> QED
    BY <2>2, <2>3
<1>6. CASE TaskRetries
  <2> DEFINE next == Enter(wf.at, wf.token)
  <2>1. next \in Executions /\ next.at = wf.at /\ next.rec = wf.rec
    BY <1>6, EnterTyped DEF TaskRetries, Failing
  <2>2. wf' = [next EXCEPT !.retries = wf.retries + 1,
                           !.approved = wf.approved, !.approver = wf.approver,
                           !.basis = wf.basis]
    BY <1>6 DEF TaskRetries
  <2> HIDE DEF next
  <2> QED
    BY <2>1, <2>2 DEF Executions
<1>7. CASE TaskFails
  <2>1. wf'.at = CatchState /\ wf'.rec = wf.rec
    BY <1>7, EnterTyped, CatchStateTyped DEF TaskFails
  <2> QED
    BY <2>1 DEF CatchState
<1>8. wf.result \in Results
  BY DEF Executions, Results
<1> QED
  BY <1>1, <1>2, <1>3, <1>4, <1>5, <1>6, <1>7, <1>8, <1>9 DEF Workflow,
    AssessTicketAutomation, SearchSimilarCases, PersistPlan,
    MarkPlanUnavailable, WaitForApproval, AskForDecision, PersistOutcome,
    MarkExecutionFailed, PersistFailure, CheckTicketStatus,
    AlignTicket, Steps, Results

\* A role that covers a plan, or may select its steps, reaches every step.
LEMMA ApproverReaches ==
  ASSUME NEW role \in RoleRanks, NEW plan \in Plans,
         role >= RequiredRoleOf(Content[plan]) \/ SelectionAllowed(role, plan)
  PROVE  Reaches(role, plan)
<1> DEFINE bare == [Content[plan] EXCEPT !.level = "none"]
<1>1. Content[plan] \in PlanContents
  BY ConstantsAssumption
<1>2. bare \in PlanContents /\ bare.steps = Content[plan].steps
  BY <1>1 DEF PlanContents
<1>3. role \in 0..3
  BY DEF RoleRanks
<1> SUFFICES ASSUME NEW step \in Content[plan].steps,
                    NEW risk \in {Declared(step)} \cup CommandRisks(step.command)
             PROVE  role >= RequiredRank[risk]
  BY DEF Reaches
<1>4. CASE role >= RequiredRoleOf(Content[plan])
  BY <1>1, <1>3, <1>4, PlanRiskIsCeiling
<1>5. CASE SelectionAllowed(role, plan)
  <2>1. role >= RequiredRoleOf(bare)
    BY <1>5 DEF SelectionAllowed
  <2> HIDE DEF bare
  <2> QED
    BY <1>2, <1>3, <2>1, PlanRiskIsCeiling
<1> QED
  BY <1>4, <1>5

\* A role that meets the contract of a decision which waitForApproval wrote
\* covers, and reaches, what would be executed.
LEMMA ContractCovers ==
  ASSUME TypeOK, AskedInv, ticket.pending.asked, NEW role \in RoleRanks, MeetsContract(role)
  PROVE  CoversRecommended(role) /\ ExecutablePlan = wf.rec /\ Reaches(role, ExecutablePlan)
<1>1. /\ wf.at \notin Early /\ wf.rec \in Plans /\ ticket.pending.rec = wf.rec
      /\ ticket.pending.role >= RequiredRoleOf(Content[wf.rec])
  BY DEF AskedInv, CoversRecommended
<1>2. RequiredRoleOf(Content[wf.rec]) \in 1..3
  BY <1>1, RequiredIsRank, ConstantsAssumption
<1>3. role \in 0..3 /\ ticket.pending.role \in 0..3 /\ role >= ticket.pending.role
  BY PendingTyped DEF RoleRanks, MeetsContract
<1>4. role >= RequiredRoleOf(Content[wf.rec])
  BY <1>1, <1>2, <1>3
<1>5. ExecutablePlan = wf.rec
  BY <1>1, NoPlanAssumption DEF ExecutablePlan
<1> QED
  BY <1>1, <1>4, <1>5, ApproverReaches DEF CoversRecommended

\* What a request writes of a pending decision was not asked.
LEMMA RequestAsksNothing ==
  ASSUME TypeOK, NEW r \in Requests, Arrival(r) \/ Advance(r)
  PROVE  ticket'.pending = ticket.pending \/ ~ticket'.pending.asked
<1>0. ticket \in TicketItems /\ req[r] \in RequestRecords
  BY DEF TypeOK
<1>1. CASE UpdatePut(r)
  <2>1. CASE req[r].kind = "put"
    <3>1. ticket' = PutBy(req[r].body) /\ req[r].body \in Bodies
      BY <1>0, <1>1, <2>1 DEF UpdatePut, RequestRecords
    <3>2. PutBy(req[r].body).pending \in {ticket.pending, req[r].body.pending}
      BY <1>0 DEF PutBy, TicketItems
    <3>3. ~req[r].body.pending.asked
      BY <3>1 DEF Bodies
    <3> QED
      BY <3>1, <3>2, <3>3
  <2>2. CASE req[r].kind # "put"
    BY <1>0, <1>1, <2>2 DEF UpdatePut, TicketItems
  <2> QED
    BY <2>1, <2>2
<1>2. CASE WriteDecision(r)
  <2>1. ticket' \in {ticket, Approved, Rejected, Marked}
    BY <1>2 DEF WriteDecision
  <2>2. Approved.pending = ticket.pending /\ Rejected.pending = ticket.pending
    BY <1>0 DEF Approved, Rejected, TicketItems
  <2>3. Marked.pending = NoDecision /\ ~NoDecision.asked
    BY <1>0 DEF Marked, Approved, TicketItems, NoDecision
  <2> QED
    BY <2>1, <2>2, <2>3
<1>3. CASE ~UpdatePut(r) /\ ~WriteDecision(r)
  BY <1>3 DEF Arrival, Approve, Reject, Select, Custom, Choose, Put, SuperadminPut,
    CallbackLook, CallbackRoute, PublicApprove, Advance, UpdateGet, CallbackResolve,
    Resume, Answer, RequestDies
<1> QED
  BY <1>1, <1>2, <1>3

\* A request moves the execution only when it resumes it.
LEMMA RequestMoves ==
  ASSUME TypeOK, NEW r \in Requests, Arrival(r) \/ Advance(r)
  PROVE  \/ wf' = wf
         \/ /\ wf.at = "WaitForApproval" /\ wf'.rec = wf.rec
            /\ wf'.step = "start" /\ wf'.result = "none"
            /\ wf'.attempt = wf.attempt /\ wf'.retries = 0 /\ wf'.runs = wf.runs
            /\ wf'.succeeded = wf.succeeded /\ wf'.registered = wf.registered
            /\ \/ wf'.at = "RegisterRejectedCase"
               \/ /\ req[r].pc = "checked" /\ req[r].kind \in Approving
                  /\ wf'.at = "ExecuteTicketPlan" /\ wf'.approved = req[r].plan
                  /\ wf'.approver = req[r].role /\ wf'.basis = req[r].basis
<1>1. wf \in Executions /\ wf.token \in Nat /\ req[r] \in RequestRecords
  BY DEF TypeOK, Executions
<1> DEFINE exe == Enter("ExecuteTicketPlan", wf.token)
           rej == Enter("RegisterRejectedCase", wf.token)
<1>2. \/ wf' = wf
      \/ /\ wf.at = "WaitForApproval"
         /\ \/ wf' = rej
            \/ /\ req[r].pc = "checked" /\ req[r].kind \in Approving
               /\ wf' = [exe EXCEPT !.approved = req[r].plan, !.approver = req[r].role,
                                    !.basis = req[r].basis]
  BY DEF Arrival, Approve, Reject, Select, Custom, Choose, Put, SuperadminPut,
    CallbackLook, CallbackRoute, PublicApprove, Advance, UpdateGet, UpdatePut,
    CallbackResolve, Resume, TokenIsLive, WriteDecision, Answer, RequestDies
<1>3. /\ exe \in Executions /\ exe.at = "ExecuteTicketPlan" /\ exe.rec = wf.rec
      /\ exe.step = "start" /\ exe.result = "none" /\ exe.succeeded = wf.succeeded
      /\ exe.attempt = wf.attempt /\ exe.retries = 0 /\ exe.runs = wf.runs
      /\ exe.registered = wf.registered
  BY <1>1, EnterTyped, EnterRuns DEF Tasks
<1>4. /\ rej.at = "RegisterRejectedCase" /\ rej.rec = wf.rec
      /\ rej.step = "start" /\ rej.result = "none" /\ rej.succeeded = wf.succeeded
      /\ rej.attempt = wf.attempt /\ rej.retries = 0 /\ rej.runs = wf.runs
      /\ rej.registered = wf.registered
  BY <1>1, EnterTyped, EnterRuns DEF Tasks
<1> HIDE DEF exe, rej
<1> DEFINE new == [exe EXCEPT !.approved = req[r].plan, !.approver = req[r].role,
                              !.basis = req[r].basis]
<1>5. /\ new.at = exe.at /\ new.rec = exe.rec /\ new.step = exe.step
      /\ new.result = exe.result /\ new.succeeded = exe.succeeded
      /\ new.attempt = exe.attempt /\ new.retries = exe.retries /\ new.runs = exe.runs
      /\ new.registered = exe.registered /\ new.approved = req[r].plan
      /\ new.approver = req[r].role /\ new.basis = req[r].basis
  BY <1>3 DEF Executions
<1>6. CASE wf' = rej /\ wf.at = "WaitForApproval"
  BY <1>4, <1>6
<1>7. CASE /\ wf.at = "WaitForApproval" /\ req[r].pc = "checked"
           /\ req[r].kind \in Approving /\ wf' = new
  <2> HIDE DEF new
  <2> QED
    BY <1>3, <1>5, <1>7
<1> QED
  BY <1>2, <1>6, <1>7

\* A request never makes the item absent, and brings it back by an upsert only.
LEMMA RequestKeepsItem ==
  ASSUME TypeOK, NEW r \in Requests, Arrival(r) \/ Advance(r),
         ticket.item # "absent" \/ req[r].pc # "put"
  PROVE  ticket'.item = ticket.item
<1>0. ticket \in TicketItems
  BY DEF TypeOK
<1>1. CASE UpdatePut(r)
  <2>1. Upserted = ticket.item
    BY <1>1 DEF UpdatePut, Upserted
  <2> QED
    BY <1>0, <1>1, <2>1 DEF UpdatePut, PutBy, TicketItems
<1>2. CASE WriteDecision(r)
  BY <1>0, <1>2 DEF WriteDecision, Approved, Rejected, Marked, TicketItems
<1>3. CASE ~UpdatePut(r) /\ ~WriteDecision(r)
  BY <1>3 DEF Arrival, Approve, Reject, Select, Custom, Choose, Put, SuperadminPut,
    CallbackLook, CallbackRoute, PublicApprove, Advance, UpdateGet, CallbackResolve,
    Resume, Answer, RequestDies
<1> QED
  BY <1>1, <1>2, <1>3

\* Nor does the execution, of whose tasks one only writes a pending decision.
LEMMA WorkflowKeepsPending ==
  ASSUME TypeOK, Workflow, ~AskForDecision
  PROVE  /\ ticket'.pending = ticket.pending
         /\ ticket.item # "absent" => ticket'.item # "absent"
<1>0. ticket \in TicketItems
  BY DEF TypeOK
<1>1. CASE ticket' = ticket
  BY <1>1
<1>2. CASE AssessTicketAutomation \/ MarkPlanUnavailable
  BY <1>0, <1>2 DEF AssessTicketAutomation, MarkPlanUnavailable, SyncUnresolvable, TicketItems
<1>3. CASE PersistPlan
  BY <1>0, <1>3 DEF PersistPlan, Upserted, TicketItems
<1>4. CASE \E status \in Statuses, exec \in Execs : ticket' = WithStatus(status, exec)
  BY <1>0, <1>4 DEF WithStatus, Upserted, TicketItems
<1>5. CASE PersistOutcome \/ PersistFailure \/ AlignTicket
  BY <1>1, <1>4, <1>5 DEF PersistOutcome, PersistFailure, AlignTicket, FinalStatus, Statuses,
    Execs
<1> QED
  BY <1>1, <1>2, <1>3, <1>5 DEF Workflow, SearchSimilarCases, AssessTicketPlan,
    WaitForApproval, ApprovalTimesOut, ExecuteTicketPlan, MarkExecutionFailed,
    CheckTicketStatus, RegisterCase, TaskReturns, TaskRetries, TaskFails

\* Requests approve within their roles.
LEMMA RequestKeepsApproval ==
  ASSUME TypeOK, AskedInv, ApprovalInv, NEW r \in Requests, Arrival(r) \/ Advance(r)
  PROVE  AskedInv' /\ ApprovalInv'
<1> USE DEF TypeOK
<1>0. req[r] \in RequestRecords
  OBVIOUS
<1>1. \/ wf' = wf
      \/ wf.at \notin Early /\ wf'.at \notin Early /\ wf'.rec = wf.rec
  BY RequestMoves DEF Early
<1>2. AskedInv'
  <2>1. ticket'.pending = ticket.pending \/ ~ticket'.pending.asked
    BY RequestAsksNothing
  <2>2. Found => ticket'.item # "absent"
    BY RequestKeepsItem DEF Found
  <2> QED
    BY <1>1, <2>1, <2>2 DEF AskedInv, CoversRecommended, Found
<1> DEFINE Sound(x) ==
      /\ x.pc \in {"get", "put", "checked"} /\ x.kind \in Approving =>
           /\ x.plan \in Plans
           /\ x.basis # "other" => Reaches(x.role, x.plan)
      /\ x.pc = "looked" /\ x.kind = "public" => x.role = 1
      /\ x.pc = "routed" =>
           /\ x.kind \in {"callback", "callbackNo"}
           /\ x.basis # "other" => CoversRecommended(x.role)
<1>3. Sound(req[r])
  BY DEF ApprovalInv
<1>4. Basis # "other" => ticket.pending.asked /\ Found
  BY DEF Basis, AskedInv
<1>5. SUFFICES Sound(req'[r]) /\ \A q \in Requests \ {r} : req'[q] = req[q]
  BY <1>1, <1>2 DEF ApprovalInv, Reaches, CoversRecommended
<1>6. CASE Fail(r) \/ Succeed(r)
  BY <1>6, FailTyped, SucceedTyped
<1>7. CASE Approve(r)
  <2> PICK role \in CallerRoles :
        /\ MeetsContract(role) /\ ExecutablePlan # NoPlan
        /\ Made(r, "approve", "checked", role, ticket.pending.token,
                ExecutablePlan, Basis)
    BY <1>7 DEF Approve
  <2>1. ExecutablePlan \in Plans /\ role \in RoleRanks
    BY PendingTyped, ConstantsAssumption
  <2>2. Basis # "other" => Reaches(role, ExecutablePlan)
    BY <1>4, <2>1, ContractCovers
  <2> HIDE DEF Sound
  <2>3. Sound([pc |-> "checked", kind |-> "approve", role |-> role,
               token |-> ticket.pending.token, plan |-> ExecutablePlan,
               basis |-> Basis, body |-> OtherFields])
    BY <2>1, <2>2 DEF Sound
  <2> QED
    BY <2>3 DEF Made
<1>8. CASE Reject(r)
  BY <1>8 DEF Reject, Made, Approving
<1>9. CASE Select(r) \/ Custom(r)
  <2> PICK kind \in {"select", "custom"}, role \in CallerRoles, plan \in Plans :
        /\ SelectionAllowed(role, plan)
        /\ Made(r, kind, "get", role, ticket.pending.token, plan, "chosen")
    BY <1>9, PendingTyped DEF Select, Custom, Choose, OptionPlans, OwnPlans
  <2>1. Reaches(role, plan)
    BY ApproverReaches, ConstantsAssumption
  <2> QED
    BY <2>1 DEF Made
<1>10. CASE Put(r) \/ SuperadminPut(r)
  BY <1>10 DEF Put, SuperadminPut, Approving, IdleRequest
<1>11. CASE CallbackLook(r)
  <2> PICK kind \in {"callback", "callbackNo", "public", "publicNo"},
           role \in CallerRoles \cup {1} :
        /\ kind \in {"public", "publicNo"} => role = 1
        /\ Made(r, kind, "looked", role, ticket.pending.token, NoPlan, "none")
    BY <1>11 DEF CallbackLook
  <2> QED
    BY DEF Made
<1>12. CASE CallbackRoute(r) /\ ~Fail(r)
  <2> PICK new \in RequestRecords :
        /\ req' = [req EXCEPT ![r] = new]
        /\ new.pc = "routed" /\ new.basis = Basis /\ new.role = req[r].role
        /\ new.kind = req[r].kind /\ req[r].kind \in {"callback", "callbackNo"}
        /\ Found => MeetsContract(req[r].role)
    BY <1>12, CallbackResult DEF CallbackRoute
  <2>1. Basis # "other" => CoversRecommended(req[r].role)
    BY <1>0, <1>4, ContractCovers DEF RequestRecords
  <2> QED
    BY <2>1
<1>13. CASE CallbackResolve(r) /\ ~Fail(r)
  <2> PICK new \in RequestRecords :
        /\ req' = [req EXCEPT ![r] = new] /\ req[r].pc = "routed"
        /\ new.pc = "checked" /\ new.kind = req[r].kind /\ new.role = req[r].role
        /\ req[r].kind \in {"callback", "callbackNo"}
        /\ req[r].kind = "callback" =>
             /\ new.plan = ExecutablePlan /\ new.plan \in Plans
             /\ new.basis = IF ticket.pending.asked THEN req[r].basis ELSE "other"
    BY <1>3, <1>13, CallbackResult
  <2>1. CASE req[r].kind = "callback" /\ new.basis # "other"
    <3>1. ticket.pending.asked /\ CoversRecommended(req[r].role)
      BY <1>3, <2>1
    <3>2. ExecutablePlan = wf.rec
      BY <3>1, NoPlanAssumption DEF AskedInv, CoversRecommended, ExecutablePlan
    <3>3. Reaches(req[r].role, wf.rec)
      BY <1>0, <3>1, ApproverReaches DEF CoversRecommended, RequestRecords
    <3> QED
      BY <2>1, <3>2, <3>3
  <2>2. CASE req[r].kind = "callback" /\ new.basis = "other"
    BY <2>2
  <2>3. CASE req[r].kind = "callbackNo"
    BY <2>3 DEF Approving
  <2> QED
    BY <2>1, <2>2, <2>3
<1>14. CASE PublicApprove(r) /\ ~Fail(r)
  <2> PICK plan \in Plans \cup {NoPlan} :
        /\ req' = [req EXCEPT ![r] = [req[r] EXCEPT !.pc = "checked",
                                        !.plan = plan, !.basis = Basis]]
        /\ req[r].pc = "looked" /\ req[r].kind \in {"public", "publicNo"}
        /\ req[r].kind = "public" => plan = ExecutablePlan /\ plan \in Plans
        /\ Found => ticket.pending.open
    BY <1>14, PublicResult
  <2>1. /\ req'[r].pc = "checked" /\ req'[r].kind = req[r].kind
        /\ req'[r].role = req[r].role /\ req'[r].plan = plan /\ req'[r].basis = Basis
        /\ \A q \in Requests \ {r} : req'[q] = req[q]
    BY <1>0 DEF RequestRecords
  <2>2. CASE req[r].kind = "public" /\ Basis # "other"
    <3>1. req[r].role = 1 /\ ticket.pending.asked /\ ticket.pending.role <= 1
      BY <1>3, <1>4, <2>2 DEF AskedInv
    <3>2. MeetsContract(1) /\ 1 \in RoleRanks
      BY <3>1, PendingTyped DEF MeetsContract, RoleRanks
    <3>3. Reaches(req[r].role, ExecutablePlan)
      BY <3>1, <3>2, ContractCovers
    <3> QED
      BY <2>1, <2>2, <3>3
  <2>3. CASE req[r].kind = "public" /\ Basis = "other"
    BY <2>1, <2>3
  <2>4. CASE req[r].kind = "publicNo"
    BY <2>1, <2>4 DEF Approving
  <2> QED
    BY <2>1, <2>2, <2>3, <2>4
<1>15. CASE \E pc \in {"put", "checked"} :
              Become(r, pc) /\ req[r].pc \in {"get", "put"}
  <2> PICK pc \in {"put", "checked"} : Become(r, pc) /\ req[r].pc \in {"get", "put"}
    BY <1>15
  <2>1. /\ req'[r] = [req[r] EXCEPT !.pc = pc]
        /\ \A q \in Requests \ {r} : req'[q] = req[q]
    BY BecomeTyped DEF ReqPcs
  <2>2. /\ req'[r].pc = pc /\ req'[r].kind = req[r].kind /\ req'[r].role = req[r].role
        /\ req'[r].plan = req[r].plan /\ req'[r].basis = req[r].basis
    BY <1>0, <2>1 DEF RequestRecords
  <2> QED
    BY <1>3, <2>1, <2>2
<1>16. CASE \E pc \in {"resumed", "wrote", "conflict"} : Become(r, pc)
  BY <1>16, BecomeTyped DEF ReqPcs
<1> QED
  BY <1>6, <1>7, <1>8, <1>9, <1>10, <1>11, <1>12, <1>13, <1>14, <1>15, <1>16
  DEF Arrival, Advance, UpdateGet, UpdatePut, Resume, ResumeRefused, WriteDecision,
    Answer, RequestDies

\* A resumption hands the plan of the request, its role and what they rest on
\* to the execution.
LEMMA RequestKeepsGovernance ==
  ASSUME TypeOK, ApprovalInv, GovernanceRespected, NEW r \in Requests,
         Arrival(r) \/ Advance(r)
  PROVE  GovernanceRespected'
<1>1. CASE wf' = wf
  BY <1>1 DEF GovernanceRespected, Reaches
<1>2. CASE wf'.at = "RegisterRejectedCase"
  BY <1>2 DEF GovernanceRespected
<1>3. CASE /\ req[r].pc = "checked" /\ req[r].kind \in Approving
           /\ wf'.approved = req[r].plan /\ wf'.approver = req[r].role
           /\ wf'.basis = req[r].basis
  <2>1. /\ req[r].plan \in Plans
        /\ req[r].basis # "other" => Reaches(req[r].role, req[r].plan)
    BY <1>3 DEF ApprovalInv
  <2> QED
    BY <1>3, <2>1 DEF GovernanceRespected, Reaches
<1> QED
  BY <1>1, <1>2, <1>3, RequestMoves

\* The execution asks for a decision on the plan it recommends.
LEMMA WorkflowKeepsAsked ==
  ASSUME TypeOK, LoopInv, AskedInv, Workflow
  PROVE  AskedInv'
<1>0. wf \in Executions /\ ticket \in TicketItems /\ wf.token \in Nat
  BY DEF TypeOK, Executions
<1>1. wf.at \notin Early => wf'.at \notin Early /\ wf'.rec = wf.rec
  BY WorkflowKeepsApproval
<1>2. CASE AskForDecision
  <2> DEFINE asked == WithStatus("PREAPROBADO", "AWAITING_APPROVAL")
             decision == Asked(wf.token)
  <2>0. asked \in TicketItems
    BY <1>0, WithStatusTyped DEF Statuses, Execs
  <2>1. asked.item # "absent"
    <3>1. Upserted # "absent" /\ asked.item = Upserted
      BY <1>0 DEF Upserted, WithStatus, TicketItems
    <3> QED
      BY <3>1
  <2>2. /\ decision.rec = wf.rec /\ decision.role = RequiredRoleOf(Content[wf.rec])
        /\ decision.open => decision.role <= 1
    BY DEF Asked
  <2>3. ticket' = [asked EXCEPT !.pending = decision]
    BY <1>2 DEF AskForDecision
  <2> HIDE DEF asked, decision
  <2>4. ticket'.pending = decision /\ ticket'.item # "absent"
    BY <2>0, <2>1, <2>3 DEF TicketItems
  <2>5. wf.at \notin Early /\ wf.rec \in Plans
    BY <1>2 DEF AskForDecision, Running, Early, LoopInv
  <2>6. RequiredRoleOf(Content[wf.rec]) \in 1..3
    BY <2>5, RequiredIsRank, ConstantsAssumption
  <2> QED
    BY <1>1, <2>2, <2>4, <2>5, <2>6 DEF AskedInv, CoversRecommended, Found
<1>3. CASE ~AskForDecision
  <2>1. ticket'.pending = ticket.pending /\ (Found => ticket'.item # "absent")
    BY <1>0, <1>3, WorkflowKeepsPending DEF Found
  <2> QED
    BY <1>1, <2>1 DEF AskedInv, CoversRecommended, Found
<1> QED
  BY <1>2, <1>3

\* Whatever a PUT writes and a request races: Victor executes a plan only on
\* the word of a caller whose role reaches what every step of it declares and
\* its command implies, as far as the pending decision he was shown was the
\* one that the execution asked for (wait_for_approval, approve_ticket,
\* decision/select, decision/custom, approval_callback, public-approve).
THEOREM Governance == Spec => []GovernanceRespected
<1>1. Init => AskedInv /\ ApprovalInv /\ GovernanceRespected
  BY DEF Init, NewItem, NoItem, NoDecision, AskedInv, ApprovalInv, GovernanceRespected,
    IdleRequest
<1>2. /\ IndInv /\ AskedInv /\ ApprovalInv /\ GovernanceRespected /\ [Next]_vars
      => AskedInv' /\ ApprovalInv' /\ GovernanceRespected'
  <2> SUFFICES ASSUME IndInv, AskedInv, ApprovalInv, GovernanceRespected, [Next]_vars
               PROVE  AskedInv' /\ ApprovalInv' /\ GovernanceRespected'
    OBVIOUS
  <2> USE DEF IndInv
  <2>1. CASE Workflow
    <3>1. req' = req
      BY <2>1 DEF Workflow, AssessTicketAutomation, SearchSimilarCases,
        AssessTicketPlan, PersistPlan, MarkPlanUnavailable, WaitForApproval,
        AskForDecision, ApprovalTimesOut, ExecuteTicketPlan, VictorResults, PersistOutcome,
        MarkExecutionFailed, PersistFailure, CheckTicketStatus, RegisterCase,
        AlignTicket, TaskReturns, TaskRetries, TaskFails
    <3>2. AskedInv'
      BY <2>1, WorkflowKeepsAsked
    <3>3. ApprovalInv'
      BY <2>1, <3>1, WorkflowKeepsApproval DEF ApprovalInv, Reaches, CoversRecommended
    <3>4. GovernanceRespected'
      BY <2>1, WorkflowKeepsApproval DEF GovernanceRespected, Reaches
    <3> QED
      BY <3>2, <3>3, <3>4
  <2>2. CASE \E r \in Requests : Arrival(r) \/ Advance(r)
    BY <2>2, RequestKeepsApproval, RequestKeepsGovernance
  <2>3. CASE \E d \in Deliveries : Starter(d)
    <3>1. req' = req /\ (wf' = wf \/ (wf.at = "none" /\ wf'.at = "AssessTicketAutomation"))
      <4>1. Enter("AssessTicketAutomation", 0).at = "AssessTicketAutomation"
        BY EnterTyped DEF TypeOK, Tasks
      <4> QED
        BY <2>3, <4>1 DEF Starter, StartAutomation, RecordArn, RecordStarted
    <3>2. ticket'.pending = ticket.pending /\ ticket'.item = ticket.item
      BY <2>3 DEF TypeOK, TicketItems, Starter, StartAutomation, RecordArn, RecordStarted
    <3>3. ~CoversRecommended(0) \/ wf' = wf
      BY <3>1 DEF CoversRecommended, Early
    <3>4. \A role : CoversRecommended(role) => wf' = wf
      BY <3>1 DEF CoversRecommended, Early
    <3>5. AskedInv'
      BY <3>2, <3>4 DEF AskedInv, CoversRecommended, Found
    <3>6. ApprovalInv'
      BY <3>1, <3>4 DEF ApprovalInv, Reaches, CoversRecommended
    <3>7. GovernanceRespected'
      BY <3>1 DEF GovernanceRespected, Reaches
    <3> QED
      BY <3>5, <3>6, <3>7
  <2>4. CASE DeleteTicket \/ UNCHANGED vars
    BY <2>4 DEF DeleteTicket, NoItem, NoDecision, vars, AskedInv, Found, ApprovalInv,
      CoversRecommended, GovernanceRespected, Reaches
  <2> QED
    BY <2>1, <2>2, <2>3, <2>4 DEF Next
<1> QED
  BY <1>1, <1>2, Inductive, PTL DEF Spec

-----------------------------------------------------------------------------
(* How often Victor executes.                                              *)

\* The executions one approval may lead to, and those of the attempts before
\* a given one.
Most == MaxRetries + 1
Upto(attempt) == (attempt - 1) * Most

LEMMA UptoGrows ==
  /\ Most \in Nat /\ Most > 0
  /\ \A a \in Nat \ {0} : Upto(a) \in Nat /\ Upto(a + 1) = Upto(a) + Most
  /\ \A a, b \in Nat \ {0} : a <= b => Upto(a) <= Upto(b)
<1>1. Most \in Nat /\ Most > 0
  BY ConstantsAssumption DEF Most
<1>2. \A k, m \in Nat : k * m \in Nat /\ (k + 1) * m = k * m + m
  OBVIOUS
<1>3. ASSUME NEW a \in Nat \ {0}
      PROVE  Upto(a) \in Nat /\ Upto(a + 1) = Upto(a) + Most
  <2>1. a - 1 \in Nat /\ (a + 1) - 1 = (a - 1) + 1
    OBVIOUS
  <2> QED
    BY <1>1, <1>2, <2>1 DEF Upto
<1>4. ASSUME NEW a \in Nat \ {0}, NEW b \in Nat \ {0}, a <= b
      PROVE  Upto(a) <= Upto(b)
  <2>1. \A j, k, m \in Nat : j * m \in Nat /\ k * m \in Nat /\ (j + k) * m = j * m + k * m
    OBVIOUS
  <2>2. a - 1 \in Nat /\ b - a \in Nat /\ b - 1 = (a - 1) + (b - a)
    BY <1>4
  <2>3. Upto(b) = Upto(a) + (b - a) * Most /\ (b - a) * Most \in Nat /\ Upto(a) \in Nat
    BY <1>1, <2>1, <2>2 DEF Upto
  <2> QED
    BY <2>3
<1> QED
  BY <1>1, <1>3, <1>4

Before == {"none", "AssessTicketAutomation", "SearchSimilarCases", "AssessTicketPlan",
           "WaitForApproval"}

\* What Victor has executed when the execution stands where it stands: the
\* attempts before this one, and of this one the task's retries.
RunsInv ==
  /\ wf.at \in Before => wf.runs <= Upto(wf.attempt)
  /\ wf.at = "ExecuteTicketPlan" =>
       wf.runs <= Upto(wf.attempt) + wf.retries + (IF wf.step = "start" THEN 0 ELSE 1)
  /\ wf.at = "CheckTicketStatus" => wf.runs <= Upto(wf.attempt + 1)
  /\ wf.runs <= Upto(MaxAttempts)

\* CheckTicketStatus says yes or no.
Answered ==
  wf.at = "CheckTicketStatus" /\ wf.step = "done" => wf.result \in {"yes", "no"}

\* How the execution moves on: inside a task, by one of Victor's executions,
\* by a retry, or into another state.
Stays ==
  /\ wf'.at = wf.at /\ wf'.attempt = wf.attempt /\ wf'.retries = wf.retries
  /\ wf'.runs = wf.runs
  /\ wf.at = "ExecuteTicketPlan" => wf.step # "start" /\ wf'.step # "start"

Runs ==
  /\ wf.at = "ExecuteTicketPlan" /\ wf.step = "start" /\ wf'.step # "start"
  /\ wf'.at = wf.at /\ wf'.attempt = wf.attempt /\ wf'.retries = wf.retries
  /\ wf'.runs = wf.runs + 1

Retries ==
  /\ wf'.at = wf.at /\ wf'.step = "start" /\ wf'.attempt = wf.attempt
  /\ wf'.retries = wf.retries + 1 /\ wf'.runs = wf.runs

Enters ==
  /\ wf'.runs = wf.runs
  /\ wf'.at \in Before => \/ wf.at \in Before /\ wf'.attempt = wf.attempt
                          \/ wf.at = "CheckTicketStatus" /\ wf'.attempt = wf.attempt + 1
  /\ wf'.at = "ExecuteTicketPlan" =>
       /\ wf.at = "WaitForApproval" /\ wf'.attempt = wf.attempt
       /\ wf'.step = "start" /\ wf'.retries = 0
  /\ wf'.at = "CheckTicketStatus" =>
       wf.at = "ExecuteTicketPlan" /\ wf'.attempt = wf.attempt

LEMMA MovesKeepRuns ==
  ASSUME TypeOK, TypeOK', LoopInv, RunsInv, Stays \/ Runs \/ Retries \/ Enters
  PROVE  RunsInv'
<1> DEFINE a == wf.attempt
<1>1. /\ a \in Nat \ {0} /\ a + 1 \in Nat \ {0} /\ MaxAttempts \in Nat \ {0}
      /\ wf.retries \in Nat /\ wf.retries <= MaxRetries /\ MaxRetries \in Nat
      /\ wf.runs \in Nat /\ wf'.retries \in Nat /\ wf'.retries <= MaxRetries
  BY ConstantsAssumption DEF TypeOK, Executions
<1>2. /\ Upto(a) \in Nat /\ Upto(a + 1) = Upto(a) + Most /\ Most = MaxRetries + 1
      /\ Upto(MaxAttempts) \in Nat
  BY <1>1, UptoGrows DEF Most
<1>3. /\ wf.at = "ExecuteTicketPlan" => Upto(a + 1) <= Upto(MaxAttempts)
  <2>1. wf.at = "ExecuteTicketPlan" => a + 1 <= MaxAttempts
    BY <1>1 DEF LoopInv
  <2> QED
    BY <1>1, <2>1, UptoGrows
<1>4. wf.at = "ExecuteTicketPlan" /\ wf.step = "start" =>
        /\ wf.runs + 1 <= Upto(a) + wf.retries + 1
        /\ wf.runs + 1 <= Upto(MaxAttempts)
  BY <1>1, <1>2, <1>3 DEF RunsInv
<1>5. wf.at = "ExecuteTicketPlan" => wf.runs <= Upto(a + 1)
  BY <1>1, <1>2 DEF RunsInv
<1>6. CASE Stays
  BY <1>6 DEF Stays, RunsInv
<1>7. CASE Runs
  BY <1>4, <1>7 DEF Runs, RunsInv, Before
<1>8. CASE Retries
  <2>1. wf.at = "ExecuteTicketPlan" => wf.runs <= Upto(a) + (wf.retries + 1)
    BY <1>1, <1>2 DEF RunsInv
  <2>2. wf'.at = "ExecuteTicketPlan" => wf'.runs <= Upto(wf'.attempt) + wf'.retries + 0
    BY <1>1, <1>2, <1>8, <2>1 DEF Retries
  <2> QED
    BY <1>8, <2>2 DEF Retries, RunsInv
<1>9. CASE Enters
  <2>1. wf'.at \in Before => wf'.runs <= Upto(wf'.attempt)
    BY <1>9 DEF Enters, RunsInv
  <2>2. wf'.at = "ExecuteTicketPlan" => wf'.runs <= Upto(wf'.attempt) + wf'.retries + 0
    <3>1. wf.at = "WaitForApproval" => wf.runs <= Upto(a)
      BY DEF RunsInv, Before
    <3>2. wf'.at = "ExecuteTicketPlan" => wf'.retries = 0
      BY <1>9 DEF Enters
    <3>3. wf'.at = "ExecuteTicketPlan" => wf'.runs <= Upto(a) /\ wf'.attempt = a
      BY <1>9, <3>1 DEF Enters
    <3> QED
      BY <1>2, <3>2, <3>3
  <2>3. wf'.at = "CheckTicketStatus" => wf'.runs <= Upto(wf'.attempt + 1)
    BY <1>5, <1>9 DEF Enters
  <2>4. wf'.at = "ExecuteTicketPlan" => wf'.step = "start"
    BY <1>9 DEF Enters
  <2>5. wf'.runs = wf.runs
    BY <1>9 DEF Enters
  <2> QED
    BY <2>1, <2>2, <2>3, <2>4, <2>5 DEF RunsInv
<1> QED
  BY <1>6, <1>7, <1>8, <1>9

LEMMA StepStays ==
  ASSUME wf \in Executions, NEW step \in Steps, NEW result \in Results,
         wf' = Step(step, result),
         wf.at = "ExecuteTicketPlan" => wf.step # "start" /\ step # "start"
  PROVE  Stays
BY DEF Step, Executions, Results, Stays

LEMMA WorkflowMoves ==
  ASSUME TypeOK, Answered, Workflow
  PROVE  Stays \/ Runs \/ Retries \/ Enters
<1>0. /\ wf \in Executions /\ wf.token \in Nat /\ wf.attempt \in Nat /\ wf.runs \in Nat
      /\ wf.retries \in Nat /\ wf.result \in Results
  BY ConstantsAssumption DEF TypeOK, Executions, Results
<1> USE <1>0 DEF Running
<1>1. CASE AssessTicketAutomation \/ SearchSimilarCases \/ PersistPlan \/ MarkPlanUnavailable
  BY <1>1, StepStays DEF AssessTicketAutomation, SearchSimilarCases, PersistPlan,
    MarkPlanUnavailable, Steps, Results
<1>2. CASE AssessTicketPlan
  <2>1. CASE wf' = Step("raise", "error")
    BY <1>2, <2>1, StepStays DEF AssessTicketPlan, Steps, Results
  <2>2. CASE \E rec \in Plans, others \in SUBSET Plans :
               wf' = [wf EXCEPT !.rec = rec, !.opts = {rec} \cup others,
                                !.step = IF Found THEN "write" ELSE "done"]
    BY <1>2, <2>2 DEF AssessTicketPlan, Executions, Stays
  <2> QED
    BY <1>2, <2>1, <2>2 DEF AssessTicketPlan
<1>3. CASE WaitForApproval \/ AskForDecision \/ MarkExecutionFailed \/ PersistFailure
  BY <1>3, StepStays DEF WaitForApproval, AskForDecision, MarkExecutionFailed,
    PersistFailure, Steps, Results
<1>4. CASE CheckTicketStatus \/ AlignTicket
  BY <1>4, StepStays DEF CheckTicketStatus, AlignTicket, CaseTasks, Steps, Results
<1>11. CASE RegisterCase
  BY <1>11, RegisterTells DEF Stays, CaseTasks
<1>5. CASE PersistOutcome
  BY <1>5, StepStays DEF PersistOutcome, Steps
<1>6. CASE ApprovalTimesOut
  <2>0. wf' = Enter("TimedOut", wf.token) /\ "TimedOut" \in Tasks \cup Ends
    BY <1>6 DEF ApprovalTimesOut, Ends
  <2>1. wf'.at = "TimedOut" /\ wf'.runs = wf.runs
    BY <2>0, EnterTyped, EnterRuns
  <2> QED
    BY <2>1 DEF Enters, Before
<1>7. CASE ExecuteTicketPlan
  <2>1. /\ wf.at = "ExecuteTicketPlan" /\ wf.step = "start" /\ wf'.step # "start"
        /\ wf'.at = wf.at /\ wf'.attempt = wf.attempt /\ wf'.retries = wf.retries
        /\ wf'.runs = wf.runs + 1
    BY <1>7 DEF ExecuteTicketPlan, VictorResults, Executions
  <2> QED
    BY <2>1 DEF Runs
<1>8. CASE TaskReturns
  <2> DEFINE next == Enter(NextState, wf.token)
  <2>0. wf.step = "done" /\ wf.at \in Tasks
    BY <1>8 DEF TaskReturns
  <2>1. /\ next \in Executions /\ next.at = NextState /\ next.attempt = wf.attempt
        /\ next.runs = wf.runs
    BY EnterTyped, EnterRuns, NextStateTyped
  <2> HIDE DEF next
  <2>2. CASE wf.at = "WaitForApproval"
    BY <1>8, <2>2, StepStays DEF TaskReturns, Steps, Results
  <2>3. CASE wf.at = "CheckTicketStatus"
    <3>1. wf' = [next EXCEPT !.attempt = IF wf.result = "no" THEN @ + 1 ELSE @]
      BY <1>8, <2>3 DEF TaskReturns, next
    <3>2. /\ wf'.at = NextState /\ wf'.runs = wf.runs
          /\ wf.result = "no" => wf'.attempt = wf.attempt + 1
      BY <2>1, <3>1 DEF Executions
    <3>3. /\ NextState \in {"RegisterSuccessfulCase", "RegisterFailedCase",
                            "WaitForApproval"}
          /\ NextState = "WaitForApproval" => wf.result = "no"
      BY <2>0, <2>3 DEF NextState, AfterAttempt, Answered
    <3> QED
      BY <2>3, <3>2, <3>3 DEF Enters, Before
  <2>4. CASE wf.at \notin {"WaitForApproval", "CheckTicketStatus"}
    <3>1. wf' = next
      BY <1>8, <2>4 DEF TaskReturns, next
    <3>2. NextState \in Before => wf.at \in Before
      BY <2>4 DEF NextState, AfterAttempt, Before
    <3>3. NextState # "ExecuteTicketPlan"
      BY DEF NextState, AfterAttempt
    <3>4. NextState = "CheckTicketStatus" => wf.at = "ExecuteTicketPlan"
      BY <2>4 DEF NextState, AfterAttempt
    <3> QED
      BY <2>1, <3>1, <3>2, <3>3, <3>4 DEF Enters
  <2> QED
    BY <2>2, <2>3, <2>4
<1>9. CASE TaskRetries
  <2> DEFINE next == Enter(wf.at, wf.token)
  <2>0. wf.at \in Tasks
    BY <1>9 DEF TaskRetries, Failing
  <2>1. /\ next \in Executions /\ next.at = wf.at /\ next.step = "start"
        /\ next.attempt = wf.attempt /\ next.runs = wf.runs
    BY <2>0, EnterTyped, EnterRuns
  <2>2. wf' = [next EXCEPT !.retries = wf.retries + 1,
                           !.approved = wf.approved, !.approver = wf.approver,
                           !.basis = wf.basis]
    BY <1>9 DEF TaskRetries
  <2> HIDE DEF next
  <2> QED
    BY <2>1, <2>2 DEF Executions, Retries
<1>10. CASE TaskFails
  <2>1. wf'.at = CatchState /\ wf'.runs = wf.runs
    BY <1>10, EnterTyped, EnterRuns, CatchStateTyped DEF TaskFails
  <2>2. CatchState \in
          {"MarkPlanUnavailable", "MarkExecutionFailed", "ExecutionFailed"}
    BY DEF CatchState
  <2> QED
    BY <2>1, <2>2 DEF Enters, Before
<1> QED
  BY <1>1, <1>2, <1>3, <1>4, <1>5, <1>6, <1>7, <1>8, <1>9, <1>10, <1>11 DEF Workflow

LEMMA WorkflowAnswers ==
  ASSUME TypeOK, Answered, Workflow
  PROVE  Answered'
<1>0. wf \in Executions /\ wf.token \in Nat /\ wf.result \in Results
  BY DEF TypeOK, Executions, Results
<1> USE <1>0 DEF Running, Answered
<1>1. CASE CheckTicketStatus
  <2>1. PICK result \in {"yes", "no", "error"} :
          wf' = Step(IF result = "error" THEN "raise" ELSE "done", result)
    BY <1>1 DEF CheckTicketStatus
  <2>2. (IF result = "error" THEN "raise" ELSE "done") \in Steps /\ result \in Results
    BY DEF Steps, Results
  <2>3. wf'.step = (IF result = "error" THEN "raise" ELSE "done") /\ wf'.result = result
    BY <2>1, <2>2 DEF Step, Executions
  <2> QED
    BY <2>3
<1>2. CASE AssessTicketAutomation \/ SearchSimilarCases \/ PersistPlan \/ MarkPlanUnavailable
           \/ WaitForApproval \/ AskForDecision \/ PersistOutcome
  <2>1. wf.at # "CheckTicketStatus" /\ \E step \in Steps, result \in Results :
                                          wf' = Step(step, result)
    BY <1>2 DEF AssessTicketAutomation, SearchSimilarCases, PersistPlan,
      MarkPlanUnavailable, WaitForApproval, AskForDecision, PersistOutcome, Steps, Results
  <2>2. PICK step \in Steps, result \in Results : wf' = Step(step, result)
    BY <2>1
  <2> QED
    BY <2>1, <2>2, StepTyped
<1>8. CASE RegisterCase
  BY <1>8, RegisterTells DEF CaseTasks
<1>3. CASE MarkExecutionFailed \/ PersistFailure \/ AlignTicket
  <2>1. wf.at # "CheckTicketStatus" /\ \E step \in Steps, result \in Results :
                                          wf' = Step(step, result)
    BY <1>3 DEF MarkExecutionFailed, PersistFailure, AlignTicket, CaseTasks, Steps, Results
  <2>2. PICK step \in Steps, result \in Results : wf' = Step(step, result)
    BY <2>1
  <2> QED
    BY <2>1, <2>2, StepTyped
<1>4. CASE AssessTicketPlan \/ ExecuteTicketPlan
  BY <1>4 DEF AssessTicketPlan, ExecuteTicketPlan, Step, Executions
<1>5. CASE ApprovalTimesOut \/ TaskFails
  <2>1. \E state \in Tasks \cup Ends : wf' = Enter(state, wf.token)
    BY <1>5, CatchStateTyped DEF ApprovalTimesOut, TaskFails, Ends
  <2> QED
    BY <2>1, EnterTyped
<1>6. CASE TaskRetries
  <2> DEFINE next == Enter(wf.at, wf.token)
  <2>1. next \in Executions /\ next.step = "start"
    BY <1>6, EnterTyped DEF TaskRetries, Failing
  <2>2. wf' = [next EXCEPT !.retries = wf.retries + 1,
                           !.approved = wf.approved, !.approver = wf.approver,
                           !.basis = wf.basis]
    BY <1>6 DEF TaskRetries
  <2> HIDE DEF next
  <2> QED
    BY <2>1, <2>2 DEF Executions
<1>7. CASE TaskReturns
  <2> DEFINE next == Enter(NextState, wf.token)
  <2>1. next \in Executions /\ next.step = "start"
    BY EnterTyped, NextStateTyped
  <2>2. \/ wf.at = "WaitForApproval" /\ wf' = Step("waiting", "none")
        \/ wf' = [next EXCEPT !.attempt = IF wf.result = "no" THEN @ + 1 ELSE @]
        \/ wf' = next
    BY <1>7 DEF TaskReturns
  <2> HIDE DEF next
  <2> QED
    BY <2>1, <2>2, StepTyped DEF Executions, Steps, Results
<1> QED
  BY <1>1, <1>2, <1>3, <1>4, <1>5, <1>6, <1>7, <1>8 DEF Workflow

\* A request moves the execution only when it resumes it, and a starter only
\* when it starts it.
LEMMA OthersMove ==
  ASSUME TypeOK, LoopInv,
         \/ \E r \in Requests : Arrival(r) \/ Advance(r)
         \/ \E d \in Deliveries : Starter(d)
         \/ DeleteTicket
  PROVE  wf' = wf \/ (Enters /\ wf'.step = "start")
<1>0. wf \in Executions /\ wf.token \in Nat
  BY DEF TypeOK, Executions
<1>1. CASE \E r \in Requests : Arrival(r) \/ Advance(r)
  BY <1>1, RequestMoves DEF Enters, Before
<1>2. CASE \E d \in Deliveries : Starter(d)
  <2> DEFINE new == Enter("AssessTicketAutomation", 0)
  <2>1. wf' = wf \/ (wf.at = "none" /\ wf' = new)
    BY <1>2 DEF Starter, StartAutomation, RecordArn, RecordStarted
  <2>2. /\ new.at = "AssessTicketAutomation" /\ new.attempt = wf.attempt
        /\ new.runs = wf.runs /\ new.step = "start"
    BY <1>0, EnterTyped, EnterRuns DEF Tasks
  <2> HIDE DEF new
  <2> QED
    BY <2>1, <2>2 DEF Enters, Before
<1>3. CASE DeleteTicket
  BY <1>3 DEF DeleteTicket
<1> QED
  BY <1>1, <1>2, <1>3

LEMMA RunsInvNext ==
  IndInv /\ Answered /\ RunsInv /\ [Next]_vars => Answered' /\ RunsInv'
<1> SUFFICES ASSUME IndInv, Answered, RunsInv, [Next]_vars PROVE Answered' /\ RunsInv'
  OBVIOUS
<1>1. TypeOK /\ LoopInv /\ TypeOK'
  BY NextTyped DEF IndInv
<1>2. CASE wf' = wf
  BY <1>2 DEF Answered, RunsInv
<1>3. CASE Workflow
  BY <1>1, <1>3, WorkflowMoves, WorkflowAnswers, MovesKeepRuns
<1>4. CASE Enters /\ wf'.step = "start"
  BY <1>1, <1>4, MovesKeepRuns DEF Answered
<1> QED
  BY <1>1, <1>2, <1>3, <1>4, OthersMove DEF Next, vars

\* Whoever approves how often: Victor executes no more often than the attempts
\* and the retries of the task allow.
THEOREM ExecutesBounded == Spec => []ExecutionsBounded
<1>1. Init => Answered /\ RunsInv
  <2> SUFFICES ASSUME Init PROVE Answered /\ RunsInv
    OBVIOUS
  <2>1. wf.at = "none" /\ wf.runs = 0 /\ wf.attempt = 1
    BY DEF Init
  <2>2. 0 <= Upto(1) /\ 0 <= Upto(MaxAttempts)
    BY UptoGrows, ConstantsAssumption
  <2> QED
    BY <2>1, <2>2 DEF Answered, RunsInv
<1>2. RunsInv => ExecutionsBounded
  BY DEF RunsInv, ExecutionsBounded, Upto, Most
<1> QED
  BY <1>1, <1>2, RunsInvNext, Inductive, PTL DEF Spec

-----------------------------------------------------------------------------
(* The ticket tells one story, and the story of its execution.             *)

Final == {"RESUELTO", "FALLIDO", "RECHAZADO"}

\* RESUELTO is written, read and registered only after Victor's success.
SuccessInv ==
  /\ "RESUELTO" \in {ticket.status, wf.registered} => wf.succeeded
  /\ wf.at = "ExecuteTicketPlan" /\ wf.result = "ok" => wf.succeeded
  /\ wf.at = "CheckTicketStatus" /\ wf.result = "yes" => wf.succeeded
  /\ wf.at = "RegisterSuccessfulCase" => wf.succeeded

\* The ticket has the status of the case, from the task that aligns the two on.
ClosingInv ==
  /\ wf.at \in CaseTasks /\ wf.step = "done" => ticket.status = FinalStatus(wf.at)
  /\ wf.at = "EndCaseRegistered" => ticket.status = wf.registered

Tale ==
  /\ ticket.item = "whole" /\ StatusMatchesExecution
  /\ SuccessInv /\ ClosingInv
  /\ ticket.status = "RECHAZADO" => ToldNo

Story == ticket.touched \/ Tale

\* Which case is registered, and that one is before an execution ends well.
RegInv ==
  /\ wf.registered # "none" => wf.at \in CaseTasks \cup {"EndCaseRegistered", "ExecutionFailed"}
  /\ wf.at \in CaseTasks => wf.registered \in {"none", FinalStatus(wf.at)}
  /\ wf.at \in CaseTasks /\ wf.step \in {"write", "done"} => wf.registered # "none"
  /\ wf.at = "EndCaseRegistered" => wf.registered \in Final

\* A rejection that resumed the execution has told it so.
ToldInv ==
  \A r \in Requests : req[r].pc = "resumed" /\ req[r].kind = "reject" => ToldNo

LEMMA StepTells ==
  ASSUME wf \in Executions, NEW step \in Steps, NEW result \in Results
  PROVE  /\ Step(step, result).at = wf.at /\ Step(step, result).step = step
         /\ Step(step, result).result = result
         /\ Step(step, result).succeeded = wf.succeeded
         /\ Step(step, result).registered = wf.registered
BY DEF Step, Executions, Results

LEMMA WithStatusTells ==
  ASSUME ticket \in TicketItems, ticket.item = "whole", NEW status, NEW exec
  PROVE  /\ WithStatus(status, exec).status = status
         /\ WithStatus(status, exec).exec = exec
         /\ WithStatus(status, exec).item = "whole"
BY DEF WithStatus, Upserted, TicketItems

LEMMA SyncTells ==
  ASSUME ticket \in TicketItems, ticket.item = "whole", StatusMatchesExecution,
         NEW outcome \in {"CANNOT_RESOLVE", "ASSESSMENT_FAILED"},
         SyncUnresolvable(outcome)
  PROVE  /\ ticket'.item = "whole" /\ StatusMatchesExecution'
         /\ ticket'.status \in {ticket.status, "DERIVADO"}
<1>1. CASE ticket' = ticket
  BY <1>1 DEF StatusMatchesExecution
<1>2. CASE ticket' = [ticket EXCEPT !.status = "DERIVADO", !.exec = outcome,
                                    !.assessed = TRUE]
  BY <1>2 DEF StatusMatchesExecution, TicketItems
<1> QED
  BY <1>1, <1>2 DEF SyncUnresolvable

\* The execution registers one case, and does not forget a rejection.
LEMMA WorkflowRegisters ==
  ASSUME TypeOK, RegInv, Workflow
  PROVE  RegInv' /\ (ToldNo => ToldNo')
<1>0. wf \in Executions /\ wf.token \in Nat /\ wf.result \in Results
  BY DEF TypeOK, Executions, Results
<1> USE <1>0 DEF Running
<1>1. CASE /\ wf.at \in Tasks \ CaseTasks /\ wf'.at = wf.at
           /\ wf'.registered = wf.registered
  BY <1>1 DEF RegInv, ToldNo, Tasks
<1>2. CASE \E step \in Steps, result \in Results :
             wf.at \in Tasks \ CaseTasks /\ wf' = Step(step, result)
  BY <1>1, <1>2, StepTells
<1>3. CASE AssessTicketPlan \/ ExecuteTicketPlan
  <2>1. wf'.at = wf.at /\ wf'.registered = wf.registered /\ wf.at \in Tasks \ CaseTasks
    BY <1>3 DEF AssessTicketPlan, ExecuteTicketPlan, Step, Executions, Tasks, CaseTasks
  <2> QED
    BY <1>1, <2>1
<1>4. CASE RegisterCase
  BY <1>4, RegisterTells DEF RegInv, ToldNo, FinalStatus, CaseTasks
<1>5. CASE AlignTicket
  <2>1. /\ wf.at \in CaseTasks /\ wf.step = "write" /\ wf'.at = wf.at
        /\ wf'.registered = wf.registered
    BY <1>5, StepTells DEF AlignTicket, Steps, Results
  <2> QED
    BY <2>1 DEF RegInv, ToldNo, CaseTasks
<1>6. CASE ApprovalTimesOut
  <2>1. wf.at = "WaitForApproval" /\ wf'.at = "TimedOut" /\ wf'.registered = wf.registered
    BY <1>6, EnterTyped, EnterRuns DEF ApprovalTimesOut, Ends
  <2> QED
    BY <2>1 DEF RegInv, ToldNo, CaseTasks
<1>7. CASE TaskFails
  <2>1. /\ wf.at \in Tasks /\ wf'.at = CatchState /\ wf'.registered = wf.registered
        /\ wf'.step = "start"
    BY <1>7, EnterTyped, EnterRuns, CatchStateTyped DEF TaskFails, Failing
  <2>2. wf.at \in CaseTasks => CatchState = "ExecutionFailed"
    BY DEF CatchState, CaseTasks
  <2>3. CatchState \notin CaseTasks \cup {"EndCaseRegistered"}
    BY DEF CatchState, CaseTasks
  <2> QED
    BY <2>1, <2>2, <2>3 DEF RegInv, ToldNo, Tasks, CaseTasks
<1>8. CASE TaskRetries
  <2> DEFINE next == Enter(wf.at, wf.token)
  <2>1. /\ next \in Executions /\ next.at = wf.at /\ next.step = "start"
        /\ next.registered = wf.registered
    BY <1>8, EnterTyped, EnterRuns DEF TaskRetries, Failing
  <2>2. wf' = [next EXCEPT !.retries = wf.retries + 1,
                           !.approved = wf.approved, !.approver = wf.approver,
                           !.basis = wf.basis]
    BY <1>8 DEF TaskRetries
  <2> HIDE DEF next
  <2>3. wf'.at = wf.at /\ wf'.step = "start" /\ wf'.registered = wf.registered
    BY <2>1, <2>2 DEF Executions
  <2> QED
    BY <2>3 DEF RegInv, ToldNo
<1>9. CASE TaskReturns
  <2> DEFINE next == Enter(NextState, wf.token)
  <2>0. wf.step = "done" /\ wf.at \in Tasks
    BY <1>9 DEF TaskReturns
  <2>1. /\ next \in Executions /\ next.at = NextState /\ next.step = "start"
        /\ next.registered = wf.registered
    BY EnterTyped, EnterRuns, NextStateTyped
  <2> HIDE DEF next
  <2>2. CASE wf.at = "WaitForApproval"
    <3>1. wf' = Step("waiting", "none")
      BY <1>9, <2>2 DEF TaskReturns
    <3> QED
      BY <1>2, <2>2, <3>1 DEF Tasks, CaseTasks, Steps, Results
  <2>3. CASE wf.at # "WaitForApproval"
    <3>1. \/ wf' = [next EXCEPT !.attempt = IF wf.result = "no" THEN @ + 1 ELSE @]
          \/ wf' = next
      BY <1>9, <2>3 DEF TaskReturns, next
    <3>2. wf'.at = NextState /\ wf'.step = "start" /\ wf'.registered = wf.registered
      BY <2>1, <3>1 DEF Executions
    <3>3. wf.at \in CaseTasks => NextState = "EndCaseRegistered"
      BY DEF NextState, CaseTasks
    <3>4. wf.at \notin CaseTasks => NextState # "EndCaseRegistered"
      BY <2>0, <2>3 DEF NextState, AfterAttempt, Tasks, CaseTasks
    <3>5. CASE wf.at \in CaseTasks
      <4>1. wf.registered = FinalStatus(wf.at) /\ FinalStatus(wf.at) \in Final
        BY <2>0, <3>5 DEF RegInv, FinalStatus, Final
      <4> QED
        BY <3>2, <3>3, <3>5, <4>1 DEF RegInv, ToldNo, FinalStatus, CaseTasks
    <3>6. CASE wf.at \notin CaseTasks
      <4>1. wf.registered = "none" /\ ~ToldNo
        BY <2>0, <3>6 DEF RegInv, ToldNo, Tasks, CaseTasks
      <4> QED
        BY <3>2, <3>4, <3>6, <4>1 DEF RegInv
    <3> QED
      BY <3>5, <3>6
  <2> QED
    BY <2>2, <2>3
<1> QED
  BY <1>2, <1>3, <1>4, <1>5, <1>6, <1>7, <1>8, <1>9 DEF Workflow, AssessTicketAutomation,
    SearchSimilarCases, PersistPlan, MarkPlanUnavailable, WaitForApproval, AskForDecision,
    PersistOutcome, MarkExecutionFailed, PersistFailure, CheckTicketStatus, Steps, Results,
    Tasks, CaseTasks

\* A step inside a task that registers no case and does not check the ticket.
LEMMA InsideKeeps ==
  ASSUME TypeOK, Tale, wf.at \in Tasks \ CaseTasks, wf'.at = wf.at,
         wf'.succeeded = wf.succeeded, wf'.registered = wf.registered,
         wf.at \in {"ExecuteTicketPlan", "CheckTicketStatus"} =>
           wf'.result \in {"none", "bad", "error", wf.result},
         ticket'.item = "whole", StatusMatchesExecution',
         ticket'.status = "RESUELTO" => ticket.status = "RESUELTO" \/ wf.succeeded,
         ticket'.status = "RECHAZADO" => ticket.status = "RECHAZADO"
  PROVE  Tale'
BY DEF Tale, SuccessInv, ClosingInv, ToldNo, Tasks

LEMMA EnterKeeps ==
  ASSUME TypeOK, Tale, ticket' = ticket, wf'.step = "start", wf'.result = "none",
         wf'.succeeded = wf.succeeded, wf'.registered = wf.registered,
         wf'.at = "RegisterSuccessfulCase" => wf.succeeded,
         wf'.at = "EndCaseRegistered" => ticket.status = wf.registered,
         ToldNo => ToldNo'
  PROVE  Tale'
BY DEF Tale, SuccessInv, ClosingInv, StatusMatchesExecution

LEMMA WorkflowKeepsTale ==
  ASSUME TypeOK, RegInv, Tale, Workflow
  PROVE  Tale'
<1>0. /\ wf \in Executions /\ wf.token \in Nat /\ wf.result \in Results
      /\ ticket \in TicketItems /\ ticket.item = "whole" /\ StatusMatchesExecution
      /\ Found /\ (ToldNo => ToldNo')
  BY WorkflowRegisters DEF TypeOK, Executions, Results, Tale, Found
<1> USE <1>0 DEF Running
<1>1. CASE AssessTicketAutomation \/ MarkPlanUnavailable
  <2>1. /\ wf.at \in {"AssessTicketAutomation", "MarkPlanUnavailable"}
        /\ wf'.at = wf.at /\ wf'.succeeded = wf.succeeded
        /\ wf'.registered = wf.registered
    BY <1>1, StepTells DEF AssessTicketAutomation, MarkPlanUnavailable, Steps, Results
  <2>2. \/ ticket' = ticket
        \/ \E outcome \in {"CANNOT_RESOLVE", "ASSESSMENT_FAILED"} : SyncUnresolvable(outcome)
    BY <1>1 DEF AssessTicketAutomation, MarkPlanUnavailable
  <2>3. /\ ticket'.item = "whole" /\ StatusMatchesExecution'
        /\ ticket'.status \in {ticket.status, "DERIVADO"}
    BY <2>2, SyncTells DEF StatusMatchesExecution
  <2> QED
    BY <2>1, <2>3, InsideKeeps DEF Tasks, CaseTasks
<1>2. CASE SearchSimilarCases \/ WaitForApproval \/ MarkExecutionFailed
  <2>1. /\ wf.at \in {"SearchSimilarCases", "WaitForApproval", "MarkExecutionFailed"}
        /\ wf'.at = wf.at /\ wf'.succeeded = wf.succeeded
        /\ wf'.registered = wf.registered /\ ticket' = ticket
    BY <1>2, StepTells DEF SearchSimilarCases, WaitForApproval, MarkExecutionFailed,
      Steps, Results
  <2>2. StatusMatchesExecution'
    BY <2>1 DEF StatusMatchesExecution
  <2> QED
    BY <2>1, <2>2, InsideKeeps DEF Tasks, CaseTasks
<1>3. CASE AssessTicketPlan
  <2>1. /\ wf.at = "AssessTicketPlan" /\ wf'.at = wf.at
        /\ wf'.succeeded = wf.succeeded
        /\ wf'.registered = wf.registered /\ ticket' = ticket
    BY <1>3 DEF AssessTicketPlan, Step, Executions
  <2>2. StatusMatchesExecution'
    BY <2>1 DEF StatusMatchesExecution
  <2> QED
    BY <2>1, <2>2, InsideKeeps DEF Tasks, CaseTasks
<1>4. CASE PersistPlan
  <2>1. /\ wf.at = "AssessTicketPlan" /\ wf'.at = wf.at /\ wf'.succeeded = wf.succeeded
        /\ wf'.registered = wf.registered
    BY <1>4, StepTells DEF PersistPlan, Steps, Results
  <2>2. ticket'.item = "whole" /\ ticket'.status = ticket.status /\ ticket'.exec = ticket.exec
    BY <1>4 DEF PersistPlan, Upserted, TicketItems
  <2>3. StatusMatchesExecution'
    BY <2>2 DEF StatusMatchesExecution
  <2> QED
    BY <2>1, <2>2, <2>3, InsideKeeps DEF Tasks, CaseTasks
<1>5. CASE AskForDecision
  <2>1. /\ wf.at = "WaitForApproval" /\ wf'.at = wf.at /\ wf'.succeeded = wf.succeeded
        /\ wf'.registered = wf.registered
    BY <1>5, StepTells DEF AskForDecision, Steps, Results
  <2> DEFINE asked == WithStatus("PREAPROBADO", "AWAITING_APPROVAL")
  <2>2. /\ asked.status = "PREAPROBADO" /\ asked.exec = "AWAITING_APPROVAL"
        /\ asked.item = "whole" /\ asked \in TicketItems
    BY WithStatusTells, WithStatusTyped DEF Statuses, Execs
  <2>3. \E p : ticket' = [asked EXCEPT !.pending = p]
    BY <1>5 DEF AskForDecision
  <2> HIDE DEF asked
  <2>4. /\ ticket'.item = "whole" /\ ticket'.status = "PREAPROBADO"
        /\ ticket'.exec = "AWAITING_APPROVAL"
    BY <2>2, <2>3 DEF TicketItems
  <2>5. StatusMatchesExecution'
    BY <2>4 DEF StatusMatchesExecution
  <2> QED
    BY <2>1, <2>4, <2>5, InsideKeeps DEF Tasks, CaseTasks
<1>6. CASE PersistFailure
  <2>1. /\ wf.at = "MarkExecutionFailed" /\ wf'.at = wf.at /\ wf'.succeeded = wf.succeeded
        /\ wf'.registered = wf.registered
    BY <1>6, StepTells DEF PersistFailure, Steps, Results
  <2>2. /\ ticket'.item = "whole"
        /\ \/ ticket' = ticket
           \/ ticket'.status = "FALLIDO" /\ ticket'.exec = "FAILED"
    BY <1>6, WithStatusTells DEF PersistFailure
  <2>3. StatusMatchesExecution'
    BY <2>2 DEF StatusMatchesExecution
  <2> QED
    BY <2>1, <2>2, <2>3, InsideKeeps DEF Tasks, CaseTasks
<1>7. CASE ExecuteTicketPlan
  <2>1. PICK outcome \in VictorResults, step \in Steps :
          wf' = [wf EXCEPT !.step = step, !.result = outcome, !.runs = @ + 1,
                           !.succeeded = @ \/ outcome = "ok"]
    BY <1>7 DEF ExecuteTicketPlan, Steps
  <2>2. /\ wf.at = "ExecuteTicketPlan" /\ wf'.at = wf.at /\ wf'.result = outcome
        /\ wf'.succeeded = (wf.succeeded \/ outcome = "ok") /\ ticket' = ticket
        /\ wf'.registered = wf.registered
    BY <1>7, <2>1 DEF ExecuteTicketPlan, Executions
  <2> QED
    BY <2>2 DEF Tale, SuccessInv, ClosingInv, StatusMatchesExecution, CaseTasks
<1>8. CASE PersistOutcome
  <2>1. /\ wf.at = "ExecuteTicketPlan" /\ wf'.at = wf.at /\ wf'.succeeded = wf.succeeded
        /\ wf'.registered = wf.registered
        /\ wf'.result = wf.result
    BY <1>8, StepTells DEF PersistOutcome, Steps
  <2>2. /\ ticket'.item = "whole"
        /\ \/ ticket' = ticket
           \/ /\ wf.result = "ok"
              /\ ticket'.status = "RESUELTO" /\ ticket'.exec = "EXECUTED"
           \/ ticket'.status = "FALLIDO" /\ ticket'.exec = "FAILED"
    BY <1>8, WithStatusTells DEF PersistOutcome
  <2>3. StatusMatchesExecution'
    BY <2>2 DEF StatusMatchesExecution
  <2>4. wf.result = "ok" => wf.succeeded
    BY <2>1 DEF Tale, SuccessInv
  <2> QED
    BY <2>1, <2>2, <2>3, <2>4, InsideKeeps DEF Tasks, CaseTasks
<1>9. CASE CheckTicketStatus
  <2>1. /\ wf.at = "CheckTicketStatus" /\ wf'.at = wf.at /\ wf'.succeeded = wf.succeeded
        /\ wf'.registered = wf.registered
        /\ ticket' = ticket /\ (wf'.result = "yes" => ticket.status = "RESUELTO")
    BY <1>9, StepTells DEF CheckTicketStatus, Steps, Results
  <2> QED
    BY <2>1 DEF Tale, SuccessInv, ClosingInv, StatusMatchesExecution, CaseTasks
<1>10. CASE RegisterCase
  <2>1. /\ wf.at \in CaseTasks /\ wf'.at = wf.at /\ wf'.succeeded = wf.succeeded
        /\ ticket' = ticket /\ wf'.registered = FinalStatus(wf.at)
        /\ wf'.step = "done" => ticket.status = FinalStatus(wf.at)
    BY <1>10, RegisterTells DEF NeedsAlignment
  <2>2. FinalStatus(wf.at) = "RESUELTO" => wf.at = "RegisterSuccessfulCase"
    BY <2>1 DEF FinalStatus, CaseTasks
  <2> QED
    BY <2>1, <2>2 DEF Tale, SuccessInv, ClosingInv, StatusMatchesExecution, CaseTasks
<1>11. CASE AlignTicket
  <2>1. /\ wf.at \in CaseTasks /\ wf'.at = wf.at /\ wf'.succeeded = wf.succeeded
        /\ wf'.registered = wf.registered
    BY <1>11, StepTells DEF AlignTicket, Steps, Results
  <2>2. /\ ticket'.item = "whole" /\ ticket'.status = FinalStatus(wf.at)
        /\ ticket'.exec = IF FinalStatus(wf.at) = "RESUELTO" THEN "EXECUTED" ELSE "FAILED"
    BY <1>11, WithStatusTells DEF AlignTicket
  <2>3. /\ FinalStatus(wf.at) \in Final
        /\ FinalStatus(wf.at) = "RESUELTO" => wf.at = "RegisterSuccessfulCase"
        /\ FinalStatus(wf.at) = "RECHAZADO" => ToldNo
    BY <2>1 DEF FinalStatus, Final, CaseTasks, ToldNo
  <2>4. StatusMatchesExecution'
    BY <2>2, <2>3 DEF StatusMatchesExecution, Final
  <2> QED
    BY <2>1, <2>2, <2>3, <2>4 DEF Tale, SuccessInv, ClosingInv, CaseTasks
<1>12. CASE ApprovalTimesOut \/ TaskFails
  <2>1. PICK state \in {"TimedOut", "MarkPlanUnavailable", "MarkExecutionFailed",
                        "ExecutionFailed"} :
          wf' = Enter(state, wf.token) /\ ticket' = ticket
    BY <1>12 DEF ApprovalTimesOut, TaskFails, CatchState
  <2>2. state \in Tasks \cup Ends
    BY DEF Tasks, Ends
  <2>3. /\ wf'.at = state /\ wf'.step = "start" /\ wf'.result = "none"
        /\ wf'.succeeded = wf.succeeded
        /\ wf'.registered = wf.registered
    BY <2>1, <2>2, EnterTyped, EnterRuns
  <2> QED
    BY <2>1, <2>3, EnterKeeps
<1>13. CASE TaskRetries
  <2> DEFINE next == Enter(wf.at, wf.token)
  <2>0. wf.at \in Tasks /\ ticket' = ticket
    BY <1>13 DEF TaskRetries, Failing
  <2>1. /\ next \in Executions /\ next.at = wf.at /\ next.step = "start"
        /\ next.result = "none" /\ next.succeeded = wf.succeeded
        /\ next.registered = wf.registered
    BY <2>0, EnterTyped, EnterRuns
  <2>2. wf' = [next EXCEPT !.retries = wf.retries + 1,
                           !.approved = wf.approved, !.approver = wf.approver,
                           !.basis = wf.basis]
    BY <1>13 DEF TaskRetries
  <2> HIDE DEF next
  <2>3. /\ wf'.at = wf.at /\ wf'.step = "start" /\ wf'.result = "none"
        /\ wf'.succeeded = wf.succeeded
        /\ wf'.registered = wf.registered
    BY <2>1, <2>2 DEF Executions
  <2>4. wf.at = "RegisterSuccessfulCase" => wf.succeeded
    BY DEF Tale, SuccessInv
  <2> QED
    BY <2>0, <2>3, <2>4, EnterKeeps DEF Tasks
<1>14. CASE TaskReturns
  <2> DEFINE next == Enter(NextState, wf.token)
  <2>0. wf.step = "done" /\ wf.at \in Tasks /\ ticket' = ticket
    BY <1>14 DEF TaskReturns
  <2>1. /\ next \in Executions /\ next.at = NextState /\ next.step = "start"
        /\ next.result = "none" /\ next.succeeded = wf.succeeded
        /\ next.registered = wf.registered
    BY EnterTyped, EnterRuns, NextStateTyped
  <2> HIDE DEF next
  <2>2. CASE wf.at = "WaitForApproval"
    <3>1. wf'.at = wf.at /\ wf'.succeeded = wf.succeeded
        /\ wf'.registered = wf.registered
      BY <1>14, <2>2, StepTells DEF TaskReturns, Steps, Results
    <3>2. StatusMatchesExecution'
      BY <2>0 DEF StatusMatchesExecution
    <3> QED
      BY <2>0, <2>2, <3>1, <3>2, InsideKeeps DEF CaseTasks
  <2>3. CASE wf.at # "WaitForApproval"
    <3>1. \/ wf' = [next EXCEPT !.attempt = IF wf.result = "no" THEN @ + 1 ELSE @]
          \/ wf' = next
      BY <1>14, <2>3 DEF TaskReturns, next
    <3>2. /\ wf'.at = NextState /\ wf'.step = "start" /\ wf'.result = "none"
          /\ wf'.succeeded = wf.succeeded
        /\ wf'.registered = wf.registered
      BY <2>1, <3>1 DEF Executions
    <3>3. NextState = "RegisterSuccessfulCase" => wf.succeeded
      BY DEF NextState, AfterAttempt, Tale, SuccessInv
    <3>4. NextState = "EndCaseRegistered" => wf.at \in CaseTasks
      BY <2>0, <2>3 DEF NextState, AfterAttempt, Tasks, CaseTasks
    <3>5. NextState = "EndCaseRegistered" => ticket.status = wf.registered
      BY <2>0, <3>4 DEF Tale, ClosingInv, RegInv
    <3> QED
      BY <2>0, <3>2, <3>3, <3>5, EnterKeeps
  <2> QED
    BY <2>2, <2>3
<1> QED
  BY <1>1, <1>2, <1>3, <1>4, <1>5, <1>6, <1>7, <1>8, <1>9, <1>10, <1>11,
     <1>12, <1>13, <1>14 DEF Workflow

\* Nothing that the execution writes takes the mark of a PUT away.
LEMMA WorkflowKeepsTouched ==
  ASSUME TypeOK, Workflow
  PROVE  ticket'.touched = ticket.touched
<1>0. ticket \in TicketItems
  BY DEF TypeOK
<1>1. CASE ticket' = ticket
  BY <1>1
<1>2. CASE AssessTicketAutomation \/ MarkPlanUnavailable
  BY <1>0, <1>2 DEF AssessTicketAutomation, MarkPlanUnavailable, SyncUnresolvable, TicketItems
<1>3. CASE PersistPlan
  BY <1>0, <1>3 DEF PersistPlan, TicketItems
<1>4. ASSUME NEW status, NEW exec
      PROVE  WithStatus(status, exec).touched = ticket.touched
  BY <1>0 DEF WithStatus, TicketItems
<1>5. CASE AskForDecision
  <2> DEFINE asked == WithStatus("PREAPROBADO", "AWAITING_APPROVAL")
  <2>1. asked \in TicketItems /\ asked.touched = ticket.touched
    BY <1>0, <1>4, WithStatusTyped DEF Statuses, Execs
  <2>2. \E p : ticket' = [asked EXCEPT !.pending = p]
    BY <1>5 DEF AskForDecision
  <2> HIDE DEF asked
  <2> QED
    BY <2>1, <2>2 DEF TicketItems
<1>6. CASE PersistOutcome \/ PersistFailure \/ AlignTicket
  BY <1>1, <1>4, <1>6 DEF PersistOutcome, PersistFailure, AlignTicket
<1> QED
  BY <1>1, <1>2, <1>3, <1>5, <1>6 DEF Workflow, SearchSimilarCases, AssessTicketPlan,
    WaitForApproval, ApprovalTimesOut, ExecuteTicketPlan, MarkExecutionFailed,
    CheckTicketStatus, RegisterCase, TaskReturns, TaskRetries, TaskFails

\* A request comes to an upsert by its own read of the ticket, and past its
\* resumption by resuming the execution, a rejection with its word.
LEMMA RequestUpserts ==
  ASSUME TypeOK, NEW r \in Requests, Arrival(r) \/ Advance(r)
  PROVE  /\ \A q \in Requests \ {r} : req'[q] = req[q]
         /\ req'[r].pc = "put" => req[r].pc = "put" \/ Found
         /\ req'[r].pc = "resumed" /\ req'[r].kind = "reject" =>
              wf'.at = "RegisterRejectedCase"
<1> USE DEF TypeOK
<1>1. CASE Approve(r) \/ Reject(r)
  BY <1>1 DEF Approve, Reject, Made
<1>2. CASE Select(r) \/ Custom(r) \/ CallbackLook(r)
  BY <1>2 DEF Select, Custom, Choose, CallbackLook, Made
<1>3. CASE Put(r) \/ SuperadminPut(r)
  BY <1>3 DEF Put, SuperadminPut, IdleRequest
<1>4. CASE Fail(r) \/ Succeed(r)
  BY <1>4, FailTyped, SucceedTyped
<1>5. CASE (CallbackRoute(r) \/ CallbackResolve(r)) /\ ~Fail(r)
  BY <1>5, CallbackResult
<1>6. CASE PublicApprove(r) /\ ~Fail(r)
  <2> PICK plan \in Plans \cup {NoPlan} :
        req' = [req EXCEPT ![r] = [req[r] EXCEPT !.pc = "checked", !.plan = plan,
                                                 !.basis = Basis]]
    BY <1>6, PublicResult
  <2> QED
    BY DEF RequestRecords
<1>7. CASE \E pc \in {"wrote", "conflict", "checked"} : Become(r, pc)
  BY <1>7, BecomeTyped DEF ReqPcs
<1>8. CASE UpdateGet(r) /\ Become(r, "put")
  <2>1. /\ req'[r].pc = "put" /\ \A q \in Requests \ {r} : req'[q] = req[q]
    BY <1>8, BecomeTyped DEF ReqPcs
  <2>2. Found
    BY <1>8, <2>1, FailTyped DEF UpdateGet
  <2> QED
    BY <2>1, <2>2
<1>9. CASE Resume(r) /\ Become(r, "resumed")
  <2>1. /\ req'[r].pc = "resumed" /\ req'[r].kind = req[r].kind
        /\ \A q \in Requests \ {r} : req'[q] = req[q]
    BY <1>9, BecomeTyped DEF ReqPcs
  <2>2. ~Fail(r)
    BY <2>1, FailTyped
  <2>3. req[r].kind = "reject" => wf' = Enter("RegisterRejectedCase", wf.token)
    BY <1>9, <2>2 DEF Resume, ResumeRefused, Approving
  <2>4. Enter("RegisterRejectedCase", wf.token).at = "RegisterRejectedCase"
    BY EnterTyped DEF Executions, Tasks
  <2> QED
    BY <2>1, <2>3, <2>4
<1> QED
  BY <1>1, <1>2, <1>3, <1>4, <1>5, <1>6, <1>7, <1>8, <1>9 DEF Arrival, Advance, UpdateGet,
    UpdatePut, Resume, ResumeRefused, WriteDecision, Answer, RequestDies

\* What a request writes beside a status of its own: other fields, or its
\* decision on a ticket that is PREAPROBADO.
LEMMA RequestWrites ==
  ASSUME TypeOK, NEW r \in Requests, Arrival(r) \/ Advance(r)
  PROVE  /\ ticket.touched => ticket'.touched
         /\ \/ ticket'.touched
            \/ ticket'.status = ticket.status /\ ticket'.exec = ticket.exec
            \/ /\ ticket.status = "PREAPROBADO" /\ req[r].pc = "resumed"
               /\ \/ ticket'.status = "APROBADO" /\ ticket'.exec = "EXECUTING"
                  \/ /\ ticket'.status = "RECHAZADO" /\ ticket'.exec = "REJECTED"
                     /\ req[r].kind = "reject"
<1>0. ticket \in TicketItems /\ ticket.touched \in BOOLEAN
  BY DEF TypeOK, TicketItems
<1>1. CASE UpdatePut(r)
  <2>1. CASE req[r].kind = "put"
    <3> DEFINE fields == req[r].body.fields
               own == fields \cap {"status", "execution_status"} # {}
    <3>1. ticket' = PutBy(req[r].body)
      BY <1>1, <2>1 DEF UpdatePut
    <3>2. /\ PutBy(req[r].body).touched = (ticket.touched \/ own)
          /\ PutBy(req[r].body).status =
               IF "status" \in fields THEN req[r].body.status ELSE ticket.status
          /\ PutBy(req[r].body).exec =
               IF "execution_status" \in fields THEN req[r].body.exec ELSE ticket.exec
      BY <1>0 DEF PutBy, TicketItems
    <3>3. ~own => "status" \notin fields /\ "execution_status" \notin fields
      OBVIOUS
    <3> HIDE DEF own, fields
    <3> QED
      BY <3>1, <3>2, <3>3
  <2>2. CASE req[r].kind # "put"
    BY <1>0, <1>1, <2>2 DEF UpdatePut, TicketItems
  <2> QED
    BY <2>1, <2>2
<1>2. CASE WriteDecision(r)
  <2>1. CASE ticket' = ticket
    BY <1>2, <2>1 DEF WriteDecision
  <2>2. CASE ticket' # ticket
    <3>1. /\ ticket' \in {Approved, Rejected, Marked} /\ ticket.status = "PREAPROBADO"
          /\ req[r].pc = "resumed" /\ (ticket' = Rejected => req[r].kind = "reject"
                                         \/ ticket' \in {Approved, Marked})
      BY <1>2, <2>2 DEF WriteDecision, WriteCondition, Preapproved
    <3>2. /\ Approved.status = "APROBADO" /\ Approved.exec = "EXECUTING"
          /\ Approved.touched = ticket.touched
          /\ Marked.status = "APROBADO" /\ Marked.exec = "EXECUTING"
          /\ Marked.touched = ticket.touched
          /\ Rejected.status = "RECHAZADO" /\ Rejected.exec = "REJECTED"
          /\ Rejected.touched = ticket.touched
      BY <1>0 DEF Approved, Rejected, Marked, TicketItems
    <3> QED
      BY <3>1, <3>2
  <2> QED
    BY <2>1, <2>2
<1>3. CASE ~UpdatePut(r) /\ ~WriteDecision(r)
  <2>1. ticket' = ticket
    BY <1>3 DEF Arrival, Approve, Reject, Select, Custom, Choose, Put, SuperadminPut,
      CallbackLook, CallbackRoute, PublicApprove, Advance, UpdateGet, CallbackResolve,
      Resume, Answer, RequestDies
  <2> QED
    BY <2>1
<1> QED
  BY <1>1, <1>2, <1>3

\* The starters write no status.
LEMMA StarterWrites ==
  ASSUME TypeOK, NEW d \in Deliveries, Starter(d)
  PROVE  /\ ticket'.item = ticket.item /\ ticket'.status = ticket.status
         /\ ticket'.touched = ticket.touched
         /\ \/ ticket'.exec = ticket.exec
            \/ ticket.status = "PENDING" /\ ticket'.exec = "STARTED"
BY DEF TypeOK, TicketItems, Starter, StartAutomation, RecordArn, RecordStarted,
  MayRecordStarted, AssessmentGuard

\* A resumed or a started execution has registered nothing yet.
LEMMA OthersEnter ==
  ASSUME TypeOK,
         \/ \E r \in Requests : Arrival(r) \/ Advance(r)
         \/ \E d \in Deliveries : Starter(d)
  PROVE  \/ wf' = wf
         \/ /\ wf'.step = "start" /\ wf'.result = "none" /\ wf'.succeeded = wf.succeeded
            /\ wf'.registered = wf.registered /\ wf.at \in {"none", "WaitForApproval"}
            /\ wf'.at \in {"ExecuteTicketPlan", "RegisterRejectedCase",
                           "AssessTicketAutomation"}
<1>0. wf \in Executions /\ wf.token \in Nat
  BY DEF TypeOK, Executions
<1>1. CASE \E r \in Requests : Arrival(r) \/ Advance(r)
  BY <1>1, RequestMoves
<1>2. CASE \E d \in Deliveries : Starter(d)
  <2> DEFINE new == Enter("AssessTicketAutomation", 0)
  <2>1. wf' = wf \/ (wf.at = "none" /\ wf' = new)
    BY <1>2 DEF Starter, StartAutomation, RecordArn, RecordStarted
  <2>2. /\ new.at = "AssessTicketAutomation" /\ new.step = "start"
        /\ new.result = "none" /\ new.succeeded = wf.succeeded
        /\ new.registered = wf.registered
    BY <1>0, EnterTyped, EnterRuns DEF Tasks
  <2> HIDE DEF new
  <2> QED
    BY <2>1, <2>2
<1> QED
  BY <1>1, <1>2

LEMMA OthersRegister ==
  ASSUME TypeOK, RegInv,
         \/ \E r \in Requests : Arrival(r) \/ Advance(r)
         \/ \E d \in Deliveries : Starter(d)
  PROVE  RegInv' /\ (ToldNo => ToldNo')
<1>1. CASE wf' = wf
  BY <1>1 DEF RegInv, ToldNo
<1>2. CASE wf' # wf
  <2>1. /\ wf'.step = "start" /\ wf'.registered = wf.registered
        /\ wf.at \in {"none", "WaitForApproval"}
        /\ wf'.at \in {"ExecuteTicketPlan", "RegisterRejectedCase", "AssessTicketAutomation"}
    BY <1>2, OthersEnter
  <2>2. wf.registered = "none"
    BY <2>1 DEF RegInv, CaseTasks
  <2> QED
    BY <2>1, <2>2 DEF RegInv, ToldNo, CaseTasks
<1> QED
  BY <1>1, <1>2

LEMMA OthersKeepTale ==
  ASSUME TypeOK, RegInv, ToldInv, Tale, ~ticket'.touched,
         \/ \E r \in Requests : Arrival(r) \/ Advance(r)
         \/ \E d \in Deliveries : Starter(d)
  PROVE  Tale'
<1>1. \/ wf' = wf
      \/ /\ wf'.step = "start" /\ wf'.result = "none" /\ wf'.succeeded = wf.succeeded
         /\ wf'.registered = wf.registered
         /\ wf'.at \in {"ExecuteTicketPlan", "RegisterRejectedCase",
                        "AssessTicketAutomation"}
  BY OthersEnter
<1>2. /\ ticket'.item = "whole"
      /\ \/ ticket'.status = ticket.status /\ ticket'.exec = ticket.exec
         \/ ticket.status = "PENDING" /\ ticket'.status = "PENDING" /\ ticket'.exec = "STARTED"
         \/ /\ ticket.status = "PREAPROBADO"
            /\ \/ ticket'.status = "APROBADO" /\ ticket'.exec = "EXECUTING"
               \/ ticket'.status = "RECHAZADO" /\ ticket'.exec = "REJECTED" /\ ToldNo
  <2>1. ticket.item = "whole"
    BY DEF Tale
  <2>2. CASE \E r \in Requests : Arrival(r) \/ Advance(r)
    <3> PICK r \in Requests : Arrival(r) \/ Advance(r)
      BY <2>2
    <3>1. ticket'.item = "whole"
      BY <2>1, RequestKeepsItem
    <3>2. req[r].pc = "resumed" /\ req[r].kind = "reject" => ToldNo
      BY DEF ToldInv
    <3> QED
      BY <3>1, <3>2, RequestWrites
  <2>3. CASE \E d \in Deliveries : Starter(d)
    BY <2>1, <2>3, StarterWrites
  <2> QED
    BY <2>2, <2>3
<1>3. StatusMatchesExecution'
  BY <1>2 DEF Tale, StatusMatchesExecution
<1>4. SuccessInv'
  BY <1>1, <1>2 DEF Tale, SuccessInv
<1>5. ClosingInv'
  <2>1. ticket.status = "PREAPROBADO" =>
          /\ ~(wf.at \in CaseTasks /\ wf.step = "done")
          /\ wf.at # "EndCaseRegistered"
    BY DEF Tale, ClosingInv, RegInv, FinalStatus, Final
  <2> QED
    BY <1>1, <1>2, <2>1 DEF Tale, ClosingInv
<1>6. ticket'.status = "RECHAZADO" => ToldNo'
  BY <1>2, OthersRegister DEF Tale
<1> QED
  BY <1>2, <1>3, <1>4, <1>5, <1>6 DEF Tale

LEMMA StoryNext ==
  ASSUME IndInv, RegInv, ToldInv, Story, [Next]_vars
  PROVE  RegInv' /\ ToldInv' /\ Story'
<1>0. TypeOK
  BY DEF IndInv
<1>1. CASE UNCHANGED vars
  BY <1>1 DEF vars, Story, Tale, StatusMatchesExecution, SuccessInv, ClosingInv, RegInv,
    ToldInv, ToldNo
<1>2. CASE Workflow
  <2>1. req' = req
    BY <1>2 DEF Workflow, AssessTicketAutomation, SearchSimilarCases,
      AssessTicketPlan, PersistPlan, MarkPlanUnavailable, WaitForApproval,
      AskForDecision, ApprovalTimesOut, ExecuteTicketPlan, PersistOutcome,
      MarkExecutionFailed, PersistFailure, CheckTicketStatus, RegisterCase,
      AlignTicket, TaskReturns, TaskRetries, TaskFails
  <2>2. RegInv' /\ (ToldNo => ToldNo')
    BY <1>0, <1>2, WorkflowRegisters
  <2>3. ToldInv'
    BY <2>1, <2>2 DEF ToldInv
  <2>4. Story'
    BY <1>0, <1>2, WorkflowKeepsTale, WorkflowKeepsTouched DEF Story
  <2> QED
    BY <2>2, <2>3, <2>4
<1>3. CASE (\E r \in Requests : Arrival(r) \/ Advance(r)) \/ (\E d \in Deliveries : Starter(d))
  <2>1. RegInv' /\ (ToldNo => ToldNo')
    BY <1>0, <1>3, OthersRegister
  <2>2. ToldInv'
    <3>1. CASE \E d \in Deliveries : Starter(d)
      BY <2>1, <3>1 DEF Starter, StartAutomation, RecordArn, RecordStarted, ToldInv
    <3>2. CASE \E r \in Requests : Arrival(r) \/ Advance(r)
      <4> PICK r \in Requests : Arrival(r) \/ Advance(r)
        BY <3>2
      <4>1. /\ \A q \in Requests \ {r} : req'[q] = req[q]
            /\ req'[r].pc = "resumed" /\ req'[r].kind = "reject" =>
                 wf'.at = "RegisterRejectedCase"
        BY <1>0, RequestUpserts
      <4> QED
        BY <2>1, <4>1 DEF ToldInv, ToldNo
    <3> QED
      BY <1>3, <3>1, <3>2
  <2>3. ticket.touched => ticket'.touched
    BY <1>0, <1>3, RequestWrites, StarterWrites
  <2>4. Story'
    BY <1>0, <1>3, <2>3, OthersKeepTale DEF Story
  <2> QED
    BY <2>1, <2>2, <2>4
<1>4. CASE DeleteTicket
  <2>1. ticket'.touched /\ wf' = wf /\ req' = req
    BY <1>4 DEF DeleteTicket, NoItem
  <2> QED
    BY <2>1 DEF Story, RegInv, ToldInv, ToldNo
<1> QED
  BY <1>1, <1>2, <1>3, <1>4 DEF Next

LEMMA StoryHolds == Spec => [](IndInv /\ RegInv /\ ToldInv /\ Story)
<1>1. Init => RegInv /\ ToldInv /\ Story
  BY DEF Init, NewItem, NoItem, IdleRequest, Story, Tale, StatusMatchesExecution,
    SuccessInv, ClosingInv, CaseTasks, RegInv, ToldInv
<1>2. IndInv /\ RegInv /\ ToldInv /\ Story /\ [Next]_vars => RegInv' /\ ToldInv' /\ Story'
  BY StoryNext
<1> QED
  BY <1>1, <1>2, Inductive, PTL DEF Spec

\* Until somebody PUTs a status of his own or deletes the ticket, its status
\* and its execution_status tell one story; once a case has been registered
\* and the execution has ended, it has the status of that very case; it is
\* RESUELTO, or registered so, only after Victor's success, and RECHAZADO only
\* where the execution was told to reject.
THEOREM Agreement == Spec => []TicketAgrees
<1>1. RegInv /\ Story => TicketAgrees
  BY DEF Story, Tale, SuccessInv, ClosingInv, RegInv, TicketAgrees, EndAgreement
<1> QED
  BY <1>1, StoryHolds, PTL

\* And the status that the ended execution has left is the last.
THEOREM EndIsFinal == Spec => EndedIsFinal
<1>1. IndInv /\ RegInv /\ ToldInv /\ Story /\ [Next]_vars =>
        [wf.at = "EndCaseRegistered" /\ ~ticket'.touched
           => ticket'.status = ticket.status]_vars
  <2> SUFFICES ASSUME IndInv, RegInv, Story, Next, wf.at = "EndCaseRegistered",
                      ~ticket'.touched
               PROVE  ticket'.status = ticket.status
    OBVIOUS
  <2>0. TypeOK
    BY DEF IndInv
  <2>1. ~Workflow
    BY DEF Workflow, Running, AssessTicketAutomation, SearchSimilarCases,
      AssessTicketPlan, PersistPlan, MarkPlanUnavailable, WaitForApproval,
      AskForDecision, ApprovalTimesOut, ExecuteTicketPlan, PersistOutcome,
      MarkExecutionFailed, PersistFailure, CheckTicketStatus, RegisterCase,
      AlignTicket, TaskReturns, TaskRetries, TaskFails, Failing, Tasks, CaseTasks
  <2>2. ASSUME ~ticket.touched PROVE ticket.status # "PREAPROBADO"
    BY <2>2 DEF Story, Tale, ClosingInv, RegInv, Final
  <2>3. ASSUME NEW r \in Requests, Arrival(r) \/ Advance(r)
        PROVE  ticket'.status = ticket.status
    BY <2>0, <2>2, <2>3, RequestWrites
  <2>4. ASSUME NEW d \in Deliveries, Starter(d)
        PROVE  ticket'.status = ticket.status
    BY <2>0, <2>4, StarterWrites
  <2>5. ~DeleteTicket
    BY DEF DeleteTicket, NoItem
  <2> QED
    BY <2>1, <2>3, <2>4, <2>5 DEF Next
<1>2. [](IndInv /\ RegInv /\ ToldInv /\ Story) /\ [][Next]_vars => EndedIsFinal
  BY <1>1, PTL DEF EndedIsFinal
<1> QED
  BY <1>2, StoryHolds, PTL DEF Spec

-----------------------------------------------------------------------------
(* A deleted ticket stays deleted.                                         *)

LEMMA WorkflowLeavesGone ==
  ASSUME TypeOK, Gone, Workflow
  PROVE  ticket' = ticket /\ wf'.step # "write"
<1>0. /\ wf \in Executions /\ wf.token \in Nat /\ wf.result \in Results
      /\ ticket.item = "absent" /\ ~Found /\ wf.step # "write" /\ ~AssessmentGuard
  BY DEF TypeOK, Executions, Results, Gone, Found, UpsertInFlight, AssessmentGuard
<1> USE <1>0 DEF Running
<1>1. CASE AssessTicketAutomation \/ MarkPlanUnavailable
  BY <1>1, StepTells DEF AssessTicketAutomation, MarkPlanUnavailable, SyncUnresolvable,
    Steps, Results
<1>2. CASE SearchSimilarCases \/ WaitForApproval \/ MarkExecutionFailed \/ CheckTicketStatus
  BY <1>2, StepTells DEF SearchSimilarCases, WaitForApproval, MarkExecutionFailed,
    CheckTicketStatus, Steps, Results
<1>3. CASE RegisterCase
  BY <1>3, RegisterTells DEF NeedsAlignment
<1>4. CASE AssessTicketPlan \/ ExecuteTicketPlan
  BY <1>4 DEF AssessTicketPlan, ExecuteTicketPlan, Step, Executions
<1>5. CASE PersistPlan \/ AskForDecision \/ PersistOutcome \/ PersistFailure \/ AlignTicket
  BY <1>5 DEF PersistPlan, AskForDecision, PersistOutcome, PersistFailure, AlignTicket
<1>6. CASE ApprovalTimesOut \/ TaskFails
  <2>1. PICK state \in {"TimedOut", "MarkPlanUnavailable", "MarkExecutionFailed",
                        "ExecutionFailed"} :
          wf' = Enter(state, wf.token) /\ ticket' = ticket
    BY <1>6 DEF ApprovalTimesOut, TaskFails, CatchState
  <2>2. state \in Tasks \cup Ends
    BY DEF Tasks, Ends
  <2> QED
    BY <2>1, <2>2, EnterTyped
<1>7. CASE TaskRetries
  <2> DEFINE next == Enter(wf.at, wf.token)
  <2>1. next \in Executions /\ next.step = "start" /\ ticket' = ticket
    BY <1>7, EnterTyped DEF TaskRetries, Failing
  <2>2. wf' = [next EXCEPT !.retries = wf.retries + 1,
                           !.approved = wf.approved, !.approver = wf.approver,
                           !.basis = wf.basis]
    BY <1>7 DEF TaskRetries
  <2> HIDE DEF next
  <2> QED
    BY <2>1, <2>2 DEF Executions
<1>8. CASE TaskReturns
  <2> DEFINE next == Enter(NextState, wf.token)
  <2>1. next \in Executions /\ next.step = "start" /\ ticket' = ticket
    BY <1>8, EnterTyped, NextStateTyped DEF TaskReturns
  <2>2. \/ wf' = Step("waiting", "none")
        \/ wf' = [next EXCEPT !.attempt = IF wf.result = "no" THEN @ + 1 ELSE @]
        \/ wf' = next
    BY <1>8 DEF TaskReturns
  <2> HIDE DEF next
  <2> QED
    BY <2>1, <2>2, StepTells DEF Executions, Steps, Results
<1> QED
  BY <1>1, <1>2, <1>3, <1>4, <1>5, <1>6, <1>7, <1>8 DEF Workflow

\* Whatever is configured and whatever fails: when the upserts that had read
\* the ticket are through, nothing brings it back.
THEOREM DeletionLasts == Spec => DeletionIsPermanent
<1>1. TypeOK /\ [Next]_vars => [Gone => Gone']_vars
  <2> SUFFICES ASSUME TypeOK, Next, Gone PROVE Gone'
    OBVIOUS
  <2>0. /\ ticket.item = "absent" /\ ~Found /\ wf.step # "write"
        /\ \A r \in Requests : req[r].pc # "put"
    BY DEF Gone, UpsertInFlight, Found
  <2>1. CASE Workflow
    <3>1. req' = req
      BY <2>1 DEF Workflow, AssessTicketAutomation, SearchSimilarCases,
        AssessTicketPlan, PersistPlan, MarkPlanUnavailable, WaitForApproval,
        AskForDecision, ApprovalTimesOut, ExecuteTicketPlan, PersistOutcome,
        MarkExecutionFailed, PersistFailure, CheckTicketStatus, RegisterCase,
        AlignTicket, TaskReturns, TaskRetries, TaskFails
    <3> QED
      BY <2>0, <2>1, <3>1, WorkflowLeavesGone DEF Gone, UpsertInFlight
  <2>2. ASSUME NEW r \in Requests, Arrival(r) \/ Advance(r)
        PROVE  Gone'
    <3>1. ticket'.item = "absent"
      BY <2>0, <2>2, RequestKeepsItem
    <3>2. \A q \in Requests : req'[q].pc # "put"
      BY <2>0, <2>2, RequestUpserts
    <3>3. wf'.step # "write"
      BY <2>0, <2>2, OthersEnter
    <3> QED
      BY <3>1, <3>2, <3>3 DEF Gone, UpsertInFlight
  <2>3. ASSUME NEW d \in Deliveries, Starter(d)
        PROVE  Gone'
    <3>1. ticket'.item = "absent"
      BY <2>0, <2>3, StarterWrites
    <3>2. wf'.step # "write"
      BY <2>0, <2>3, OthersEnter
    <3>3. req' = req
      BY <2>3 DEF Starter, StartAutomation, RecordArn, RecordStarted
    <3> QED
      BY <2>0, <3>1, <3>2, <3>3 DEF Gone, UpsertInFlight
  <2> QED
    BY <2>0, <2>1, <2>2, <2>3 DEF Next, DeleteTicket
<1>2. []TypeOK /\ [][Next]_vars => DeletionIsPermanent
  BY <1>1, PTL DEF DeletionIsPermanent
<1> QED
  BY <1>2, TypeCorrect, PTL DEF Spec
=============================================================================
