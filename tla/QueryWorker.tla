----------------------------- MODULE QueryWorker -----------------------------
(***************************************************************************)
(* One laboratory query over stdio: QueryWorker.run starts a child process *)
(* of its own, asks it one question and reaps it, all within one total     *)
(* budget; at most Slots calls are admitted at a time.                     *)
(*                                                                         *)
(* A call is four parties: the caller's coroutine, the exchange task, the  *)
(* guard task that supervises the child, and the child.  The budget is a   *)
(* clock of four readings: work, the reserve kept for cleaning up, past    *)
(* the deadline, and past the emergency wait that follows.                 *)
(*                                                                         *)
(* External: the SDK's stdio client, which closes the child's stdin when   *)
(* its context is left and goes on when the child has exited, and asyncio, *)
(* which leaves no child behind when a spawn is interrupted.               *)
(***************************************************************************)
EXTENDS Naturals, FiniteSets

CONSTANTS
  Calls,  \* calls of run, each of a worker of its own
  Slots   \* _SLOTS, 4

ASSUME WorkerAssumption == Slots \in Nat \ {0} /\ IsFiniteSet(Calls)

VARIABLES
  free,   \* the semaphore
  call    \* each call, with its tasks and its child

workerVars == <<free, call>>

Work == 0
Reserve == 1
Overdue == 2
Late == 3

Fresh == [at |-> "new", answer |-> "none", slot |-> FALSE, clock |-> Work,
          child |-> "none", stdin |-> TRUE,
          task |-> "none", hit |-> FALSE, result |-> "none",
          guard |-> "none", ready |-> FALSE, closing |-> FALSE,
          cancelled |-> FALSE, errors |-> FALSE, left |-> FALSE]

CallType ==
  [at : {"new", "admitted", "waiting", "draining", "forcing", "ended"},
   answer : {"none", "refused", "busy", "completed", "error", "cancelled"},
   slot : BOOLEAN, clock : Work..Late,
   child : {"none", "alive", "clean", "failed"},
   stdin : BOOLEAN,
   task : {"none", "starting", "protocol", "cleanup", "joining", "closing", "done"},
   hit : BOOLEAN, result : {"none", "ok", "failed"},
   guard : {"none", "watch", "grace", "term", "kill", "done"},
   ready : BOOLEAN, closing : BOOLEAN, cancelled : BOOLEAN, errors : BOOLEAN,
   left : BOOLEAN]

WorkerTypeOK == free \in 0..Slots /\ call \in [Calls -> CallType]

WorkerInit == free = Slots /\ call = [w \in Calls |-> Fresh]

C(w) == call[w]
Set(w, c) == call' = [call EXCEPT ![w] = c] /\ UNCHANGED free
Running(w) == C(w).at \notin {"new", "ended"}
Finished(c) == c.task \in {"none", "done"}
Reaped(c) == c.child # "alive"

-----------------------------------------------------------------------------
(* The child, and time.                                                    *)

\* Cooperative, it ends when its stdin is closed.  It may fail at any time, of
\* itself or of a TERM or KILL, which the system may delay for ever.
ChildEnds(w) ==
  /\ C(w).child = "alive" /\ ~C(w).stdin
  /\ Set(w, [C(w) EXCEPT !.child = "clean"])

ChildFails(w) ==
  /\ C(w).child = "alive"
  /\ Set(w, [C(w) EXCEPT !.child = "failed"])

Tick(w) ==
  /\ Running(w) /\ C(w).clock < Late
  /\ Set(w, [C(w) EXCEPT !.clock = @ + 1])

-----------------------------------------------------------------------------
(* The caller: admission.                                                  *)

\* An invalid deadline or envelope, or a second call of the same worker.
Refuse(w) ==
  /\ C(w).at = "new"
  /\ Set(w, [C(w) EXCEPT !.at = "ended", !.answer = "refused"])

Busy(w) ==
  /\ C(w).at = "new" /\ free = 0
  /\ Set(w, [C(w) EXCEPT !.at = "ended", !.answer = "busy"])

TakeSlot(w) ==
  /\ C(w).at = "new" /\ free > 0
  /\ free' = free - 1
  /\ call' = [call EXCEPT ![w] = [@ EXCEPT !.at = "admitted", !.slot = TRUE]]

\* What is left of a call that is over.
Over(c, answer) ==
  [Fresh EXCEPT !.at = "ended", !.answer = answer, !.child = c.child,
                !.cancelled = c.cancelled, !.errors = c.errors]

\* Mutant: the slot is given back whatever becomes of the child.
FinishAlways(w, answer) ==
  /\ free' = free + 1
  /\ call' = [call EXCEPT ![w] = Over(@, answer)]

\* The finally clause: the slot is kept for ever when the child or the task
\* may still be there.
Finish(w, answer) ==
  IF Reaped(C(w)) /\ Finished(C(w))
  THEN /\ free' = free + 1
       /\ call' = [call EXCEPT ![w] = Over(@, answer)]
  ELSE Set(w, [C(w) EXCEPT !.at = "ended", !.answer = answer])

\* No time left, or no artifact or interpreter.
PrepareFails(w) == C(w).at = "admitted" /\ Finish(w, "error")

\* Creates the exchange task, which creates the guard before it first waits.
StartTask(w) ==
  /\ C(w).at = "admitted"
  /\ Set(w, [C(w) EXCEPT !.at = "waiting", !.task = "starting", !.guard = "watch"])

-----------------------------------------------------------------------------
(* ProcessOwner.                                                           *)

\* ProcessOwner.cancel: the exchange is interrupted where it may be.
Cancel(c) ==
  [c EXCEPT !.cancelled = TRUE, !.closing = TRUE, !.hit = @ \/ c.task = "starting"]

-----------------------------------------------------------------------------
(* The exchange task.                                                      *)

\* The finally clause of exchange: a guard without a child is cancelled.
Leave(c, result) ==
  [c EXCEPT !.task = "joining", !.result = result, !.closing = TRUE,
            !.left = @ \/ c.task = "starting",
            !.guard = IF c.child = "none" THEN "done" ELSE @]

\* The SDK's factory returns, and attach records the child.
Attach(w) ==
  /\ C(w).task = "starting" /\ C(w).child = "none" /\ ~C(w).hit
  /\ Set(w, [C(w) EXCEPT !.child = "alive", !.ready = TRUE,
             !.closing = @ \/ C(w).cancelled \/ C(w).clock >= Reserve])

\* No margin or no process; or interrupted, even after attach.
ExchangeFails(w) ==
  /\ C(w).task = "starting"
  /\ C(w).child = "none" \/ C(w).hit
  /\ Set(w, Leave(C(w), "failed"))

EnterProtocol(w) ==
  /\ C(w).task = "starting" /\ C(w).ready /\ ~C(w).hit
  /\ Set(w, [C(w) EXCEPT !.task = "protocol"])

Verdict(c, ok) == IF ok /\ ~c.cancelled /\ c.clock = Work THEN "ok" ELSE "failed"

\* The question is answered, fails, or is stopped by its scope; the context
\* of the SDK closes stdin.
OperationEnds(w) ==
  /\ C(w).task = "protocol"
  /\ \E ok \in BOOLEAN :
       Set(w, [C(w) EXCEPT !.task = "cleanup", !.closing = TRUE, !.stdin = FALSE,
                           !.result = Verdict(C(w), ok)])

\* Mutant: the child's exit code is not looked at.
CleanAnyhow(c) == c.result = "ok" /\ ~c.cancelled /\ ~c.errors /\ c.clock < Overdue

Clean(c) ==
  /\ c.result = "ok" /\ ~c.cancelled /\ ~c.errors /\ c.clock < Overdue
  /\ c.child = "clean"

\* The child has exited.
LeaveContext(w) ==
  /\ C(w).task = "cleanup" /\ Reaped(C(w))
  /\ Set(w, Leave(C(w), IF Clean(C(w)) THEN "ok" ELSE "failed"))

\* The guard is awaited; a child that never came under the SDK's context is
\* then closed, as long as there is time.
Join(w) ==
  /\ C(w).task = "joining" /\ C(w).guard = "done"
  /\ Set(w, [C(w) EXCEPT !.task = IF C(w).left /\ C(w).child # "none"
                                    THEN "closing" ELSE "done",
                         !.stdin = @ /\ ~C(w).left])

CloseChild(w) ==
  /\ C(w).task = "closing" /\ (Reaped(C(w)) \/ C(w).clock >= Overdue)
  /\ Set(w, [C(w) EXCEPT !.task = "done"])

-----------------------------------------------------------------------------
(* The guard.                                                              *)

\* No child by the end of the work.
GuardLeaves(w) ==
  /\ C(w).guard = "watch" /\ ~C(w).ready /\ C(w).clock >= Reserve
  /\ Set(w, [C(w) EXCEPT !.guard = "done"])

\* Told to close, or the work has run out of time; stdin is closed.
GuardCloses(w) ==
  /\ C(w).guard = "watch" /\ C(w).ready
  /\ \/ C(w).closing /\ Set(w, [C(w) EXCEPT !.guard = "grace", !.stdin = FALSE])
     \/ /\ ~C(w).closing /\ C(w).clock >= Reserve
        /\ Set(w, [Cancel(C(w)) EXCEPT !.guard = "grace", !.stdin = FALSE])

\* Grace, TERM and KILL share the rest of the budget.
GuardSees(w) ==
  /\ C(w).guard \in {"grace", "term", "kill"} /\ Reaped(C(w))
  /\ Set(w, [C(w) EXCEPT !.guard = "done"])

GuardForces(w) ==
  /\ C(w).guard \in {"grace", "term"} /\ ~Reaped(C(w))
  /\ Set(w, [C(w) EXCEPT !.guard = IF @ = "grace" THEN "term" ELSE "kill"])

GuardGivesUp(w) ==
  /\ C(w).guard = "kill" /\ ~Reaped(C(w)) /\ C(w).clock >= Overdue
  /\ Set(w, [C(w) EXCEPT !.guard = "done", !.errors = TRUE])

-----------------------------------------------------------------------------
(* The caller: the wait, and its end.                                      *)

Answer(c) == IF c.result = "ok" THEN "completed" ELSE "error"

GetResult(w) ==
  /\ C(w).at = "waiting" /\ C(w).task = "done"
  /\ Finish(w, Answer(C(w)))

\* The deadline, or a cancellation of the caller.
DrainOwner(w, answer) ==
  /\ C(w).at = "waiting" /\ C(w).task # "done"
  /\ Set(w, [Cancel(C(w)) EXCEPT !.at = "draining", !.answer = answer])

CallerTimesOut(w) == C(w).clock >= Overdue /\ DrainOwner(w, "error")
CallerCancelled(w) == DrainOwner(w, "cancelled")

Drained(w) ==
  /\ C(w).at \in {"draining", "forcing"} /\ C(w).task = "done"
  /\ Finish(w, C(w).answer)

DrainForces(w) ==
  /\ C(w).at = "draining" /\ C(w).task # "done" /\ C(w).clock >= Overdue
  /\ Set(w, [C(w) EXCEPT !.at = "forcing"])

\* Mutant: the emergency wait has no end.
DrainWaits(w) == FALSE

\* LAB_CLEANUP_INCOMPLETE, an error even for a caller that was cancelled; the
\* task is cancelled and not awaited.
DrainGivesUp(w) ==
  /\ C(w).at = "forcing" /\ C(w).task # "done" /\ C(w).clock >= Late
  /\ Finish(w, "error")

-----------------------------------------------------------------------------
Caller(w) ==
  \/ Refuse(w) \/ Busy(w) \/ TakeSlot(w) \/ PrepareFails(w) \/ StartTask(w)
  \/ GetResult(w) \/ Drained(w) \/ DrainForces(w) \/ DrainGivesUp(w)

Exchange(w) ==
  \/ Attach(w) \/ ExchangeFails(w) \/ EnterProtocol(w) \/ OperationEnds(w)
  \/ LeaveContext(w) \/ Join(w) \/ CloseChild(w)

Guard(w) ==
  \/ GuardLeaves(w) \/ GuardCloses(w) \/ GuardSees(w) \/ GuardForces(w)
  \/ GuardGivesUp(w)

WorkerNext ==
  \E w \in Calls :
    \/ Caller(w) \/ CallerTimesOut(w) \/ CallerCancelled(w)
    \/ Exchange(w) \/ Guard(w)
    \/ ChildEnds(w) \/ ChildFails(w) \/ Tick(w)

WorkerSpec == WorkerInit /\ [][WorkerNext]_workerVars

\* Time passes, and coroutines that can go on do; the child need not.
WorkerFairness ==
  \A w \in Calls : /\ WF_workerVars(Tick(w))
                   /\ WF_workerVars(Caller(w) \/ CallerTimesOut(w))

WorkerFairSpec == WorkerSpec /\ WorkerFairness

-----------------------------------------------------------------------------
(* Properties.                                                             *)

\* The slots bound the children and the tasks, not only the calls: whoever
\* leaves a child or a task behind has kept its slot.
ChildrenHoldSlots ==
  /\ \A w \in Calls : ~Reaped(C(w)) \/ ~Finished(C(w)) => C(w).slot
  /\ free + Cardinality({w \in Calls : C(w).slot}) = Slots

\* A completed answer comes from a child that exited well and was reaped,
\* before the deadline of an exchange nobody had cancelled.
CompletedIsClean ==
  \A w \in Calls : C(w).answer = "completed" =>
    C(w).child = "clean" /\ ~C(w).cancelled /\ ~C(w).errors

WorkersAreBounded == ChildrenHoldSlots /\ CompletedIsClean

\* An admitted call ends, whatever its child does.
CallsEnd == \A w \in Calls : (C(w).at = "admitted") ~> (C(w).at = "ended")
=============================================================================
