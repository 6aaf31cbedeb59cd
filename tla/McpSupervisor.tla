---------------------------- MODULE McpSupervisor ----------------------------
(***************************************************************************)
(* The supervisor of the MCP server, a process of its own that starts one  *)
(* server process at a time, watches its heartbeats and replaces it at     *)
(* most MaxRecoveries times, and the servers as it can see them: processes *)
(* with a gate, jobs, and a pair of FIFO channels that carry commands down *)
(* and reports up.                                                         *)
(*                                                                         *)
(* Every wait of the supervisor has a budget, so that it may end without   *)
(* what it waits for at any time; the clock itself is left out.  The gate  *)
(* in a server is that of McpPool, of which the lease and the probe are    *)
(* given here by what they may do.                                         *)
(***************************************************************************)
EXTENDS Naturals, Sequences, FiniteSets

CONSTANTS
  MaxRecoveries,  \* MAX_RECOVERIES, 2
  MaxJobs,        \* bound: jobs a server has at once
  Backlog         \* bound: frames in each direction

ASSUME SupervisorAssumption ==
  MaxRecoveries \in Nat /\ MaxJobs \in Nat \ {0} /\ Backlog \in Nat \ {0}

Generations == 1..(MaxRecoveries + 1)

VARIABLES
  pc,          \* where the supervisor is
  goal,        \* why it retires its server
  state,       \* the state it publishes
  generation, attempts,
  owned,       \* self.child is not None
  renew,       \* it renews the lease
  residual,    \* it declares a process it could not account for
  seen,        \* what its server has told it
  fault,       \* _control_fault
  wanted,      \* requests of the harness: "stop" and "fail_closed"
  fallen,      \* history: it has been UNAVAILABLE
  server,      \* the server process of each generation
  down, up     \* the frames in the control channel of the present one

supVars  == <<pc, goal, state, generation, attempts, owned, renew, residual,
              seen, fault, wanted, fallen>>
procVars == <<server, down, up>>
vars == <<supVars, procVars>>

Working == {"READY", "DEGRADED"}
States  == Working \cup {"STARTING", "DRAINING", "RECOVERING", "UNAVAILABLE"}
Retiring == {"close", "acking", "drain", "term", "kill"}
Starting == {"hello", "probe", "open", "settle"}

NoSnapshot == [gate |-> "CLOSED", jobs |-> MaxJobs, abandoned |-> FALSE]
Snapshots == [gate : {"OPEN", "CLOSED"}, jobs : 0..MaxJobs, abandoned : BOOLEAN]
Reports == {"hello", "beat", "passed", "failed", "opened", "closed", "fault"}
Frames == [kind : Reports, snap : Snapshots]

Unheard == [hello |-> FALSE, beat |-> FALSE, probe |-> "none",
            opened |-> FALSE, closed |-> FALSE, snap |-> NoSnapshot]
NoServer == [proc |-> "none", gate |-> "CLOSED", latched |-> FALSE, jobs |-> 0,
             abandoned |-> FALSE, greeted |-> FALSE]

SupTypeOK ==
  /\ pc \in {"new", "spawn", "watch", "idle", "stopped"} \cup Starting
              \cup Retiring
  /\ goal \in {"start", "replace", "last", "giveup", "stop"}
  /\ state \in States
  /\ generation \in 0..(MaxRecoveries + 1) /\ attempts \in 0..MaxRecoveries
  /\ owned \in BOOLEAN /\ renew \in BOOLEAN /\ residual \in BOOLEAN
  /\ seen \in [hello : BOOLEAN, beat : BOOLEAN,
               probe : {"none", "passed", "failed"}, opened : BOOLEAN,
               closed : BOOLEAN, snap : Snapshots]
  /\ fault \in BOOLEAN /\ wanted \subseteq {"stop", "fail_closed"}
  /\ fallen \in BOOLEAN
  /\ server \in [Generations ->
       [proc : {"none", "alive", "exited", "gone"}, gate : {"OPEN", "CLOSED"},
        latched : BOOLEAN, jobs : 0..MaxJobs, abandoned : BOOLEAN, greeted : BOOLEAN]]
  /\ down \in Seq({"probe", "open", "close"}) /\ up \in Seq(Frames)

SupInit ==
  /\ pc = "new" /\ goal = "start" /\ state = "STARTING"
  /\ generation = 0 /\ attempts = 0
  /\ owned = FALSE /\ renew = FALSE /\ residual = FALSE
  /\ seen = Unheard /\ fault = FALSE /\ wanted = {} /\ fallen = FALSE
  /\ server = [g \in Generations |-> NoServer]
  /\ down = <<>> /\ up = <<>>

Present == server[generation]
Alive(g) == server[g].proc = "alive"
Exited == owned /\ Present.proc # "alive"

-----------------------------------------------------------------------------
(* A server of generation g, and what the machine does to it.              *)

Becomes(g, s) == server' = [server EXCEPT ![g] = s]
Snap(s) == [gate |-> s.gate, jobs |-> s.jobs, abandoned |-> s.abandoned]
Says(kind, s) == up' = Append(up, [kind |-> kind, snap |-> Snap(s)])

\* At its end of the open channel.  Its loop may hang, for a while or for ever:
\* nothing here makes a server take a step.
Speaks(g) == Alive(g) /\ g = generation /\ Len(up) < Backlog

\* The hello of a started server; then its heartbeats.
Greet(g) ==
  /\ Speaks(g) /\ ~server[g].greeted
  /\ Becomes(g, [server[g] EXCEPT !.greeted = TRUE])
  /\ Says("hello", server[g])
  /\ UNCHANGED <<supVars, down>>

Beat(g) ==
  /\ Speaks(g) /\ server[g].greeted
  /\ ~\E i \in DOMAIN up : up[i].kind = "beat"
  /\ Says("beat", server[g])
  /\ UNCHANGED <<supVars, server, down>>

\* What the server makes of a frame: the gate opens once, and never again.
Obeyed(s, kind) ==
  CASE kind = "probe" -> s
    [] kind = "open"  -> IF s.latched \/ s.jobs > 0 THEN s
                         ELSE [s EXCEPT !.gate = "OPEN", !.latched = TRUE]
    [] kind = "close" -> [s EXCEPT !.gate = "CLOSED", !.latched = TRUE]

Replies(s, kind) ==
  CASE kind = "probe" -> {"passed", "failed"}
    [] kind = "open"  -> IF s.latched \/ s.jobs > 0 THEN {"fault"} ELSE {"opened"}
    [] kind = "close" -> {"closed"}

Obey(g) ==
  /\ Speaks(g) /\ server[g].greeted /\ down # <<>>
  /\ LET s == server[g] t == Obeyed(s, Head(down)) IN
       /\ Becomes(g, t)
       /\ \E kind \in Replies(s, Head(down)) : Says(kind, t)
  /\ down' = Tail(down)
  /\ UNCHANGED supVars

\* A renewal that does not come, or comes late, closes the gate.
LeaseRunsOut(g) ==
  /\ Alive(g) /\ server[g].gate = "OPEN"
  /\ Becomes(g, [server[g] EXCEPT !.gate = "CLOSED"])
  /\ UNCHANGED <<supVars, down, up>>

Admit(g) ==
  /\ Alive(g) /\ server[g].gate = "OPEN" /\ server[g].jobs < MaxJobs
  /\ Becomes(g, [server[g] EXCEPT !.jobs = @ + 1])
  /\ UNCHANGED <<supVars, down, up>>

JobEnds(g) ==
  /\ Alive(g) /\ server[g].jobs > 0
  /\ Becomes(g, [server[g] EXCEPT !.jobs = @ - 1,
                                  !.abandoned = @ /\ server[g].jobs > 1])
  /\ UNCHANGED <<supVars, down, up>>

CallerLeaves(g) ==
  /\ Alive(g) /\ server[g].jobs > 0 /\ ~server[g].abandoned
  /\ Becomes(g, [server[g] EXCEPT !.abandoned = TRUE])
  /\ UNCHANGED <<supVars, down, up>>

\* It crashes, or ends on the TERM or KILL it was sent.
Exit(g) ==
  /\ Alive(g)
  /\ Becomes(g, [server[g] EXCEPT !.proc = "exited", !.gate = "CLOSED",
                                  !.jobs = 0, !.abandoned = FALSE])
  /\ UNCHANGED <<supVars, down, up>>

-----------------------------------------------------------------------------
(* The supervisor: what it hears.                                          *)

Heard(f) ==
  CASE f.kind = "hello"  -> [seen EXCEPT !.hello = TRUE]
    [] f.kind = "beat"   -> [seen EXCEPT !.beat = TRUE, !.snap = f.snap]
    [] f.kind \in {"passed", "failed"} -> [seen EXCEPT !.probe = f.kind]
    [] f.kind = "opened" -> [seen EXCEPT !.opened = TRUE]
    [] f.kind = "closed" -> [seen EXCEPT !.closed = TRUE]
    [] f.kind = "fault"  -> seen

ReceiveChild ==
  /\ owned /\ up # <<>>
  /\ seen' = Heard(Head(up)) /\ up' = Tail(up)
  /\ fault' = (fault \/ Head(up).kind = "fault")
  /\ UNCHANGED <<pc, goal, state, generation, attempts, owned, renew, residual,
                 wanted, fallen, server, down>>

\* A frame that is not valid, or a channel that is closed at the other end.
ControlFails ==
  /\ owned /\ ~fault /\ fault' = TRUE
  /\ UNCHANGED <<pc, goal, state, generation, attempts, owned, renew, residual,
                 seen, wanted, fallen, procVars>>

ReceiveParent ==
  /\ pc # "stopped"
  /\ \E w \in {"stop", "fail_closed"} \ wanted : wanted' = wanted \cup {w}
  /\ UNCHANGED <<pc, goal, state, generation, attempts, owned, renew, residual,
                 seen, fault, fallen, procVars>>

-----------------------------------------------------------------------------
(* The supervisor: a start.                                                *)

GoTo(at, why, shown) == pc' = at /\ goal' = why /\ state' = shown

Command(kind) == down' = IF Len(down) < Backlog THEN Append(down, kind) ELSE down

\* _unavailable: retires a server it owns before it says so.
GiveUp ==
  /\ renew' = FALSE
  /\ IF owned THEN GoTo("close", "giveup", state) /\ UNCHANGED fallen
              ELSE GoTo("idle", "giveup", "UNAVAILABLE") /\ fallen' = TRUE

Start ==
  /\ pc = "new" /\ GoTo("spawn", "start", "STARTING")
  /\ UNCHANGED <<generation, attempts, owned, renew, residual, seen, fault,
                 wanted, fallen, procVars>>

\* A new generation on a new channel.
Spawn ==
  /\ pc = "spawn" /\ ~owned
  /\ generation' = generation + 1
  /\ server' = [server EXCEPT ![generation + 1] = [NoServer EXCEPT !.proc = "alive"]]
  /\ owned' = TRUE /\ renew' = TRUE
  /\ seen' = Unheard /\ fault' = FALSE /\ down' = <<>> /\ up' = <<>>
  /\ GoTo("hello", goal, "STARTING")
  /\ UNCHANGED <<attempts, residual, wanted, fallen>>

SpawnFails ==
  /\ pc = "spawn" /\ ~owned
  /\ generation' = generation + 1
  /\ seen' = Unheard /\ fault' = TRUE /\ down' = <<>> /\ up' = <<>>
  /\ GiveUp
  /\ UNCHANGED <<attempts, owned, residual, wanted, server>>

\* Each phase of a start ends with what it waits for, and the next command,
Proceed ==
  /\ \/ /\ pc = "hello" /\ seen.hello /\ seen.beat
        /\ Command("probe") /\ GoTo("probe", goal, state)
     \/ /\ pc = "probe" /\ seen.probe = "passed"
        /\ Command("open") /\ GoTo("open", goal, state)
     \/ /\ pc = "open" /\ seen.opened /\ UNCHANGED down
        /\ GoTo(IF goal = "replace" THEN "settle" ELSE "watch", goal, "READY")
     \/ /\ pc = "settle" /\ UNCHANGED down /\ GoTo("watch", goal, state)
  /\ UNCHANGED <<generation, attempts, owned, renew, residual, seen, fault,
                 wanted, fallen, server, up>>

\* or with an interruption, a failed probe or its budget.  A recovery whose own
\* budget turns out to be exceeded ends READY with UNAVAILABLE.
StartFails ==
  /\ pc \in Starting
  /\ GiveUp
  /\ UNCHANGED <<generation, attempts, owned, residual, seen, fault, wanted,
                 procVars>>

-----------------------------------------------------------------------------
(* The supervisor: tick() in READY and DEGRADED.                           *)

\* Mutant: a recovery that succeeded gives the attempts back.
Attempted(n) == 0

Counted(n) == n + 1

AttemptsLeft == attempts < MaxRecoveries

\* recover(): the server is retired, and replaced while attempts are left.  It
\* has exited, its channel or its gate failed, or, which without the clock may
\* be the case at any time, its heartbeat or a job of it is too old.
Recover ==
  /\ pc = "watch" /\ wanted = {}
  /\ renew' = FALSE
  /\ IF AttemptsLeft
       THEN attempts' = Counted(attempts) /\ GoTo("close", "replace", "RECOVERING")
       ELSE UNCHANGED attempts /\ GoTo("close", "last", "RECOVERING")
  /\ UNCHANGED <<generation, owned, residual, seen, fault, wanted, fallen,
                 procVars>>

\* What the last snapshot says of abandoned callers.
Degrade ==
  /\ pc = "watch" /\ wanted = {} /\ ~fault /\ ~Exited
  /\ seen.snap.gate = "OPEN"
  /\ state' = IF seen.snap.abandoned THEN "DEGRADED" ELSE "READY"
  /\ UNCHANGED <<pc, goal, generation, attempts, owned, renew, residual, seen,
                 fault, wanted, fallen, procVars>>

\* fail_closed of the harness, also when UNAVAILABLE; its stop.
ObeyFailure ==
  /\ pc \in {"watch", "idle"} /\ "fail_closed" \in wanted
  /\ wanted' = wanted \ {"fail_closed"}
  /\ GiveUp
  /\ UNCHANGED <<generation, attempts, owned, residual, seen, fault, procVars>>

ShutDown ==
  /\ pc \in {"watch", "idle"} /\ "stop" \in wanted
  /\ renew' = FALSE
  /\ IF owned THEN GoTo("close", "stop", state) /\ UNCHANGED fallen
              ELSE GoTo("stopped", "stop", "UNAVAILABLE") /\ fallen' = TRUE
  /\ UNCHANGED <<generation, attempts, owned, residual, seen, fault, wanted,
                 procVars>>

-----------------------------------------------------------------------------
(* The supervisor: _retire.                                                *)

\* The close, of a server that still runs.
SendClose ==
  /\ pc = "close"
  /\ IF Exited
       THEN GoTo("term", goal, "RECOVERING") /\ UNCHANGED <<down, seen>>
       ELSE GoTo("acking", goal, state) /\ Command("close")
            /\ seen' = [seen EXCEPT !.closed = FALSE]
  /\ UNCHANGED <<generation, attempts, owned, renew, residual, fault, wanted,
                 fallen, server, up>>

\* Mutant: it drains without the acknowledgement.
AckedOrNot == TRUE

Acked == seen.closed /\ ~Exited

\* Only with the acknowledgement, and only for a recovery, is there a drain.
AwaitAck ==
  /\ pc = "acking"
  /\ \/ Acked /\ goal \in {"replace", "last"} /\ GoTo("drain", goal, "DRAINING")
     \/ GoTo("term", goal, "RECOVERING")
  /\ UNCHANGED <<generation, attempts, owned, renew, residual, seen, fault,
                 wanted, fallen, procVars>>

\* The drain ends with the last job, or after its second.
Drain ==
  /\ pc = "drain" /\ GoTo("term", goal, "RECOVERING")
  /\ UNCHANGED <<generation, attempts, owned, renew, residual, seen, fault,
                 wanted, fallen, procVars>>

\* TERM, and KILL for the one that has not ended in time.
Terminate ==
  /\ pc = "term" /\ GoTo("kill", goal, state)
  /\ UNCHANGED <<generation, attempts, owned, renew, residual, seen, fault,
                 wanted, fallen, procVars>>

\* Mutant: a stop that goes back to the loop.
OnwardAgain(ok) ==
  IF goal = "replace" /\ ok /\ wanted = {} THEN "spawn" ELSE "idle"

\* Where a retirement goes on, with its success.
Onward(ok) ==
  CASE goal = "replace" /\ ok /\ wanted = {} -> "spawn"
    [] goal = "stop" -> "stopped"
    [] OTHER -> "idle"

Continue(ok) ==
  /\ pc' = Onward(ok) /\ goal' = goal
  /\ state' = IF pc' = "spawn" THEN state ELSE "UNAVAILABLE"
  /\ fallen' = (fallen \/ pc' # "spawn")

\* Mutant: TERM and KILL are taken for an end.
Killed == owned

Ended == Exited

\* The process has ended and is reaped; a budget that was exceeded on the way
\* makes a failure of it nevertheless.
Reap ==
  /\ pc = "kill" /\ Ended
  /\ Becomes(generation, [Present EXCEPT !.proc = IF @ = "exited" THEN "gone" ELSE @])
  /\ owned' = FALSE /\ residual' = FALSE
  /\ seen' = Unheard
  /\ \E within \in BOOLEAN : Continue(within) /\ fault' = (fault \/ ~within)
  /\ UNCHANGED <<generation, attempts, renew, wanted, down, up>>

\* Mutant: what cannot be reaped is forgotten.
Kept == FALSE

Unaccounted == TRUE

\* It cannot be accounted for: still there, or with children of its own.
ReapFails ==
  /\ pc = "kill"
  /\ owned' = Unaccounted /\ residual' = Unaccounted /\ fault' = TRUE
  /\ Continue(FALSE)
  /\ UNCHANGED <<generation, attempts, renew, wanted, seen, procVars>>

-----------------------------------------------------------------------------
Server(g) ==
  \/ Greet(g) \/ Beat(g) \/ Obey(g) \/ LeaseRunsOut(g) \/ Admit(g)
  \/ JobEnds(g) \/ CallerLeaves(g) \/ Exit(g)

Retire ==
  SendClose \/ AwaitAck \/ Drain \/ Terminate \/ Reap \/ ReapFails

Attend ==
  \/ Start \/ Spawn \/ SpawnFails \/ Proceed \/ StartFails
  \/ ObeyFailure \/ ShutDown \/ Retire

SupNext ==
  \/ \E g \in Generations : Server(g)
  \/ ReceiveChild \/ ControlFails \/ ReceiveParent \/ Degrade \/ Recover
  \/ Attend

SupSpec == SupInit /\ [][SupNext]_vars

\* The loop of the supervisor does not stop, its check sees a server that has
\* exited, and a stop is tested for before each tick: requests to fail closed
\* do not put it off for ever.
SupFairSpec ==
  /\ SupSpec
  /\ WF_vars(Attend) /\ WF_vars(Recover /\ Exited) /\ SF_vars(ShutDown)

-----------------------------------------------------------------------------
(* Properties.                                                             *)

\* There is never a second server beside one that was not reaped.
OneServer == \A g, h \in Generations : Alive(g) /\ Alive(h) => g = h

\* A supervisor that has given up or stopped and leaves a process behind has
\* said so.
LeftoverIsDeclared ==
  pc \in {"idle", "stopped"} /\ (\E g \in Generations : Alive(g)) => residual

\* DRAINING is only shown of a server whose gate is closed: nothing is
\* admitted while it drains.
DrainingIsClosed == state = "DRAINING" => Present.gate = "CLOSED"

\* A server hands over to its successor closed, drained and reaped, and what
\* is left at the end is declared.
HandoverIsSafe == OneServer /\ DrainingIsClosed /\ LeftoverIsDeclared

\* After UNAVAILABLE no server is ever started again, and at most
\* MaxRecoveries were started after the first: READY does not rearm.
NoRearm ==
  [][/\ fallen => generation' = generation
     /\ generation' <= attempts' + 1]_vars

\* A server that has exited under a working supervisor is replaced or given
\* up, and a stop that is asked for comes to pass.
LossIsHandled ==
  /\ (pc = "watch" /\ Exited) ~> (fallen \/ (state = "READY" /\ ~Exited))
  /\ ("stop" \in wanted) ~> (pc = "stopped")
=============================================================================
