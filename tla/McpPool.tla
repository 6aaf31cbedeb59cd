------------------------------- MODULE McpPool -------------------------------
(***************************************************************************)
(* The MCP server of one generation: its admission gate, the pool of       *)
(* synchronous workers behind it, and the control loop through which the   *)
(* supervisor opens, renews and closes the gate.                           *)
(*                                                                         *)
(* Gate and pool share one lock, so what the code does under it is one     *)
(* step.  A provider call that cannot be interrupted keeps its slot when   *)
(* its caller gives up.  The gate is open as long as the supervisor says   *)
(* so: each renewal carries the time at which it ends, and an end is only  *)
(* noticed by the next look at the gate.                                   *)
(***************************************************************************)
EXTENDS Naturals, FiniteSets, Sequences

CONSTANTS
  Calls,       \* calls of the server's tools
  Private,     \* those of the supervisor's own probe
  Slots,       \* the four synchronous workers
  Lease,       \* LEASE_SECONDS, in ticks
  Backlog,     \* MAX_BACKLOG, the frames in the control channel
  MaxTime,     \* bound: ticks of the clock
  MaxCommands  \* bound: frames the supervisor sends

ASSUME PoolAssumption ==
  /\ Private \subseteq Calls /\ IsFiniteSet(Calls)
  /\ Slots \in Nat \ {0} /\ Lease \in Nat \ {0} /\ Backlog \in Nat \ {0}
  /\ MaxTime \in Nat /\ MaxCommands \in Nat

VARIABLES
  now,       \* time.monotonic()
  gate,      \* the AdmissionGate
  channel,   \* the frames from the supervisor that were not read yet
  sent,      \* last_sent_seq of the supervisor's end of the channel
  spoken,    \* history: when the supervisor last sent a lease
  call,      \* where each call is, and whether its caller waits for it
  free,      \* the semaphore
  permits,   \* _permits
  submitted, completed,
  shut,      \* _closed, set by the shutdown of the pool
  probe      \* the private probe: "new", "passed" or "failed"

callVars == <<call, free, permits, submitted, completed>>
linkVars == <<channel, sent, spoken>>
poolVars == <<now, gate, linkVars, callVars, shut, probe>>

Points == {"new", "reserved", "running", "done", "finished", "busy"}
Kinds  == {"lease", "open", "close"}
Reasons == {"starting", "ready", "lease_expired", "control_close",
            "probe_failed", "accounting_mismatch", "shutdown"}

PoolTypeOK ==
  /\ now \in 0..MaxTime
  /\ gate \in [state : {"OPEN", "CLOSED"}, until : Nat, seq : Nat,
               opened : BOOLEAN, reason : Reasons]
  /\ channel \in Seq([kind : Kinds, seq : Nat, until : Nat])
  /\ sent \in 0..MaxCommands /\ spoken \in 0..MaxTime
  /\ call \in [Calls -> [at : Points, caller : {"none", "waits", "gone",
                                                "answered"}]]
  /\ free \in 0..Slots /\ permits \in 0..Slots
  /\ submitted \in Nat /\ completed \in Nat
  /\ shut \in BOOLEAN /\ probe \in {"new", "passed", "failed"}

PoolInit ==
  /\ now = 0
  /\ gate = [state |-> "CLOSED", until |-> 0, seq |-> 0, opened |-> FALSE,
             reason |-> "starting"]
  /\ channel = <<>> /\ sent = 0 /\ spoken = 0
  /\ call = [c \in Calls |-> [at |-> "new", caller |-> "none"]]
  /\ free = Slots /\ permits = Slots
  /\ submitted = 0 /\ completed = 0
  /\ shut = FALSE /\ probe = "new"

\* _jobs: the calls that hold a slot.
Holding(c) == call[c].at \in {"reserved", "running", "done"}
Jobs == {c \in Calls : Holding(c)}

-----------------------------------------------------------------------------
(* The gate.                                                               *)

CloseGate(g, reason) == [g EXCEPT !.state = "CLOSED", !.reason = reason]

\* What permits() leaves of the gate, and what it returns for a call.
Expired(g) == g.state = "OPEN" /\ now >= g.until
Checked(g) == IF Expired(g) THEN CloseGate(g, "lease_expired") ELSE g

Exempt(c) == c \in Private /\ ~gate.opened /\ gate.reason = "starting"

Permits(c) == Exempt(c) \/ Checked(gate).state = "OPEN"

Look(c) == gate' = IF Exempt(c) THEN gate ELSE Checked(gate)

\* renew(): a frame in order, with a lease that is neither over nor too long.
Renewable(f) ==
  f.seq > gate.seq /\ f.until > now /\ f.until <= now + Lease

\* Mutants: a renewal opens the gate; its lease runs from the receipt.
RenewedOpen(f) == [gate EXCEPT !.seq = f.seq, !.until = f.until, !.state = "OPEN"]
RenewedFromReceipt(f) == [gate EXCEPT !.seq = f.seq, !.until = now + Lease]

Renewed(f) == [gate EXCEPT !.seq = f.seq, !.until = f.until]

\* _reconciled
Reconciled ==
  /\ permits = free
  /\ permits + Cardinality(Jobs) = Slots
  /\ submitted = completed + Cardinality(Jobs)

\* snapshot(): looks at the gate and closes it when the counts differ.
Sampled(g, agree) ==
  IF agree THEN Checked(g) ELSE CloseGate(Checked(g), "accounting_mismatch")

-----------------------------------------------------------------------------
(* The control channel, whose frames arrive in order and however late.     *)

SendFrame(kind) ==
  /\ sent < MaxCommands /\ Len(channel) < Backlog
  /\ sent' = sent + 1
  /\ channel' = Append(channel, [kind |-> kind, seq |-> sent + 1,
                                 until |-> now + Lease])
  /\ spoken' = IF kind = "close" THEN spoken ELSE now
  /\ UNCHANGED <<now, gate, callVars, shut, probe>>

ReadyToOpen == probe = "passed" /\ Jobs = {} /\ Reconciled

\* open() opens a gate once, and only one that nothing has closed; the
\* control loop has taken a snapshot before.
Openable(g, f) ==
  ReadyToOpen /\ ~g.opened /\ g.reason = "starting" /\ Renewable(f)

\* control_loop, on one frame.
HandleFrame ==
  /\ channel # <<>>
  /\ LET f == Head(channel) IN
       gate' = CASE f.kind = "lease" -> IF Renewable(f) THEN Renewed(f) ELSE gate
                 [] f.kind = "close" -> CloseGate(gate, "control_close")
                 [] f.kind = "open" ->
                      IF Openable(Sampled(gate, Reconciled), f)
                        THEN [Renewed(f) EXCEPT !.state = "OPEN",
                                !.opened = TRUE, !.reason = "ready"]
                        ELSE Sampled(gate, Reconciled)
  /\ channel' = Tail(channel)
  /\ UNCHANGED <<now, sent, spoken, callVars, shut, probe>>

\* The heartbeat samples the pool.
Heartbeat ==
  /\ gate' = Sampled(gate, Reconciled)
  /\ UNCHANGED <<now, linkVars, callVars, shut, probe>>

\* run_private_probe: its calls are answered and have returned their slots.
ProbePasses ==
  /\ probe = "new"
  /\ \A c \in Private : call[c].at = "finished" /\ call[c].caller = "answered"
  /\ Jobs = {} /\ permits = Slots /\ Reconciled
  /\ probe' = "passed" /\ gate' = Sampled(gate, Reconciled)
  /\ UNCHANGED <<now, linkVars, callVars, shut>>

ProbeFails ==
  /\ probe = "new"
  /\ probe' = "failed" /\ gate' = CloseGate(gate, "probe_failed")
  /\ UNCHANGED <<now, linkVars, callVars, shut>>

-----------------------------------------------------------------------------
(* The pool.                                                               *)

\* Only the probe makes private calls.
MayCall(c) == call[c].at = "new" /\ (c \in Private => probe = "new")

Reach(c, at) == call' = [call EXCEPT ![c] = [@ EXCEPT !.at = at]]

\* run(): a slot or the BusyError, under the lock.
Reserve(c) ==
  /\ MayCall(c) /\ ~shut /\ Permits(c) /\ free > 0
  /\ Look(c)
  /\ call' = [call EXCEPT ![c] = [at |-> "reserved", caller |-> "waits"]]
  /\ free' = free - 1 /\ permits' = permits - 1
  /\ submitted' = submitted + 1
  /\ UNCHANGED <<now, linkVars, completed, shut, probe>>

Busy(c) ==
  /\ MayCall(c) /\ (shut \/ ~Permits(c) \/ free = 0)
  /\ gate' = IF shut THEN gate ELSE IF Exempt(c) THEN gate ELSE Checked(gate)
  /\ Reach(c, "busy")
  /\ UNCHANGED <<now, linkVars, free, permits, submitted, completed, shut, probe>>

\* The executor refuses the job: what was taken is given back.
SubmitFails(c) ==
  /\ MayCall(c) /\ ~shut /\ Permits(c) /\ free > 0
  /\ Look(c) /\ Reach(c, "busy")
  /\ submitted' = submitted + 1 /\ completed' = completed + 1
  /\ UNCHANGED <<now, linkVars, free, permits, shut, probe>>

\* invoke() looks at the gate again before the provider is called.
MayStart(c) == Permits(c)

Begin(c) ==
  /\ call[c].at = "reserved"
  /\ Look(c)
  /\ Reach(c, IF MayStart(c) THEN "running" ELSE "done")
  /\ UNCHANGED <<now, linkVars, free, permits, submitted, completed, shut, probe>>

Return(c) ==
  /\ call[c].at = "running" /\ Reach(c, "done")
  /\ UNCHANGED <<now, gate, linkVars, free, permits, submitted, completed, shut,
                 probe>>

\* _finish, the callback of a future that is done.
Finish(c) ==
  /\ call[c].at = "done" /\ Reach(c, "finished")
  /\ free' = free + 1 /\ permits' = permits + 1
  /\ completed' = completed + 1
  /\ UNCHANGED <<now, linkVars, submitted, shut, probe>>
  /\ gate' = Sampled(gate, Reconciled')

\* The caller has its answer as soon as the future is done.
Answer(c) ==
  /\ call[c].caller = "waits" /\ call[c].at \in {"done", "finished"}
  /\ call' = [call EXCEPT ![c] = [@ EXCEPT !.caller = "answered"]]
  /\ UNCHANGED <<now, gate, linkVars, free, permits, submitted, completed, shut,
                 probe>>

\* Mutant: the slot is released with the caller.
AbandonedReleases(c) ==
  /\ call' = [call EXCEPT ![c] = [@ EXCEPT !.caller = "gone"]]
  /\ free' = IF Holding(c) THEN free + 1 ELSE free
  /\ permits' = IF Holding(c) THEN permits + 1 ELSE permits
  /\ UNCHANGED completed

\* It times out or is cancelled: the job goes on with its slot.
Abandoned(c) == call' = [call EXCEPT ![c] = [@ EXCEPT !.caller = "gone"]]
                /\ UNCHANGED <<free, permits, completed>>

GiveUp(c) ==
  /\ call[c].caller = "waits"
  /\ Abandoned(c)
  /\ UNCHANGED <<now, gate, linkVars, submitted, shut, probe>>

Shutdown ==
  /\ ~shut /\ shut' = TRUE
  /\ gate' = CloseGate(gate, "shutdown")
  /\ UNCHANGED <<now, linkVars, callVars, probe>>

Advance ==
  /\ now < MaxTime /\ now' = now + 1
  /\ UNCHANGED <<gate, linkVars, callVars, shut, probe>>

-----------------------------------------------------------------------------
Control ==
  \/ \E kind \in Kinds : SendFrame(kind)
  \/ HandleFrame \/ Heartbeat \/ ProbePasses \/ ProbeFails \/ Shutdown

Serve(c) ==
  \/ Reserve(c) \/ Busy(c) \/ SubmitFails(c) \/ Begin(c) \/ Return(c)
  \/ Finish(c) \/ Answer(c) \/ GiveUp(c)

PoolNext == Control \/ Advance \/ \E c \in Calls : Serve(c)

PoolSpec == PoolInit /\ [][PoolNext]_poolVars

-----------------------------------------------------------------------------
(* Properties.                                                             *)

\* The semaphore, the count beside it and the jobs agree whenever the lock is
\* free, so that the pool never shuts itself with accounting_mismatch.
NeverMismatched == Reconciled /\ gate.reason # "accounting_mismatch"

Starts(c) == call[c].at = "reserved" /\ call'[c].at = "running"

Latched == gate.state = "CLOSED" /\ gate.reason # "starting"

\* A gate that something has closed is closed for good: no renewal and no
\* second open reopens it, and no call that was admitted before starts.
ClosedForGood ==
  [][Latched => Latched' /\ \A c \in Calls : ~Starts(c)]_poolVars

\* A call of a tenant only starts within a lease's time of the supervisor's
\* last word, however late its frames are read: with a supervisor that has
\* died or decided to recover, admission ends by itself.
StartsNeedSupervisor ==
  [][\A c \in Calls \ Private : Starts(c) => now < spoken + Lease]_poolVars

\* The gate is open only after the one probe has passed and given its slots
\* back, and no private call comes through after it.
OpenMeansProbed ==
  gate.state = "OPEN" =>
    probe = "passed" /\ \A c \in Private : call[c].at = "finished"

\* The pool is the bounded semaphore it is meant to be, whoever gives up.
Bounded == INSTANCE BoundedSlots WITH
  holding <- Jobs,
  over <- {c \in Calls : call[c].at \in {"finished", "busy"}}

ImplementsSlots == Bounded!SlotsSpec

=============================================================================
