---------------------------- MODULE McpPoolProofs ----------------------------
(***************************************************************************)
(* Theorems about McpPool for every set of calls, number of slots, lease   *)
(* and bound: the pool's accounts agree, it is a bounded semaphore, and    *)
(* its gate needs the supervisor and stays closed once it was closed.      *)
(***************************************************************************)
EXTENDS McpPool, FiniteSetTheorems, SequenceTheorems, TLAPS

Over == {c \in Calls : call[c].at \in {"finished", "busy"}}

\* Nothing was renewed to a time beyond a lease after the supervisor's last
\* word, by what was read nor by what was not read yet.
LeaseInv ==
  /\ gate.until <= spoken + Lease
  /\ spoken <= now
  /\ \A i \in 1..Len(channel) :
       channel[i].kind # "close" => channel[i].until <= spoken + Lease

\* The probe passed only with its calls over and their slots returned, and the
\* gate is open only after it has.
ProbeInv ==
  /\ probe = "passed" => \A c \in Private : call[c].at = "finished"
  /\ gate.state = "OPEN" => probe = "passed"

PoolInv == PoolTypeOK /\ NeverMismatched /\ LeaseInv /\ ProbeInv

-----------------------------------------------------------------------------
(* The calls.                                                              *)

LEMMA JobsFinite == IsFiniteSet(Jobs) /\ Cardinality(Jobs) \in Nat
<1>1. Jobs \subseteq Calls
  BY DEF Jobs
<1> QED
  BY <1>1, PoolAssumption, FS_Subset, FS_CardinalityType

\* A call becomes a job, stops being one, is refused, or nothing of the kind.
LEMMA StepOfCalls ==
  ASSUME PoolTypeOK, Reconciled, [PoolNext]_poolVars
  PROVE  \/ \E c \in Calls :
              /\ c \notin Jobs \cup Over /\ free > 0
              /\ Jobs' = Jobs \cup {c} /\ Over' = Over
              /\ free' = free - 1 /\ permits' = permits - 1
              /\ submitted' = submitted + 1 /\ completed' = completed
         \/ \E c \in Calls :
              /\ c \in Jobs
              /\ Jobs' = Jobs \ {c} /\ Over' = Over \cup {c}
              /\ free' = free + 1 /\ permits' = permits + 1
              /\ submitted' = submitted /\ completed' = completed + 1
         \/ \E c \in Calls :
              /\ c \notin Jobs \cup Over
              /\ Jobs' = Jobs /\ Over' = Over \cup {c}
              /\ free' = free /\ permits' = permits
              /\ \/ submitted' = submitted /\ completed' = completed
                 \/ submitted' = submitted + 1 /\ completed' = completed + 1
         \/ /\ Jobs' = Jobs /\ Over' = Over
            /\ UNCHANGED <<free, permits, submitted, completed>>
<1> USE DEF PoolTypeOK, Points
<1>1. CASE callVars' = callVars
  BY <1>1 DEF callVars, Jobs, Holding, Over
<1> SUFFICES ASSUME NEW c \in Calls, Serve(c) PROVE
         \/ /\ c \notin Jobs \cup Over /\ free > 0
            /\ Jobs' = Jobs \cup {c} /\ Over' = Over
            /\ free' = free - 1 /\ permits' = permits - 1
            /\ submitted' = submitted + 1 /\ completed' = completed
         \/ /\ c \in Jobs
            /\ Jobs' = Jobs \ {c} /\ Over' = Over \cup {c}
            /\ free' = free + 1 /\ permits' = permits + 1
            /\ submitted' = submitted /\ completed' = completed + 1
         \/ /\ c \notin Jobs \cup Over
            /\ Jobs' = Jobs /\ Over' = Over \cup {c}
            /\ free' = free /\ permits' = permits
            /\ \/ submitted' = submitted /\ completed' = completed
               \/ submitted' = submitted + 1 /\ completed' = completed + 1
         \/ /\ Jobs' = Jobs /\ Over' = Over
            /\ UNCHANGED <<free, permits, submitted, completed>>
  <2>1. CASE \E c \in Calls : Serve(c)
    BY <2>1
  <2>2. CASE Control \/ Advance \/ UNCHANGED poolVars
    BY <1>1, <2>2 DEF Control, SendFrame, HandleFrame, Heartbeat, ProbePasses,
      ProbeFails, Shutdown, Advance, poolVars
  <2> QED
    BY <2>1, <2>2 DEF PoolNext
<1>2. \A at : Reach(c, at) => /\ call'[c].at = at
                              /\ \A d \in Calls \ {c} : call'[d] = call[d]
  BY DEF Reach
<1>3. CASE Reserve(c)
  <2>1. call[c].at = "new" /\ call'[c].at = "reserved"
        /\ \A d \in Calls \ {c} : call'[d] = call[d]
    BY <1>3 DEF Reserve, MayCall
  <2>2. c \notin Jobs \cup Over /\ Jobs' = Jobs \cup {c} /\ Over' = Over
    BY <2>1 DEF Jobs, Holding, Over
  <2> QED
    BY <1>3, <2>2 DEF Reserve
<1>4. CASE Busy(c) \/ SubmitFails(c)
  <2>1. call[c].at = "new" /\ call'[c].at = "busy"
        /\ \A d \in Calls \ {c} : call'[d] = call[d]
    BY <1>2, <1>4 DEF Busy, SubmitFails, MayCall
  <2>2. c \notin Jobs \cup Over /\ Jobs' = Jobs /\ Over' = Over \cup {c}
    BY <2>1, SMTT(30) DEF Jobs, Holding, Over
  <2> QED
    BY <1>4, <2>2 DEF Busy, SubmitFails
<1>5. CASE Begin(c) \/ Return(c)
  <2>1. /\ call[c].at \in {"reserved", "running"}
        /\ call'[c].at \in {"running", "done"}
        /\ \A d \in Calls \ {c} : call'[d] = call[d]
    BY <1>2, <1>5 DEF Begin, Return
  <2>2. Jobs' = Jobs /\ Over' = Over
    BY <2>1 DEF Jobs, Holding, Over
  <2> QED
    BY <1>5, <2>2 DEF Begin, Return
<1>6. CASE Finish(c)
  <2>1. call[c].at = "done" /\ call'[c].at = "finished"
        /\ \A d \in Calls \ {c} : call'[d] = call[d]
    BY <1>2, <1>6 DEF Finish
  <2>2. c \in Jobs /\ Jobs' = Jobs \ {c} /\ Over' = Over \cup {c}
    BY <2>1 DEF Jobs, Holding, Over
  <2> QED
    BY <1>6, <2>2 DEF Finish
<1>7. CASE Answer(c) \/ GiveUp(c)
  <2>1. \A d \in Calls : call'[d].at = call[d].at
    BY <1>7, SMTT(30) DEF Answer, GiveUp, Abandoned
  <2>2. Jobs' = Jobs /\ Over' = Over
    BY <2>1 DEF Jobs, Holding, Over
  <2> QED
    BY <1>7, <2>2 DEF Answer, GiveUp, Abandoned
<1> QED
  BY <1>3, <1>4, <1>5, <1>6, <1>7 DEF Serve

\* The counts keep agreeing, and within their ranges.
LEMMA StaysReconciled ==
  ASSUME PoolTypeOK, Reconciled, [PoolNext]_poolVars
  PROVE  /\ Reconciled'
         /\ free' \in 0..Slots /\ permits' \in 0..Slots
         /\ submitted' \in Nat /\ completed' \in Nat
<1> DEFINE n == Cardinality(Jobs)
<1>0. IsFiniteSet(Jobs) /\ n \in Nat
  BY JobsFinite
<1>1. /\ Slots \in Nat /\ free \in 0..Slots /\ permits = free
      /\ submitted \in Nat /\ completed \in Nat
      /\ permits + n = Slots /\ submitted = completed + n
  BY PoolAssumption DEF PoolTypeOK, Reconciled
<1>2. SUFFICES n' \in Nat /\ permits' = free' /\ permits' + n' = Slots
               /\ submitted' = completed' + n'
               /\ free' \in 0..Slots /\ submitted' \in Nat /\ completed' \in Nat
  BY DEF Reconciled
<1>3. CASE \E c \in Calls :
             /\ c \notin Jobs /\ free > 0 /\ Jobs' = Jobs \cup {c}
             /\ free' = free - 1 /\ permits' = permits - 1
             /\ submitted' = submitted + 1 /\ completed' = completed
  <2>1. n' = n + 1
    BY <1>0, <1>3, FS_AddElement
  <2>2. /\ free > 0 /\ free' = free - 1 /\ permits' = permits - 1
        /\ submitted' = submitted + 1 /\ completed' = completed
    BY <1>3
  <2> QED
    BY <1>0, <1>1, <2>1, <2>2
<1>4. CASE \E c \in Calls :
             /\ c \in Jobs /\ Jobs' = Jobs \ {c}
             /\ free' = free + 1 /\ permits' = permits + 1
             /\ submitted' = submitted /\ completed' = completed + 1
  <2>1. n' = n - 1 /\ n' \in Nat
    BY <1>0, <1>4, FS_RemoveElement, FS_CardinalityType
  <2>2. /\ free' = free + 1 /\ permits' = permits + 1
        /\ submitted' = submitted /\ completed' = completed + 1
    BY <1>4
  <2> QED
    BY <1>0, <1>1, <2>1, <2>2
<1>5. CASE /\ Jobs' = Jobs /\ free' = free /\ permits' = permits
           /\ \/ submitted' = submitted /\ completed' = completed
              \/ submitted' = submitted + 1 /\ completed' = completed + 1
  <2>1. n' = n
    BY <1>5
  <2> QED
    BY <1>0, <1>1, <1>5, <2>1
<1> QED
  BY <1>3, <1>4, <1>5, StepOfCalls

-----------------------------------------------------------------------------
(* The gate.                                                               *)

Gates == [state : {"OPEN", "CLOSED"}, until : Nat, seq : Nat,
          opened : BOOLEAN, reason : Reasons]

\* What the supervisor's frames may do to the gate.
Renewing(f) ==
  /\ channel # <<>> /\ f = Head(channel) /\ f.kind # "close" /\ Renewable(f)
  /\ gate' = Renewed(f)

Opening(f) ==
  /\ channel # <<>> /\ f = Head(channel) /\ f.kind # "close" /\ Renewable(f)
  /\ probe = "passed" /\ gate.reason = "starting"
  /\ gate' = [Renewed(f) EXCEPT !.state = "OPEN", !.opened = TRUE,
                                !.reason = "ready"]

Frames == [kind : Kinds, seq : Nat, until : Nat]

LEMMA HeadIsFrame ==
  ASSUME PoolTypeOK, channel # <<>>
  PROVE  Head(channel) \in Frames
<1>1. channel \in Seq(Frames)
  BY DEF PoolTypeOK, Frames
<1> QED
  BY <1>1, HeadTailProperties

\* A step leaves the gate, looks at it, closes it, renews its lease, or opens
\* a gate that nothing has closed.
LEMMA StepOfGate ==
  ASSUME PoolTypeOK, Reconciled, [PoolNext]_poolVars
  PROVE  \/ gate' = gate
         \/ gate' = Checked(gate)
         \/ \E r \in {"control_close", "probe_failed", "shutdown"} :
              gate' = CloseGate(gate, r)
         \/ \E f : Renewing(f) \/ Opening(f)
<1>1. Reconciled'
  BY StaysReconciled
<1>2. Sampled(gate, Reconciled) = Checked(gate)
      /\ Sampled(gate, Reconciled') = Checked(gate)
  BY <1>1 DEF Sampled
<1>3. CASE HandleFrame
  <2> DEFINE f == Head(channel)
  <2>1. channel # <<>> /\ f.kind \in Kinds
    BY <1>3, HeadIsFrame DEF HandleFrame, Frames
  <2>2. CASE f.kind = "lease"
    BY <1>3, <2>1, <2>2 DEF HandleFrame, Renewing
  <2>3. CASE f.kind = "close"
    BY <1>3, <2>1, <2>3 DEF HandleFrame
  <2>4. CASE f.kind = "open"
    <3>1. CASE Openable(Checked(gate), f)
      <4>1. gate' = [Renewed(f) EXCEPT !.state = "OPEN", !.opened = TRUE,
                                       !.reason = "ready"]
        BY <1>2, <1>3, <2>4, <3>1 DEF HandleFrame
      <4>2. Checked(gate).reason = "starting" => gate.reason = "starting"
        BY DEF Checked, CloseGate, PoolTypeOK
      <4> QED
        BY <2>1, <2>4, <3>1, <4>1, <4>2 DEF Openable, ReadyToOpen, Opening
    <3>2. CASE ~Openable(Checked(gate), f)
      BY <1>2, <1>3, <2>4, <3>2 DEF HandleFrame
    <3> QED
      BY <3>1, <3>2
  <2> QED
    BY <2>1, <2>2, <2>3, <2>4 DEF Kinds
<1>4. CASE Control
  <2>1. CASE \E kind \in Kinds : SendFrame(kind)
    BY <2>1 DEF SendFrame
  <2>2. CASE Heartbeat \/ ProbePasses
    BY <1>2, <2>2 DEF Heartbeat, ProbePasses
  <2>3. CASE ProbeFails \/ Shutdown
    BY <2>3 DEF ProbeFails, Shutdown
  <2> QED
    BY <1>3, <1>4, <2>1, <2>2, <2>3 DEF Control
<1>5. CASE \E c \in Calls : Serve(c)
  <2> SUFFICES ASSUME NEW c \in Calls, Serve(c)
               PROVE  gate' = gate \/ gate' = Checked(gate)
    BY <1>5
  <2>1. CASE Reserve(c) \/ SubmitFails(c) \/ Begin(c)
    BY <2>1 DEF Reserve, SubmitFails, Begin, Look
  <2>2. CASE Busy(c)
    BY <2>2 DEF Busy
  <2>3. CASE Finish(c)
    BY <1>2, <2>3 DEF Finish
  <2>4. CASE Return(c) \/ Answer(c) \/ GiveUp(c)
    BY <2>4 DEF Return, Answer, GiveUp
  <2> QED
    BY <2>1, <2>2, <2>3, <2>4 DEF Serve
<1>6. CASE Advance \/ UNCHANGED poolVars
  BY <1>6 DEF Advance, poolVars
<1> QED
  BY <1>4, <1>5, <1>6 DEF PoolNext

\* Hence the gate's type, and that it is never closed for the accounts.
LEMMA GateKeepsType ==
  ASSUME PoolTypeOK, NeverMismatched, [PoolNext]_poolVars
  PROVE  gate' \in Gates /\ gate'.reason # "accounting_mismatch"
<1>1. gate \in Gates /\ gate.reason # "accounting_mismatch" /\ Reconciled
  BY DEF PoolTypeOK, Gates, NeverMismatched
<1>2. ASSUME NEW f, channel # <<>>, f = Head(channel)
      PROVE  f.seq \in Nat /\ f.until \in Nat
  BY <1>2, HeadIsFrame DEF Frames
<1>3. CASE gate' = gate \/ gate' = Checked(gate)
  BY <1>1, <1>3 DEF Checked, CloseGate, Gates, Reasons
<1>4. CASE \E r \in {"control_close", "probe_failed", "shutdown"} :
             gate' = CloseGate(gate, r)
  BY <1>1, <1>4 DEF CloseGate, Gates, Reasons
<1>5. CASE \E f : Renewing(f) \/ Opening(f)
  BY <1>1, <1>2, <1>5, ZenonT(60) DEF Renewing, Opening, Renewed, Gates, Reasons
<1> QED
  BY <1>1, <1>3, <1>4, <1>5, StepOfGate

\* The supervisor's frames are sent with its clock, and read in their order.
LEMMA ChannelKeeps ==
  ASSUME PoolTypeOK, LeaseInv, [PoolNext]_poolVars
  PROVE  /\ channel' \in Seq(Frames)
         /\ sent' \in 0..MaxCommands /\ now' \in 0..MaxTime
         /\ spoken' \in 0..MaxTime /\ spoken <= spoken' /\ spoken' <= now'
         /\ \A i \in 1..Len(channel') :
              channel'[i].kind # "close" => channel'[i].until <= spoken' + Lease
<1> USE PoolAssumption
<1>0. /\ channel \in Seq(Frames) /\ sent \in 0..MaxCommands
      /\ now \in 0..MaxTime /\ spoken \in 0..MaxTime /\ spoken <= now
      /\ \A i \in 1..Len(channel) :
           channel[i].kind # "close" => channel[i].until <= spoken + Lease
  BY DEF PoolTypeOK, LeaseInv, Frames
<1>1. CASE \E kind \in Kinds : SendFrame(kind)
  <2> PICK kind \in Kinds : SendFrame(kind)
    BY <1>1
  <2> DEFINE f == [kind |-> kind, seq |-> sent + 1, until |-> now + Lease]
  <2>1. f \in Frames
    BY <1>0 DEF Frames
  <2>2. channel' = Append(channel, f)
    BY DEF SendFrame
  <2> HIDE DEF f
  <2>3. /\ channel' \in Seq(Frames) /\ Len(channel') = Len(channel) + 1
        /\ \A i \in 1..Len(channel) : channel'[i] = channel[i]
        /\ channel'[Len(channel) + 1] = f
    BY <1>0, <2>1, <2>2, AppendProperties
  <2>4. /\ sent' \in 0..MaxCommands /\ now' = now
        /\ spoken' = IF kind = "close" THEN spoken ELSE now
    BY <1>0 DEF SendFrame
  <2>5. ASSUME NEW i \in 1..Len(channel'), channel'[i].kind # "close"
        PROVE  channel'[i].until <= spoken' + Lease
    <3>1. CASE i \in 1..Len(channel)
      <4>1. channel'[i] = channel[i] /\ channel[i] \in Frames
        BY <1>0, <2>3, <3>1, ElementOfSeq
      <4>2. channel[i].until \in Nat
        BY <4>1 DEF Frames
      <4>3. channel[i].until <= spoken + Lease
        BY <1>0, <2>5, <3>1, <4>1
      <4> QED
        BY <1>0, <2>4, <4>1, <4>2, <4>3, SMTT(30)
    <3>2. CASE i = Len(channel) + 1
      BY <1>0, <2>3, <2>4, <2>5, <3>2 DEF f
    <3> QED
      BY <1>0, <2>3, <3>1, <3>2, LenProperties
  <2> QED
    BY <1>0, <2>3, <2>4, <2>5
<1>2. CASE HandleFrame
  <2>1. channel # <<>> /\ channel' = Tail(channel)
        /\ UNCHANGED <<now, sent, spoken>>
    BY <1>2 DEF HandleFrame
  <2>2. /\ channel' \in Seq(Frames) /\ Len(channel') = Len(channel) - 1
        /\ \A i \in 1..Len(channel') : channel'[i] = channel[i + 1]
    BY <1>0, <2>1, HeadTailProperties
  <2>3. \A i \in 1..Len(channel') : i + 1 \in 1..Len(channel)
    BY <1>0, <2>2, LenProperties
  <2> QED
    BY <1>0, <2>1, <2>2, <2>3
<1>3. CASE Advance
  BY <1>0, <1>3 DEF Advance, linkVars
<1>4. CASE Heartbeat \/ ProbePasses \/ ProbeFails \/ Shutdown
  BY <1>0, <1>4 DEF Heartbeat, ProbePasses, ProbeFails, Shutdown, linkVars
<1>5. CASE \E c \in Calls : Serve(c)
  <2>1. UNCHANGED <<now, linkVars>>
    BY <1>5 DEF Serve, Reserve, Busy, SubmitFails, Begin, Return, Finish, Answer,
      GiveUp, Abandoned
  <2> QED
    BY <1>0, <2>1 DEF linkVars
<1>6. CASE UNCHANGED poolVars
  BY <1>0, <1>6 DEF poolVars, linkVars
<1> QED
  BY <1>1, <1>2, <1>3, <1>4, <1>5, <1>6 DEF PoolNext, Control

\* What a call's step leaves of the calls.
LEMMA CallsKeepType ==
  ASSUME PoolTypeOK, [PoolNext]_poolVars
  PROVE  /\ call' \in [Calls -> [at : Points, caller : {"none", "waits", "gone",
                                                        "answered"}]]
         /\ shut' \in BOOLEAN /\ probe' \in {"new", "passed", "failed"}
         /\ \A c \in Calls : call[c].at = "finished" => call'[c].at = "finished"
<1> USE DEF PoolTypeOK, Points
<1>1. CASE Control \/ Advance \/ UNCHANGED poolVars
  BY <1>1 DEF Control, SendFrame, HandleFrame, Heartbeat, ProbePasses,
    ProbeFails, Shutdown, Advance, callVars, poolVars
<1>2. ASSUME NEW c \in Calls, Reserve(c) \/ Busy(c) \/ SubmitFails(c)
      PROVE  /\ call[c].at = "new"
             /\ \/ call' = [call EXCEPT ![c] = [at |-> "reserved",
                                               caller |-> "waits"]]
                \/ Reach(c, "busy")
  BY <1>2 DEF Reserve, Busy, SubmitFails, MayCall
<1>3. ASSUME NEW c \in Calls, Begin(c) \/ Return(c) \/ Finish(c)
      PROVE  call[c].at # "finished" /\ \E x \in {"running", "done", "finished"} :
               Reach(c, x)
  BY <1>3 DEF Begin, Return, Finish
<1>4. CASE \E c \in Calls : Serve(c)
  <2> PICK c \in Calls : Serve(c)
    BY <1>4
  <2>1. shut' = shut /\ probe' = probe
    BY DEF Serve, Reserve, Busy, SubmitFails, Begin, Return, Finish, Answer, GiveUp
  <2>2. CASE Reserve(c) \/ Busy(c) \/ SubmitFails(c)
    <3>1. CASE call' = [call EXCEPT ![c] = [at |-> "reserved",
                                            caller |-> "waits"]]
      BY <1>2, <2>1, <2>2, <3>1
    <3>2. CASE Reach(c, "busy")
      BY <1>2, <2>1, <2>2, <3>2 DEF Reach
    <3> QED
      BY <1>2, <2>2, <3>1, <3>2
  <2>3. CASE Begin(c) \/ Return(c) \/ Finish(c)
    BY <1>3, <2>1, <2>3 DEF Reach
  <2>4. CASE Answer(c) \/ GiveUp(c)
    BY <2>1, <2>4, SMTT(30) DEF Answer, GiveUp, Abandoned
  <2> QED
    BY <2>2, <2>3, <2>4 DEF Serve
<1> QED
  BY <1>1, <1>4 DEF PoolNext

-----------------------------------------------------------------------------
(* The invariant.                                                          *)

LEMMA PoolInvInit ==
  PoolInit => PoolInv
<1> SUFFICES ASSUME PoolInit PROVE PoolInv
  OBVIOUS
<1> USE PoolAssumption DEF PoolInit
<1>1. PoolTypeOK
  <2>1. channel \in Seq([kind : Kinds, seq : Nat, until : Nat])
    BY EmptySeq
  <2>2. gate \in [state : {"OPEN", "CLOSED"}, until : Nat, seq : Nat,
                  opened : BOOLEAN, reason : Reasons]
    BY DEF Reasons
  <2>3. call \in [Calls -> [at : Points, caller : {"none", "waits", "gone",
                                                   "answered"}]]
    BY DEF Points
  <2>4. /\ now = 0 /\ sent = 0 /\ spoken = 0 /\ free = Slots /\ permits = Slots
        /\ submitted = 0 /\ completed = 0 /\ shut = FALSE /\ probe = "new"
    OBVIOUS
  <2> HIDE DEF PoolInit
  <2>5. /\ now \in 0..MaxTime /\ sent \in 0..MaxCommands /\ spoken \in 0..MaxTime
        /\ free \in 0..Slots /\ permits \in 0..Slots
        /\ submitted \in Nat /\ completed \in Nat
    BY <2>4
  <2> QED
    BY <2>1, <2>2, <2>3, <2>4, <2>5 DEF PoolTypeOK
<1>2. NeverMismatched
  <2>1. Jobs = {}
    BY DEF Jobs, Holding
  <2> QED
    BY <2>1, FS_EmptySet DEF NeverMismatched, Reconciled
<1>3. LeaseInv /\ ProbeInv
  BY DEF LeaseInv, ProbeInv
<1> QED
  BY <1>1, <1>2, <1>3 DEF PoolInv

LEMMA ProbePassesOnce ==
  ASSUME PoolTypeOK, [PoolNext]_poolVars
  PROVE  /\ probe = "passed" => probe' = "passed"
         /\ probe' = "passed" /\ probe # "passed" => ProbePasses
<1>1. CASE Control
  BY <1>1 DEF Control, SendFrame, HandleFrame, Heartbeat, ProbePasses,
    ProbeFails, Shutdown
<1>2. CASE Advance \/ UNCHANGED poolVars
  BY <1>2 DEF Advance, poolVars
<1>3. CASE \E c \in Calls : Serve(c)
  BY <1>3 DEF Serve, Reserve, Busy, SubmitFails, Begin, Return, Finish, Answer,
    GiveUp
<1> QED
  BY <1>1, <1>2, <1>3 DEF PoolNext

LEMMA PoolInvNext ==
  PoolInv /\ [PoolNext]_poolVars => PoolInv'
<1> SUFFICES ASSUME PoolInv, [PoolNext]_poolVars PROVE PoolInv'
  OBVIOUS
<1>0. PoolTypeOK /\ NeverMismatched /\ Reconciled /\ LeaseInv /\ ProbeInv
  BY DEF PoolInv, NeverMismatched
<1>1. PoolTypeOK'
  <2>1. gate' \in Gates
    BY <1>0, GateKeepsType
  <2>2. channel' \in Seq(Frames) /\ sent' \in 0..MaxCommands
        /\ now' \in 0..MaxTime /\ spoken' \in 0..MaxTime
    BY <1>0, ChannelKeeps
  <2> QED
    BY <1>0, <2>1, <2>2, CallsKeepType, StaysReconciled
      DEF PoolTypeOK, Gates, Frames
<1>2. NeverMismatched'
  BY <1>0, StaysReconciled, GateKeepsType DEF NeverMismatched
<1>3. LeaseInv'
  <2>1. /\ spoken <= spoken' /\ spoken' <= now'
        /\ \A i \in 1..Len(channel') :
             channel'[i].kind # "close" => channel'[i].until <= spoken' + Lease
    BY <1>0, ChannelKeeps
  <2>2. gate'.until <= spoken + Lease
    <3>1. gate.until <= spoken + Lease /\ gate.until \in Nat
      BY <1>0 DEF LeaseInv, PoolTypeOK
    <3>2. CASE gate'.until = gate.until
      BY <3>1, <3>2
    <3>3. CASE \E f : Renewing(f) \/ Opening(f)
      <4> PICK f : Renewing(f) \/ Opening(f)
        BY <3>3
      <4>1. channel # <<>> /\ f = Head(channel) /\ f.kind # "close"
        BY DEF Renewing, Opening
      <4>2. gate'.until = f.until
        BY <1>0 DEF Renewing, Opening, Renewed, PoolTypeOK
      <4>3. 1 \in 1..Len(channel) /\ Head(channel) = channel[1]
        BY <1>0, <4>1, EmptySeq, LenProperties DEF PoolTypeOK
      <4> QED
        BY <1>0, <4>1, <4>2, <4>3 DEF LeaseInv
    <3> QED
      BY <1>0, <3>2, <3>3, StepOfGate DEF Checked, CloseGate, PoolTypeOK
  <2>3. gate'.until \in Nat /\ spoken \in Nat /\ spoken' \in Nat /\ Lease \in Nat
    BY <1>0, <1>1, PoolAssumption DEF PoolTypeOK
  <2> QED
    BY <2>1, <2>2, <2>3 DEF LeaseInv
<1>4. ProbeInv'
  <2>1. ASSUME probe' = "passed", NEW c \in Private
        PROVE  call'[c].at = "finished"
    <3>1. call[c].at = "finished" \/ (ProbePasses /\ call[c].at = "finished")
      BY <1>0, <2>1, ProbePassesOnce DEF ProbeInv, ProbePasses
    <3> QED
      BY <1>0, <3>1, CallsKeepType, PoolAssumption
  <2>2. gate'.state = "OPEN" => probe' = "passed"
    <3>1. gate.state = "OPEN" \/ probe = "passed" => probe' = "passed"
      BY <1>0, ProbePassesOnce DEF ProbeInv
    <3>2. CASE \E f : Renewing(f) \/ Opening(f)
      BY <1>0, <3>1, <3>2 DEF Renewing, Opening, Renewed, PoolTypeOK
    <3> QED
      BY <1>0, <3>1, <3>2, StepOfGate DEF Checked, CloseGate, PoolTypeOK
  <2> QED
    BY <2>1, <2>2 DEF ProbeInv
<1> QED
  BY <1>1, <1>2, <1>3, <1>4 DEF PoolInv

LEMMA PoolInvHolds == PoolSpec => []PoolInv
BY PoolInvInit, PoolInvNext, PTL DEF PoolSpec

-----------------------------------------------------------------------------
(* The theorems.                                                           *)

\* Every variable stays in its range: in particular no more slots are free
\* than there are, and fewer than none never are.
THEOREM PoolTypes == PoolSpec => []PoolTypeOK
BY PoolInvHolds, PTL DEF PoolInv

\* pool.py's accounts (_permits, the semaphore, _jobs, submitted, completed)
\* agree after every step, so the pool never closes itself for them.
THEOREM AccountsAgree == PoolSpec => []NeverMismatched
BY PoolInvHolds, PTL DEF PoolInv

\* The gate is open only after the private probe, whose calls are over.
THEOREM ProbedBeforeOpen == PoolSpec => []OpenMeansProbed
<1>1. PoolInv => OpenMeansProbed
  BY DEF PoolInv, ProbeInv, OpenMeansProbed
<1> QED
  BY <1>1, PoolInvHolds, PTL

\* A call starts in Begin, with the gate's permission.
LEMMA StartsByBegin ==
  ASSUME PoolTypeOK, [PoolNext]_poolVars, NEW c \in Calls, Starts(c)
  PROVE  Permits(c)
<1> USE DEF PoolTypeOK, Points
<1>1. call'[c] # call[c] /\ call[c].at = "reserved" /\ call'[c].at = "running"
  BY DEF Starts
<1>2. ~(Control \/ Advance \/ UNCHANGED poolVars)
  BY <1>1 DEF Control, SendFrame, HandleFrame, Heartbeat, ProbePasses,
    ProbeFails, Shutdown, Advance, callVars, poolVars
<1>3. PICK d \in Calls : Serve(d)
  BY <1>2 DEF PoolNext
<1>4. CASE Reserve(d) \/ Busy(d) \/ SubmitFails(d)
  BY <1>1, <1>4 DEF Reserve, Busy, SubmitFails, Reach
<1>5. CASE Begin(d)
  BY <1>1, <1>5 DEF Begin, Reach, MayStart
<1>6. CASE Return(d) \/ Finish(d)
  BY <1>1, <1>6 DEF Return, Finish, Reach
<1>7. CASE Answer(d) \/ GiveUp(d)
  <2>1. PICK caller \in {"answered", "gone"} :
          call' = [call EXCEPT ![d] = [@ EXCEPT !.caller = caller]]
    BY <1>7 DEF Answer, GiveUp, Abandoned
  <2>2. call'[c].at = call[c].at
    <3>1. c # d => call'[c] = call[c]
      BY <2>1
    <3>2. c = d => call'[c] = [call[c] EXCEPT !.caller = caller]
      BY <2>1
    <3> QED
      BY <3>1, <3>2
  <2> QED
    BY <1>1, <2>2
<1> QED
  BY <1>3, <1>4, <1>5, <1>6, <1>7 DEF Serve

\* Once closed, the gate lets no renewal, second open or late look admit a
\* call or start one that was admitted.
THEOREM ClosedIsForGood == PoolSpec => ClosedForGood
<1>1. ASSUME PoolInv, [PoolNext]_poolVars, Latched
      PROVE  Latched' /\ \A c \in Calls : ~Starts(c)
  <2>0. PoolTypeOK /\ Reconciled
    BY <1>1 DEF PoolInv, NeverMismatched
  <2>1. Latched'
    <3>1. CASE gate' = gate \/ gate' = Checked(gate)
      BY <1>1, <3>1 DEF Latched, Checked, Expired
    <3>2. CASE \E r \in {"control_close", "probe_failed", "shutdown"} :
                 gate' = CloseGate(gate, r)
      BY <2>0, <3>2 DEF Latched, CloseGate, PoolTypeOK
    <3>3. CASE \E f : Renewing(f) \/ Opening(f)
      BY <1>1, <2>0, <3>3 DEF Latched, Renewing, Opening, Renewed, PoolTypeOK
    <3> QED
      BY <1>1, <2>0, <3>1, <3>2, <3>3, StepOfGate
  <2>2. \A c \in Calls : ~Permits(c)
    BY <1>1 DEF Latched, Permits, Exempt, Checked, Expired
  <2> QED
    BY <1>1, <2>0, <2>1, <2>2, StartsByBegin
<1> QED
  BY <1>1, PoolInvHolds, PTL DEF PoolSpec, ClosedForGood

\* No call of a tenant starts later than a lease after the supervisor's last
\* word, however late its frames are read.
THEOREM NoStartWithoutSupervisor == PoolSpec => StartsNeedSupervisor
<1>1. ASSUME PoolInv, [PoolNext]_poolVars, NEW c \in Calls \ Private, Starts(c)
      PROVE  now < spoken + Lease
  <2>1. Permits(c)
    BY <1>1, StartsByBegin DEF PoolInv
  <2>2. Checked(gate).state = "OPEN"
    BY <1>1, <2>1 DEF Permits, Exempt
  <2>3. now < gate.until
    BY <1>1, <2>2 DEF Checked, CloseGate, Expired, PoolInv, PoolTypeOK
  <2> QED
    BY <1>1, <2>3, PoolAssumption DEF PoolInv, LeaseInv, PoolTypeOK
<1>2. PoolInv /\ [PoolNext]_poolVars
        => \A c \in Calls \ Private : Starts(c) => now < spoken + Lease
  BY <1>1
<1> QED
  BY <1>2, PoolInvHolds, PTL DEF PoolSpec, StartsNeedSupervisor

\* The pool with its gate, leases, timeouts and failures is the bounded
\* semaphore: a caller that gives up does not free its call's slot.
THEOREM PoolIsBounded == PoolSpec => ImplementsSlots
<1>1. PoolInit => Bounded!SlotsInit
  BY DEF PoolInit, Bounded!SlotsInit, Jobs, Holding
<1>2. ASSUME PoolInv, [PoolNext]_poolVars
      PROVE  [Bounded!SlotsNext]_<<Jobs, Over>>
  <2>1. PoolTypeOK /\ Reconciled /\ Cardinality(Jobs) \in Nat /\ Slots \in Nat
    BY <1>2, JobsFinite, PoolAssumption DEF PoolInv, NeverMismatched
  <2>2. free > 0 => Cardinality(Jobs) < Slots
    BY <2>1 DEF Reconciled, PoolTypeOK
  <2>3. CASE \E c \in Calls : /\ c \notin Jobs \cup Over /\ free > 0
                             /\ Jobs' = Jobs \cup {c} /\ Over' = Over
    <3> PICK c \in Calls : /\ c \notin Jobs \cup Over /\ free > 0
                           /\ Jobs' = Jobs \cup {c} /\ Over' = Over
      BY <2>3
    <3> Bounded!Acquire(c)
      BY <2>2 DEF Bounded!Acquire, Over, Cardinality, Bounded!Cardinality
    <3> QED
      BY DEF Bounded!SlotsNext, Over
  <2>4. CASE \E c \in Calls : /\ c \in Jobs /\ Jobs' = Jobs \ {c}
                             /\ Over' = Over \cup {c}
    BY <2>4 DEF Bounded!SlotsNext, Bounded!Release, Over
  <2>5. CASE \E c \in Calls : /\ c \notin Jobs \cup Over /\ Jobs' = Jobs
                             /\ Over' = Over \cup {c}
    BY <2>5 DEF Bounded!SlotsNext, Bounded!Refuse, Over
  <2>6. CASE Jobs' = Jobs /\ Over' = Over
    BY <2>6
  <2> QED
    BY <1>2, <2>1, <2>3, <2>4, <2>5, <2>6, StepOfCalls
<1> QED
  BY <1>1, <1>2, PoolInvHolds, PTL
    DEF PoolSpec, ImplementsSlots, Bounded!SlotsSpec, Over

=============================================================================
