-------------------------------- MODULE Chat --------------------------------
(***************************************************************************)
(* The chat with SOPHIA: the turns of POST /chat, the threads they use at   *)
(* the runtime, the sessions that bind a thread to its owner, the deletion  *)
(* of a session by its owner or by a superadmin, and the tickets SOPHIA     *)
(* proposes and their confirmation.                                         *)
(*                                                                         *)
(* An owner is a user in a tenant.  A turn runs under the caller's context  *)
(* as it was when the request came; roles change meanwhile.  The runtime is *)
(* external: a thread takes a message unless a run is active on it, and its *)
(* answer may be late, lost or wrong.                                       *)
(***************************************************************************)
EXTENDS Integers, FiniteSets, ToolPolicy

CONSTANTS
  none,              \* no session, thread, request or context
  Users, Operators,  \* all users; those of the platform, who act in any tenant
  Tenants, Home,     \* the tenants; those the users belong to
  Turns,             \* the requests to POST /chat
  Earlier,           \* the sessions there are at the start
  Deletes,           \* the requests to DELETE /chat/sessions
  Threads,           \* the threads the runtime can have
  Asks,              \* the tool requests SOPHIA makes
  Settings,          \* the deployments: <<governed, capabilities, port>>
  Budgets,           \* seconds a request can have: 23, or what Lambda has left
  FirstCap, SecondCap, ToolCap, Reserve,  \* seconds: 14, 9, 5, 2
  Retries,           \* SOPHIA_RUN_ACTIVE_RETRIES
  Faults

(* "late": an answer does not come in time.  "lost": the message does not   *)
(* reach the runtime.  "foreign": the answer names another thread.          *)
(* "trickle": it arrives in pieces.  "commit": the commit fails.            *)
(* "remote": the runtime refuses a deletion.  A Lambda that ends half-way    *)
(* is one that takes no further step.                                       *)
AllFaults == {"late", "lost", "foreign", "trickle", "commit", "remote"}

Sessions == Turns \cup Earlier

Ports == {"direct", "agentcore", "disabled"}

ASSUME ChatAssumption ==
  /\ none \notin Threads /\ Turns \cap Earlier = {}
  /\ Operators \subseteq Users /\ Home \in [Users -> Tenants]
  /\ Settings \subseteq BOOLEAN \X BOOLEAN \X Ports
  /\ Asks \subseteq [tool : Tools \cup {"unknown"}, args : Arguments]
  /\ Budgets \subseteq Nat /\ FirstCap \in Nat /\ SecondCap \in Nat /\ ToolCap \in Nat
  /\ Reserve \in Nat /\ Retries \in Nat
  /\ Faults \subseteq AllFaults

VARIABLES
  setting,  \* the deployment; it does not change
  account,  \* the roles of the users
  row,      \* the sessions; those made by a turn have its name
  thread,   \* the threads: their state, whether a run is active, and history:
            \* the owners whose messages they have, and whether the runtime gave
            \* one to another while no session was bound to it
  turn,     \* the requests to POST /chat
  del,      \* the requests to delete a session
  token,    \* whether a turn made a proposal, with its confirmation token
  ticket    \* the context of who confirmed the proposal of a turn, or none

chatVars == <<setting, account, row, thread, turn, del, token, ticket>>

governed     == setting[1]
capabilities == setting[2]
port         == setting[3]

\* What a request of u is made under: the role of his row, the tenant of his
\* token.  Those of the platform have no access without a delegation.
Contexts(u) ==
  LET operates == account[u] \in {"ADMIN_XOC", "SUPERADMIN"} IN
  {[user |-> u, role |-> account[u], home |-> Home[u], tenant |-> t,
    delegated |-> operates] : t \in IF operates THEN Tenants ELSE {Home[u]}}

Owner(c) == <<c.tenant, c.user>>

\* Where a turn is.
Points == {"new", "post", "first", "active", "tool", "continue", "write", "done"}

Roles == {"USER", "ADMIN", "ADMIN_XOC", "SUPERADMIN"}
AllContexts == [user : Users, role : Roles, home : Tenants, tenant : Tenants,
                delegated : BOOLEAN]
Owners == Tenants \X Users

ChatTypeOK ==
  /\ setting \in Settings
  /\ account \in [Users -> Roles]
  /\ row \in [Sessions -> [state : {"none", "bound", "deleted", "purged"},
                           owner : Owners \cup {none},
                           thread : Threads \cup {none}]]
  /\ thread \in [Threads -> [state : {"none", "open", "deleted"},
                             busy : BOOLEAN, heard : SUBSET Owners,
                              strayed : BOOLEAN]]
  /\ turn \in [Turns ->
       [pc : Points, ctx : AllContexts \cup {none}, row : Sessions \cup {none},
        thread : Threads \cup {none}, on : Threads \cup {none},
        named : Threads \cup {none}, ask : Asks \cup {none}, tool : {"none", "allowed", "refused"},
        plan : BOOLEAN, left : Int, tries : 0..Retries, sent : Nat]]
  /\ del \in [Deletes -> [pc : {"new", "remote", "local", "done"},
                          by : {"owner", "superadmin"}, row : Sessions \cup {none}]]
  /\ token \in [Turns -> BOOLEAN]
  /\ ticket \in [Turns -> AllContexts \cup {none}]

At(pc) == [pc |-> pc, ctx |-> none, row |-> none, thread |-> none, on |-> none,
           named |-> none, ask |-> none, tool |-> "none", plan |-> FALSE,
           left |-> 0, tries |-> 0, sent |-> 0]

ChatInit ==
  /\ setting \in Settings
  /\ account \in [Users -> {"USER", "ADMIN", "ADMIN_XOC"}]
  /\ \A u \in Users : account[u] = "ADMIN_XOC" <=> u \in Operators
  /\ \E at \in [Earlier -> Threads], of \in [Earlier -> Owners] :
       /\ \A e, f \in Earlier : at[e] = at[f] => e = f
       /\ \A e \in Earlier : of[e][2] \in Operators \/ of[e][1] = Home[of[e][2]]
       /\ row = [s \in Sessions |->
            IF s \in Earlier THEN [state |-> "bound", owner |-> of[s], thread |-> at[s]]
            ELSE [state |-> "none", owner |-> none, thread |-> none]]
       /\ thread = [h \in Threads |->
            LET on == {e \in Earlier : at[e] = h} IN
            [state |-> IF on = {} THEN "none" ELSE "open", busy |-> FALSE,
             heard |-> {of[e] : e \in on}, strayed |-> FALSE]]
  /\ turn = [r \in Turns |-> At("new")]
  /\ del = [d \in Deletes |-> [pc |-> "new", by |-> "owner", row |-> none]]
  /\ token = [r \in Turns |-> FALSE]
  /\ ticket = [r \in Turns |-> none]

-----------------------------------------------------------------------------
(* The sessions.                                                           *)

Bound(s) == row[s].state = "bound"

\* Mutant: the session is looked for by its user alone.
OwnedByUser(c) == {s \in Sessions : Bound(s) /\ row[s].owner[2] = c.user}

\* _owned_chat_session, and the lookups of the caller's latest session.
Owned(c) == {s \in Sessions : Bound(s) /\ row[s].owner = Owner(c)}

BoundElsewhere(c) ==
  {row[s].thread : s \in {s \in Sessions : Bound(s) /\ row[s].owner # Owner(c)}}

\* Mutant: only the conversation's own thread is looked at.
AnyForANewOne(c, h, named) == named # none /\ h # none => named = h

\* _validate_response_thread_binding: a conversation keeps its thread, and a
\* thread that is known to be another owner's is not adopted.
Accepts(c, h, named) ==
  named # none => (h # none => named = h) /\ named \notin BoundElsewhere(c)

-----------------------------------------------------------------------------
(* POST /chat.                                                             *)

Least(a, b) == IF a < b THEN a ELSE b

\* How long a call takes that may take cap: next to nothing, or all of it.
\* requests bounds the wait for each piece of an answer, not for all of them.
Durations(cap) == {0, cap} \cup IF "trickle" \in Faults THEN {cap + 1} ELSE {}

Goes(r, pc) == turn' = [turn EXCEPT ![r] = [@ EXCEPT !.pc = pc]]

\* With an answer or an error; what the request remembered is gone.
Ends(r) == turn' = [turn EXCEPT ![r] = At("done")]

\* With a session of the caller's, or for a new one.
Accept(r) ==
  /\ turn[r].pc = "new"
  /\ \E u \in Users, left \in IF governed THEN Budgets ELSE {0} :
       \E c \in Contexts(u) : \E s \in Owned(c) \cup {none} :
       turn' = [turn EXCEPT ![r] =
         [@ EXCEPT !.pc = "post", !.ctx = c, !.left = left, !.row = s,
                   !.thread = IF s = none THEN none ELSE row[s].thread]]
  /\ UNCHANGED <<setting, account, row, thread, del, token, ticket>>

\* requires_governed_execution
Misconfigured == port # "direct" /\ ~governed

\* The message reaches thread h: one run at a time is active on a thread.
Hears(r, h) ==
  /\ thread' = [thread EXCEPT ![h] =
       [@ EXCEPT !.state = "open", !.busy = TRUE,
                 !.heard = thread[h].heard \cup {Owner(turn[r].ctx)}]]
  /\ turn' = [turn EXCEPT ![r] = [@ EXCEPT !.pc = "first", !.on = h,
                                           !.sent = turn[r].sent + 1]]

Post(r) ==
  LET h == turn[r].thread IN
  /\ turn[r].pc = "post"
  /\ \/ Misconfigured /\ Ends(r) /\ UNCHANGED thread
     \/ /\ ~Misconfigured
        /\ \/ h = none /\ \E new \in Threads :
                 thread[new].state = "none" /\ Hears(r, new)
           \/ h # none /\ thread[h].state = "open" /\ ~thread[h].busy /\ Hears(r, h)
           \/ h # none /\ thread[h].state = "open" /\ thread[h].busy
                /\ Goes(r, "active") /\ UNCHANGED thread
           \/ h # none /\ thread[h].state = "deleted"
                /\ Ends(r) /\ UNCHANGED thread
           \/ "lost" \in Faults /\ UNCHANGED thread
                /\ Ends(r)
  /\ UNCHANGED <<setting, account, row, del, token, ticket>>

\* "Can't add messages to thread": only the ungoverned chat tries again.
Retry(r) ==
  /\ turn[r].pc = "active"
  /\ IF governed THEN Ends(r)
     ELSE IF turn[r].tries < Retries
     THEN turn' = [turn EXCEPT ![r] = [@ EXCEPT !.pc = "post",
                                                !.tries = turn[r].tries + 1]]
     ELSE Ends(r)
  /\ UNCHANGED <<setting, account, row, thread, del, token, ticket>>

Idle(h) == thread' = [thread EXCEPT ![h] = [@ EXCEPT !.busy = FALSE]]

\* What an answer may name: its own thread, none, or any there is.
Named(r) ==
  {turn[r].on} \cup IF "foreign" \in Faults
                    THEN {none} \cup {h \in Threads : thread[h].state # "none"} ELSE {}

\* Whether thread h, taken for a conversation of c's, was another's, and the
\* code could not know: no session was bound to it.
Strays(c, h) ==
  /\ thread[h].heard # {Owner(c)}
  /\ ~\E s \in Sessions : Bound(s) /\ row[s].thread = h

\* The run on r's thread is over; h is now that of its conversation.
Takes(r, h) ==
  thread' = [g \in Threads |->
    [thread[g] EXCEPT !.busy = @ /\ g # turn[r].on,
                      !.strayed = @ \/ (g = h /\ Strays(turn[r].ctx, h))]]

\* What is left when the last call is over: something, or too little.
Kept(left) == IF left < 0 THEN -1 ELSE 0

\* Status 200: a text, an action plan, or a request for a tool.
Reply(r) ==
  /\ turn[r].pc = "first"
  /\ \E named \in Named(r), ask \in Asks \cup {none}, plan \in BOOLEAN,
       time \in IF governed THEN Durations(Least(FirstCap, turn[r].left)) ELSE {0} :
       IF ~Accepts(turn[r].ctx, turn[r].thread, named)
            \/ (ask # none /\ governed /\ named = none)
       THEN Ends(r) /\ Idle(turn[r].on)
       ELSE /\ Takes(r, named)
            /\ turn' = [turn EXCEPT ![r] =
                 [@ EXCEPT !.pc = IF ask = none THEN "write" ELSE "tool",
                           !.on = none, !.thread = none, !.tries = 0,
                           !.named = named, !.ask = ask, !.plan = plan,
                           !.left = IF ask = none THEN Kept(turn[r].left - time)
                                                    ELSE turn[r].left - time]]
  /\ UNCHANGED <<setting, account, row, del, token, ticket>>

ErrorReply(r) ==
  /\ turn[r].pc = "first"
  /\ Idle(turn[r].on)
  /\ Ends(r)
  /\ UNCHANGED <<setting, account, row, del, token, ticket>>

\* Mutant: the message is sent once more.
LateAgain(r) == Goes(r, "post")

LateEnds(r) == Ends(r)

\* No answer in time; the run on the thread goes on.
Late(r) ==
  /\ turn[r].pc = "first" /\ "late" \in Faults
  /\ LateEnds(r)
  /\ UNCHANGED <<setting, account, row, thread, del, token, ticket>>

RunEnds(h) ==
  /\ thread[h].busy /\ ~\E r \in Turns : turn[r].pc = "first" /\ turn[r].on = h
  /\ Idle(h)
  /\ UNCHANGED <<setting, account, row, turn, del, token, ticket>>

\* AgentCoreExecution's end.
ToolTime(r) == Least(turn[r].left - Reserve, ToolCap)

Result(code) == IF code = "allowed" THEN "allowed" ELSE "refused"

\* One execution of one tool.  The direct one knows no deadline.
RunTool(r) ==
  /\ turn[r].pc = "tool"
  /\ \/ port = "agentcore" /\ ToolTime(r) >= 1
        /\ \E time \in Durations(ToolTime(r)),
              code \in ExecutedBy(port, turn[r].ctx, turn[r].ask) :
             turn' = [turn EXCEPT ![r] = [@ EXCEPT !.pc = "continue",
                                   !.tool = Result(code), !.ask = none,
                                   !.left = turn[r].left - time]]
     \/ port = "agentcore" /\ ToolTime(r) < 1
        /\ turn' = [turn EXCEPT ![r] = [@ EXCEPT !.pc = "continue",
                                   !.tool = "refused", !.ask = none]]
     \/ port # "agentcore"
        /\ \E code \in ExecutedBy(port, turn[r].ctx, turn[r].ask),
              time \in {0} \cup (IF governed /\ "late" \in Faults THEN {turn[r].left} ELSE {}) :
             turn' = [turn EXCEPT ![r] =
               [@ EXCEPT !.pc = IF governed THEN "continue" ELSE "write",
                         !.tool = Result(code), !.ask = none,
                         !.left = IF governed THEN turn[r].left - time ELSE 0]]
  /\ UNCHANGED <<setting, account, row, thread, del, token, ticket>>

\* Mutant: the second turn has its time whatever is left.
SecondTimeAlways(r) == SecondCap

SecondTime(r) == Least(SecondCap, turn[r].left)

\* finish_turn: the result goes back once.  Whatever comes, the final text, a
\* second request for a tool, an error or nothing, the turn has an answer
\* and no proposal.
Continue(r) ==
  /\ turn[r].pc = "continue"
  /\ \E time \in IF SecondTime(r) <= 0 THEN {0} ELSE Durations(SecondTime(r)) :
       turn' = [turn EXCEPT ![r] = [@ EXCEPT !.pc = "write", !.plan = FALSE,
                                             !.left = Kept(turn[r].left - time)]]
  /\ UNCHANGED <<setting, account, row, thread, del, token, ticket>>

\* _can_confirm_chat_ticket
CanConfirm(c) == c.role = "ADMIN" \/ (c.role = "ADMIN_XOC" /\ c.delegated)

MayHaveIntent(r) == ~(governed /\ turn[r].tool # "none")

\* Of SOPHIA's action plan, or else of what the user asked for.
Proposals(r) == IF turn[r].plan THEN {TRUE} ELSE {FALSE, MayHaveIntent(r)}

\* The session is made or updated, unless it has been deleted meanwhile or
\* the commit fails; the answer is given all the same.
Saved(r) ==
  LET s == turn[r].row  named == turn[r].named  c == turn[r].ctx IN
  CASE s = none /\ named # none ->
         [row EXCEPT ![r] = [state |-> "bound", owner |-> Owner(c), thread |-> named]]
    [] s # none /\ Bound(s) /\ named # none ->
         [row EXCEPT ![s] = [@ EXCEPT !.thread = named]]
    [] OTHER -> row

Write(r) ==
  /\ turn[r].pc = "write"
  /\ row' \in {Saved(r)} \cup IF "commit" \in Faults THEN {row} ELSE {}
  /\ \E proposed \in Proposals(r) :
       IF proposed /\ CanConfirm(turn[r].ctx)
       THEN /\ token' = [token EXCEPT ![r] = TRUE]
            /\ turn' = [turn EXCEPT ![r] = [At("done") EXCEPT !.ctx = turn[r].ctx,
                                                     !.tool = turn[r].tool]]
       ELSE Ends(r) /\ UNCHANGED token
  /\ UNCHANGED <<setting, account, thread, del, ticket>>

-----------------------------------------------------------------------------
(* DELETE /chat/sessions.                                                  *)

DelGoes(d, pc) == del' = [del EXCEPT ![d] = [@ EXCEPT !.pc = pc]]

DelEnds(d) == del' = [del EXCEPT ![d] = [pc |-> "done", by |-> "owner", row |-> none]]

\* By its owner, or by a superadmin.
StartDelete(d) ==
  /\ del[d].pc = "new"
  /\ \/ \E u \in Users : \E c \in Contexts(u) : \E s \in Owned(c) :
          del' = [del EXCEPT ![d] = [pc |-> "remote", by |-> "owner", row |-> s]]
     \/ \E s \in Sessions : Bound(s) /\
          del' = [del EXCEPT ![d] = [pc |-> "remote", by |-> "superadmin", row |-> s]]
  /\ UNCHANGED <<setting, account, row, thread, turn, token, ticket>>

\* Mutant: the row goes in any case.
NeverKept(d) == FALSE

\* "Keep ownership/affinity for a retry."
KeptOnFailure(d) == capabilities /\ del[d].by = "owner"

RemoteDelete(d) ==
  LET h == row[del[d].row].thread
      gone == thread' = [thread EXCEPT ![h] = [@ EXCEPT !.state = "deleted"]]
      Fails == IF KeptOnFailure(d) THEN DelEnds(d) ELSE DelGoes(d, "local") IN
  /\ del[d].pc = "remote"
  /\ \/ gone /\ DelGoes(d, "local")
     \/ /\ "remote" \in Faults \/ thread[h].state = "deleted"
        /\ UNCHANGED thread
        /\ Fails
     \/ "late" \in Faults /\ gone /\ Fails
  /\ UNCHANGED <<setting, account, row, turn, token, ticket>>

LocalDelete(d) ==
  LET s == del[d].row IN
  /\ del[d].pc = "local" /\ DelEnds(d)
  /\ \/ /\ Bound(s)
        /\ row' = [row EXCEPT ![s] = [@ EXCEPT !.state =
             IF del[d].by = "owner" THEN "deleted" ELSE "purged"]]
     \/ (~Bound(s) \/ "commit" \in Faults) /\ row' = row
  /\ UNCHANGED <<setting, account, thread, turn, token, ticket>>

-----------------------------------------------------------------------------
(* The users.                                                              *)

ChangeRole(u) ==
  /\ u \notin Operators
  /\ account' = [account EXCEPT ![u] = IF @ = "ADMIN" THEN "USER" ELSE "ADMIN"]
  /\ UNCHANGED <<setting, row, thread, turn, del, token, ticket>>

\* Mutant: the token is enough.
AnyContext(r, c) == TRUE

SameContext(r, c) ==
  /\ c.user = turn[r].ctx.user /\ c.tenant = turn[r].ctx.tenant
  /\ c.role = turn[r].ctx.role /\ c.delegated = turn[r].ctx.delegated

\* POST /chat/tickets/confirm, while the token lives, for 300 seconds; a
\* second confirmation finds the ticket.
Confirm(r) ==
  /\ token[r] /\ ticket[r] = none
  /\ \E u \in Users : \E c \in Contexts(u) :
       /\ CanConfirm(c) /\ SameContext(r, c)
       /\ ticket' = [ticket EXCEPT ![r] = c]
  /\ UNCHANGED <<setting, account, row, thread, turn, del, token>>

-----------------------------------------------------------------------------
Serve(r) ==
  \/ Post(r) \/ Retry(r) \/ Reply(r) \/ ErrorReply(r) \/ Late(r) \/ RunTool(r)
  \/ Continue(r) \/ Write(r)

Remove(d) == StartDelete(d) \/ RemoteDelete(d) \/ LocalDelete(d)

ChatNext ==
  \/ \E r \in Turns : Accept(r) \/ Serve(r) \/ Confirm(r)
  \/ \E d \in Deletes : Remove(d)
  \/ \E h \in Threads : RunEnds(h)
  \/ \E u \in Users : ChangeRole(u)

ChatSpec == ChatInit /\ [][ChatNext]_chatVars

-----------------------------------------------------------------------------
(* Properties.                                                             *)

\* The messages of a thread are one user's in one tenant, also those of an
\* operator who acts in several, whatever thread the runtime names; but that a
\* thread no session is bound to, because the first turn on it got no answer
\* or was not committed yet or its session is gone, may be given to another.
ThreadsKeepApart ==
  \A h \in Threads : thread[h].strayed \/ Cardinality(thread[h].heard) <= 1

\* A turn puts its message on a thread at most once: it is repeated only
\* after an error which says that it was not added.
OneMessagePerTurn == \A r \in Turns : turn[r].sent <= 1

\* A message gets to its own conversation, and once.
MessagesInPlace == ThreadsKeepApart /\ OneMessagePerTurn

\* With thread capabilities a session its owner deleted has left no thread
\* behind, whichever of his requests failed half-way.
DeletedWithThread ==
  capabilities => \A s \in Sessions :
    row[s].state = "deleted" => thread[row[s].thread].state = "deleted"

\* A ticket is confirmed by the user to whom it was proposed, still an
\* administrator of the same tenant in the same capacity, and a governed turn
\* that executed a tool has proposed none: neither the data it read nor its
\* question turns into a ticket.
TicketIsOwned ==
  \A r \in Turns : ticket[r] # none =>
    /\ ticket[r] = turn[r].ctx
    /\ CanConfirm(ticket[r])
    /\ governed => turn[r].tool = "none"

\* The comment of _runtime_timeout: the turns never consume the seconds that
\* are left to the Lambda for its response, and a tool that was executed over
\* AgentCore leaves the second turn its time, as long as answers come whole.
TurnWithinBudget ==
  governed /\ port = "agentcore" => \A r \in Turns :
    /\ turn[r].left >= 0
    /\ turn[r].pc = "continue" /\ turn[r].tool = "allowed" => turn[r].left >= Reserve

=============================================================================
