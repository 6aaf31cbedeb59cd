------------------------------ MODULE Accounts ------------------------------
(***************************************************************************)
(* Users, tenants and tokens: login and refresh, /users of a tenant,       *)
(* /superadmin/users, onboarding, impersonation tokens of the platform's   *)
(* operators, tokens for the agent, and the SQL part of a tenant's end.    *)
(*                                                                         *)
(* A request is one transaction: it reads the caller's row and the rows it *)
(* checks (Begin...), and commits later (Commit), when the caller, the     *)
(* target or the tenant may be gone.  The audit row every change inserts   *)
(* refers to the caller, and a new user refers to its tenant, so the       *)
(* database refuses the commit when that row is gone.                      *)
(*                                                                         *)
(* Left out: names, e-mails and passwords (a conflict is a refusal), and   *)
(* the tenant's plan.  Ids are never used twice.                           *)
(***************************************************************************)
EXTENDS Naturals, FiniteSets

CONSTANTS
  MaxUsers,   \* bound: users ever created
  MaxTenants, \* bound: tenants ever created
  Requests,   \* the requests that may overlap
  MaxTokens,  \* bound: tokens alive at a time
  Null        \* SQL's NULL, no claim

Ids == 1..MaxUsers
Tenants == 1..MaxTenants

ASSUME AccountsAssumption ==
  /\ MaxUsers \in Nat \ {0, 1} /\ MaxTenants \in Nat \ {0} /\ MaxTokens \in Nat
  /\ Null \notin Nat

VARIABLES
  user,         \* the rows of users
  users,        \* the ids given so far are 1..users
  tenantRows,   \* the ids of the rows of tenants
  tenantsEver,  \* the ids given so far are 1..tenantsEver
  tokens,       \* signed and not yet expired
  transaction,  \* what each request is about to commit
  removal       \* the worker's transaction that deletes a tenant

accountVars == <<user, users, tenantRows, tenantsEver, tokens, transaction, removal>>

TenantRoles == {"ADMIN", "USER"}
PlatformRoles == {"ADMIN_XOC", "SUPERADMIN"}
NoUser == [role |-> "none", tenant |-> Null]
Users == [role : TenantRoles \cup PlatformRoles, tenant : Tenants \cup {Null}]

\* The claims the authorizer hands on. An agent's token names no user.
Tokens == [type : {"access", "refresh", "agent"}, sub : Ids \cup {Null},
           role : TenantRoles \cup PlatformRoles \cup {Null},
           tenant : Tenants \cup {Null}, acting : Tenants \cup {Null}]

NoTransaction == [op |-> "idle"]
Operations ==
  [op : {"insert"}, actor : Ids, row : Users] \cup
  [op : {"role"}, actor : Ids, target : Ids, to : TenantRoles] \cup
  [op : {"delete"}, actor : Ids, target : Ids]

HasRow(u) == user[u] # NoUser

AccountsTypeOK ==
  /\ users \in 0..MaxUsers /\ tenantsEver \in 0..MaxTenants
  /\ user \in [Ids -> Users \cup {NoUser}]
  /\ tenantRows \subseteq Tenants
  /\ tokens \subseteq Tokens
  /\ transaction \in [Requests -> Operations \cup {NoTransaction}]
  /\ removal \in {Null} \cup [tenant : Tenants, listed : SUBSET Ids]

\* The platform's first operator, and a tenant with its administrator.
AccountsInit ==
  /\ users = 2 /\ tenantsEver = 1
  /\ user = [u \in Ids |->
       CASE u = 1 -> [role |-> "SUPERADMIN", tenant |-> Null]
         [] u = 2 -> [role |-> "ADMIN", tenant |-> 1]
         [] OTHER -> NoUser]
  /\ tenantRows = {1}
  /\ tokens = {}
  /\ transaction = [r \in Requests |-> NoTransaction]
  /\ removal = Null

-----------------------------------------------------------------------------
(* Who the caller is, from the token and from the row it names.            *)

\* get_current_user: any access token, and the row as it is now.
Speaks(t) == t.type = "access" /\ HasRow(t.sub)

Operator(t) == user[t.sub].role \in PlatformRoles
Superadmin(t) == user[t.sub].role = "SUPERADMIN"
Delegated(t) == t.acting # Null

\* require_admin and require_tenant_read_access
Admin(t) == user[t.sub].role = "ADMIN" \/ (Operator(t) /\ Delegated(t))
Reader(t) == user[t.sub].role \in TenantRoles \/ (Operator(t) /\ Delegated(t))

\* effective_tenant_id_of; Null is a refusal.
Effective(t) ==
  IF Operator(t) /\ ~Delegated(t) THEN Null
  ELSE IF Delegated(t) THEN t.acting ELSE user[t.sub].tenant

\* get_request_tenant_context: the routes that never read the row.
Claimed(t) == IF t.acting # Null THEN t.acting ELSE t.tenant

-----------------------------------------------------------------------------
(* Tokens.                                                                 *)

\* Others may have expired by then.
Issue(t) ==
  /\ \E alive \in SUBSET tokens : tokens' = alive \cup {t}
  /\ Cardinality(tokens') <= MaxTokens
  /\ UNCHANGED <<user, users, tenantRows, tenantsEver, transaction, removal>>

AccessOf(u) == [type |-> "access", sub |-> u, role |-> user[u].role,
                tenant |-> user[u].tenant, acting |-> Null]

RefreshOf(u) == [type |-> "refresh", sub |-> u, role |-> Null,
                 tenant |-> Null, acting |-> Null]

\* Both tokens are issued at once; one is enough for what follows.
Login(u) == HasRow(u) /\ (Issue(AccessOf(u)) \/ Issue(RefreshOf(u)))

\* The refresh token stays valid.
Refresh(t) ==
  /\ t.type = "refresh" /\ HasRow(t.sub)
  /\ Issue(AccessOf(t.sub))

\* Mutant: an administrator may name a tenant as well.
ImpersonateAny(t, c) ==
  /\ Speaks(t) /\ (Operator(t) \/ Admin(t)) /\ c \in tenantRows
  /\ Issue([AccessOf(t.sub) EXCEPT !.acting = c])

\* An hour for a tenant, whatever token the operator calls with.
Impersonate(t, c) ==
  /\ Speaks(t) /\ Operator(t) /\ c \in tenantRows
  /\ Issue([AccessOf(t.sub) EXCEPT !.acting = c])

AgentToken(t) ==
  /\ Speaks(t) /\ Reader(t) /\ Effective(t) # Null
  /\ Issue([type |-> "agent", sub |-> Null, role |-> Null,
            tenant |-> Effective(t), acting |-> Null])

Expire(t) ==
  /\ tokens' = tokens \ {t}
  /\ UNCHANGED <<user, users, tenantRows, tenantsEver, transaction, removal>>

-----------------------------------------------------------------------------
(* Requests: what is read and checked.                                     *)

Begin(r, op) ==
  /\ transaction[r] = NoTransaction
  /\ transaction' = [transaction EXCEPT ![r] = op]
  /\ UNCHANGED <<user, users, tenantRows, tenantsEver, tokens, removal>>

\* Mutant: current_user.tenant_id is not overwritten.
BeginCreateOwn(r, t, role) ==
  /\ Speaks(t) /\ Admin(t) /\ Effective(t) # Null
  /\ role \in TenantRoles
  /\ Begin(r, [op |-> "insert", actor |-> t.sub,
               row |-> [role |-> role, tenant |-> user[t.sub].tenant]])

\* POST /users
BeginCreate(r, t, role) ==
  /\ Speaks(t) /\ Admin(t) /\ Effective(t) # Null
  /\ role \in TenantRoles
  /\ Begin(r, [op |-> "insert", actor |-> t.sub,
               row |-> [role |-> role, tenant |-> Effective(t)]])

\* _get_tenant_user_or_404
Mine(t, u) == HasRow(u) /\ Effective(t) # Null /\ user[u].tenant = Effective(t)

\* Mutant: the target is looked up by id alone.
BeginRoleAnywhere(r, t, u, role) ==
  /\ Speaks(t) /\ HasRow(u)
  /\ user[t.sub].role = "ADMIN" \/ Delegated(t)
  /\ role \in TenantRoles
  /\ Begin(r, [op |-> "role", actor |-> t.sub, target |-> u, to |-> role])

\* PUT /users/{id}: of what it may change only the role matters here.
BeginRole(r, t, u, role) ==
  /\ Speaks(t) /\ Mine(t, u)
  /\ user[t.sub].role = "ADMIN" \/ Delegated(t)
  /\ role \in TenantRoles
  /\ Begin(r, [op |-> "role", actor |-> t.sub, target |-> u, to |-> role])

\* DELETE /users/{id}
BeginDelete(r, t, u) ==
  /\ Speaks(t) /\ Admin(t) /\ Mine(t, u) /\ u # t.sub
  /\ Begin(r, [op |-> "delete", actor |-> t.sub, target |-> u])

\* POST /superadmin/users
BeginSuperCreate(r, t, row) ==
  /\ Speaks(t) /\ Superadmin(t)
  /\ \/ /\ row.role \in TenantRoles
        /\ row.tenant \in tenantRows
     \/ row = [role |-> "ADMIN_XOC", tenant |-> Null]
  /\ Begin(r, [op |-> "insert", actor |-> t.sub, row |-> row])

\* DELETE /superadmin/users/{id}
BeginSuperDelete(r, t, u) ==
  /\ Speaks(t) /\ Superadmin(t)
  /\ HasRow(u) /\ user[u].role # "SUPERADMIN"
  /\ Begin(r, [op |-> "delete", actor |-> t.sub, target |-> u])

-----------------------------------------------------------------------------
(* Requests: the commit.                                                   *)

\* Mutant: nothing is recorded for the caller.
Unaudited(r) == transaction[r] # NoTransaction

\* The audit row's foreign key.
Audited(r) == transaction[r] # NoTransaction /\ HasRow(transaction[r].actor)

Finish(r) == transaction' = [transaction EXCEPT ![r] = NoTransaction]

CommitInsert(r) ==
  /\ Audited(r) /\ transaction[r].op = "insert"
  /\ users < MaxUsers /\ users' = users + 1
  /\ transaction[r].row.tenant \in tenantRows \cup {Null}
  /\ user' = [user EXCEPT ![users + 1] = transaction[r].row]
  /\ Finish(r) /\ UNCHANGED <<tenantRows, tenantsEver, tokens, removal>>

\* The UPDATE of a row that is gone fails.
CommitRole(r) ==
  /\ Audited(r) /\ transaction[r].op = "role"
  /\ HasRow(transaction[r].target)
  /\ user' = [user EXCEPT ![transaction[r].target].role = transaction[r].to]
  /\ Finish(r) /\ UNCHANGED <<users, tenantRows, tenantsEver, tokens, removal>>

\* The DELETE of one does not.
CommitDelete(r) ==
  /\ Audited(r) /\ transaction[r].op = "delete"
  /\ user' = [user EXCEPT ![transaction[r].target] = NoUser]
  /\ Finish(r) /\ UNCHANGED <<users, tenantRows, tenantsEver, tokens, removal>>

\* A refusal, a failure or the end of the Lambda: rolled back.
Rollback(r) ==
  /\ transaction[r] # NoTransaction
  /\ Finish(r) /\ UNCHANGED <<user, users, tenantRows, tenantsEver, tokens, removal>>

-----------------------------------------------------------------------------
(* Tenants.                                                                *)

\* POST /onboarding/tenant, open or with a superadmin's token: both rows.
Onboard ==
  /\ tenantsEver < MaxTenants /\ users < MaxUsers
  /\ tenantsEver' = tenantsEver + 1 /\ users' = users + 1
  /\ tenantRows' = tenantRows \cup {tenantsEver + 1}
  /\ user' = [user EXCEPT ![users + 1] = [role |-> "ADMIN", tenant |-> tenantsEver + 1]]
  /\ UNCHANGED <<tokens, transaction, removal>>

\* POST /superadmin/tenants: a tenant without users.
CreateTenant(t) ==
  /\ Speaks(t) /\ Superadmin(t)
  /\ tenantsEver < MaxTenants /\ tenantsEver' = tenantsEver + 1
  /\ tenantRows' = tenantRows \cup {tenantsEver + 1}
  /\ UNCHANGED <<user, users, tokens, transaction, removal>>

\* The worker of a tenant's deletion reads the tenant and lists its users...
ListUsers(c) ==
  /\ removal = Null /\ c \in tenantRows
  /\ removal' = [tenant |-> c, listed |-> {u \in Ids : user[u].tenant = c}]
  /\ UNCHANGED <<user, users, tenantRows, tenantsEver, tokens, transaction>>

\* ...and deletes both. A user the list missed loses its tenant (SET NULL).
RemoveTenant ==
  /\ removal # Null
  /\ user' = [u \in Ids |->
       IF u \in removal.listed THEN NoUser
       ELSE IF user[u].tenant = removal.tenant THEN [user[u] EXCEPT !.tenant = Null]
       ELSE user[u]]
  /\ tenantRows' = tenantRows \ {removal.tenant}
  /\ removal' = Null
  /\ UNCHANGED <<users, tenantsEver, tokens, transaction>>

-----------------------------------------------------------------------------
Auth ==
  \/ \E u \in Ids : Login(u)
  \/ \E t \in tokens :
       \/ Refresh(t) \/ AgentToken(t) \/ Expire(t)
       \/ \E c \in Tenants : Impersonate(t, c)

Serve(r) ==
  \/ \E t \in tokens :
       \/ \E role \in TenantRoles : BeginCreate(r, t, role)
       \/ \E u \in Ids, role \in TenantRoles : BeginRole(r, t, u, role)
       \/ \E u \in Ids : BeginDelete(r, t, u) \/ BeginSuperDelete(r, t, u)
       \/ \E row \in Users : BeginSuperCreate(r, t, row)
  \/ CommitInsert(r) \/ CommitRole(r) \/ CommitDelete(r) \/ Rollback(r)

Tenancy ==
  \/ Onboard \/ RemoveTenant
  \/ \E t \in tokens : CreateTenant(t)
  \/ \E c \in Tenants : ListUsers(c)

AccountsNext == Auth \/ (\E r \in Requests : Serve(r)) \/ Tenancy

AccountsSpec == AccountsInit /\ [][AccountsNext]_accountVars

-----------------------------------------------------------------------------
(* Properties.                                                             *)

\* A user of a tenant that was deleted while the user was being created.
Orphan(u) == HasRow(u) /\ user[u].role \in TenantRoles /\ user[u].tenant = Null

\* The platform's users and the tenants' users are never mixed, whatever
\* overlaps: an operator has no tenant, and everybody else has one, unless a
\* tenant has been deleted.
RowsKeepTheirSide ==
  \A u \in Ids : HasRow(u) =>
    IF user[u].role \in PlatformRoles THEN user[u].tenant = Null
    ELSE \/ user[u].tenant \in tenantRows
         \/ user[u].tenant = Null /\ tenantRows # 1..tenantsEver

\* The two ways in which routes find the caller's tenant agree as long as the
\* caller has a row: the claims alone, and the claims with the row read again.
\* A token for another tenant is an operator's.
ClaimsAgree ==
  \A t \in tokens : t.type = "access" /\ HasRow(t.sub) =>
    /\ t.acting # Null => Operator(t)
    /\ Effective(t) # Null => Claimed(t) = Effective(t)
    /\ Claimed(t) # Null => Effective(t) = Claimed(t) \/ Orphan(t.sub)
    /\ (t.role \in PlatformRoles) = Operator(t)

SidesNeverCross == RowsKeepTheirSide /\ ClaimsAgree

\* Whose authority a change of a row needs: a superadmin, a user of the same
\* tenant, or an operator.
MayChange(a, c) ==
  /\ HasRow(a)
  /\ \/ user[a].role \in PlatformRoles
     \/ (user[a].tenant = c /\ c # Null)
     \/ Orphan(a)

Committed(r) == transaction[r] # NoTransaction /\ transaction'[r] = NoTransaction /\ user' # user

\* A request that changes a user's row does so for a caller who still has a
\* row when it commits, and who is of the same tenant or of the platform,
\* though row, token and tenant were read before; only a caller whose tenant
\* has been deleted meanwhile may differ.
ChangesStayInside ==
  [][\A r \in Requests : Committed(r) =>
       \A u \in Ids : user'[u] # user[u] =>
         MayChange(transaction[r].actor,
                   IF HasRow(u) THEN user[u].tenant ELSE user'[u].tenant)]_accountVars
=============================================================================
