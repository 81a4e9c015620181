-------------------------------- MODULE Auth --------------------------------
(***************************************************************************)
(* Sign-in and authorisation: POST /api/auth/login and /refresh, the       *)
(* bearer check and require_role that every mutating route depends on, and *)
(* the audit rows a login writes.                                          *)
(*                                                                         *)
(* Tokens are stateless: the server keeps none of them, so any token ever  *)
(* handed out may be presented at any time, any number of times, and       *)
(* survives restarts.  Access tokens carry the role that was read when     *)
(* they were minted; nothing is read from users when one is presented.     *)
(*                                                                         *)
(* Rows of users change outside the application (an administrator at the   *)
(* database).  A login or refresh takes several awaits; MaxWait bounds the *)
(* time from its reading of the row to its minting of the tokens.          *)
(***************************************************************************)
EXTENDS Integers, FiniteSets

CONSTANTS
    User,           \* ids of users
    Role,           \* roles, RoleAdmin among them
    RoleAdmin,
    Allowed,        \* the allow-lists the routers give to require_role
    Request,        \* handlers that may be in progress at once
    AccessTtl,      \* access_token_ttl_minutes
    RefreshTtl,     \* refresh_token_ttl_days
    MaxWait,        \* longest time between reading the row and minting
    MaxTime, MaxLogins, MaxMints    \* bounds: the clock, the logins of a user,
                                    \* the tokens before the last request

NoRole == "no role"

ASSUME AuthAssumption ==
    /\ RoleAdmin \in Role /\ NoRole \notin Role
    /\ Allowed \subseteq SUBSET Role /\ IsFiniteSet(Request)
    /\ AccessTtl \in Nat /\ RefreshTtl \in Nat /\ MaxWait \in Nat
    /\ MaxTime \in Nat /\ MaxLogins \in Nat /\ MaxMints \in Nat

VARIABLES
    now,        \* the clock
    users,      \* the table: role and is_active of each user
    held,       \* when a user was last active in a role, -1 for never
    tokens,     \* every token handed out
    req,        \* the handlers in progress
    logins,     \* audit_log: rows auth.login of each user
    signed,     \* logins of each user answered with tokens
    served      \* the request let through by the last step

vars == <<now, users, held, tokens, req, logins, signed, served>>

-----------------------------------------------------------------------------
Idle == [op |-> "idle"]

\* create_access_token, create_refresh_token: a refresh token carries only its
\* subject.
AccessToken(u, role) == [sub |-> u, type |-> "access", role |-> role, exp |-> now + AccessTtl]
RefreshToken(u) == [sub |-> u, type |-> "refresh", role |-> NoRole, exp |-> now + RefreshTtl]

\* Mutant: the type claim is not compared.
DecodesAnyType(t, type) == t.exp > now

\* decode_token: what jwt.decode and the comparison of the type accept.
Decodes(t, type) == t.exp > now /\ t.type = type

\* require_role: admin is implicitly granted everything.
RoleSuffices(role, allowed) == role = RoleAdmin \/ role \in allowed

Reading(r) == req[r].op \in {"login", "refresh"}

-----------------------------------------------------------------------------
Init ==
    /\ now = 0
    /\ users \in [User -> [role : Role, active : {TRUE}]]
    /\ held = [u \in User |-> [r \in Role |-> IF users[u].role = r THEN 0 ELSE -1]]
    /\ tokens = {}
    /\ req = [r \in Request |-> Idle]
    /\ logins = [u \in User |-> 0]
    /\ signed = [u \in User |-> 0]
    /\ served = {}

\* login up to its first await: the row is read and the password compared.
\* An unknown address, a wrong password or an inactive row end in 401 (after
\* a best-effort auth.login_failed row), and nothing else changes.
LoginRead(r, u) ==
    /\ req[r] = Idle
    /\ logins[u] < MaxLogins /\ Cardinality(tokens) < MaxMints
    /\ users[u].active
    /\ req' = [req EXCEPT ![r] = [op |-> "login", sub |-> u, role |-> users[u].role,
                                  at |-> now, recorded |-> FALSE]]
    /\ served' = {}
    /\ UNCHANGED <<now, users, held, tokens, logins, signed>>

\* One more row auth.login.
record_in_tx(u) == logins' = [logins EXCEPT ![u] = @ + 1]

\* The transaction: last_login_at and the audit row, both or neither.
LoginCommit(r) ==
    /\ req[r].op = "login" /\ ~req[r].recorded
    /\ record_in_tx(req[r].sub)
    /\ req' = [req EXCEPT ![r].recorded = TRUE]
    /\ served' = {}
    /\ UNCHANGED <<now, users, held, tokens, signed>>

\* Mutant: the tokens are minted without waiting for the transaction.
MintUnrecorded(r) ==
    /\ req[r].op = "login"
    /\ tokens' = tokens \cup {AccessToken(req[r].sub, req[r].role), RefreshToken(req[r].sub)}
    /\ signed' = [signed EXCEPT ![req[r].sub] = @ + 1]
    /\ req' = [req EXCEPT ![r] = Idle]
    /\ served' = {}
    /\ UNCHANGED <<now, users, held, logins>>

\* The tokens are minted from the row that was read first.
LoginMint(r) ==
    /\ req[r].op = "login" /\ req[r].recorded
    /\ tokens' = tokens \cup {AccessToken(req[r].sub, req[r].role), RefreshToken(req[r].sub)}
    /\ signed' = [signed EXCEPT ![req[r].sub] = @ + 1]
    /\ req' = [req EXCEPT ![r] = Idle]
    /\ served' = {}
    /\ UNCHANGED <<now, users, held, logins>>

\* refresh: the token is decoded, then the row is awaited.
RefreshDecode(r, t) ==
    /\ req[r] = Idle
    /\ Cardinality(tokens) < MaxMints
    /\ Decodes(t, "refresh")
    /\ req' = [req EXCEPT ![r] = [op |-> "decoded", sub |-> t.sub]]
    /\ served' = {}
    /\ UNCHANGED <<now, users, held, tokens, logins, signed>>

\* Mutant: is_active is not looked at.
RefreshReadAny(r) ==
    /\ req[r].op = "decoded"
    /\ req' = [req EXCEPT ![r] = [op |-> "refresh", sub |-> req[r].sub,
                                  role |-> users[req[r].sub].role, at |-> now]]
    /\ served' = {}
    /\ UNCHANGED <<now, users, held, tokens, logins, signed>>

\* Role and is_active are read again: 401 when the user is no longer active.
RefreshRead(r) ==
    LET row == users[req[r].sub] IN
    /\ req[r].op = "decoded"
    /\ req' = [req EXCEPT ![r] =
                  IF row.active
                  THEN [op |-> "refresh", sub |-> req[r].sub, role |-> row.role, at |-> now]
                  ELSE Idle]
    /\ served' = {}
    /\ UNCHANGED <<now, users, held, tokens, logins, signed>>

\* The old refresh token stays good: there is no rotation.
RefreshMint(r) ==
    /\ req[r].op = "refresh"
    /\ tokens' = tokens \cup {AccessToken(req[r].sub, req[r].role), RefreshToken(req[r].sub)}
    /\ req' = [req EXCEPT ![r] = Idle]
    /\ served' = {}
    /\ UNCHANGED <<now, users, held, logins, signed>>

\* The database fails, the client disconnects or the process restarts: a
\* handler ends where it is, and a commit it made stays.
Abandon(r) ==
    /\ req[r] # Idle
    /\ req' = [req EXCEPT ![r] = Idle]
    /\ served' = {}
    /\ UNCHANGED <<now, users, held, tokens, logins, signed>>

\* A mutating route: get_current_user and require_role, from the token alone.
Serve(t, allowed) ==
    /\ Decodes(t, "access")
    /\ RoleSuffices(t.role, allowed)
    /\ served' = {[sub |-> t.sub, role |-> t.role, allowed |-> allowed, at |-> now]}
    /\ UNCHANGED <<now, users, held, tokens, req, logins, signed>>

\* GET /api/auth/me: get_current_user alone.
Me(t) ==
    /\ Decodes(t, "access")
    /\ served' = {[sub |-> t.sub, role |-> t.role, allowed |-> Role, at |-> now]}
    /\ UNCHANGED <<now, users, held, tokens, req, logins, signed>>

\* Outside the application: a role is changed, a user is (de)activated.
SetUser(u, role, active) ==
    /\ [role |-> role, active |-> active] # users[u]
    /\ users' = [users EXCEPT ![u] = [role |-> role, active |-> active]]
    /\ held' = IF active THEN [held EXCEPT ![u][role] = now] ELSE held
    /\ served' = {}
    /\ UNCHANGED <<now, tokens, req, logins, signed>>

Tick ==
    /\ now < MaxTime
    /\ \A r \in Request : Reading(r) => now < req[r].at + MaxWait
    /\ now' = now + 1
    /\ held' = [u \in User |-> [r \in Role |->
                  IF users[u].active /\ users[u].role = r THEN now + 1 ELSE held[u][r]]]
    /\ served' = {}
    /\ UNCHANGED <<users, tokens, req, logins, signed>>

Next ==
    \/ \E r \in Request : \/ \E u \in User : LoginRead(r, u)
                          \/ LoginCommit(r) \/ LoginMint(r)
                          \/ \E t \in tokens : RefreshDecode(r, t)
                          \/ RefreshRead(r) \/ RefreshMint(r) \/ Abandon(r)
    \/ \E t \in tokens, allowed \in Allowed : Serve(t, allowed)
    \/ \E t \in tokens : Me(t)
    \/ \E u \in User, role \in Role, active \in BOOLEAN : SetUser(u, role, active)
    \/ Tick

Spec == Init /\ [][Next]_vars

-----------------------------------------------------------------------------
Token == [sub : User, type : {"access", "refresh"}, role : Role \cup {NoRole}, exp : Int]
Handler ==
    {Idle} \cup [op : {"decoded"}, sub : User]
    \cup [op : {"login"}, sub : User, role : Role, at : Int, recorded : BOOLEAN]
    \cup [op : {"refresh"}, sub : User, role : Role, at : Int]

\* Types; no request is ever let through without a role.
TypeOK ==
    /\ now \in 0..MaxTime
    /\ users \in [User -> [role : Role, active : BOOLEAN]]
    /\ held \in [User -> [Role -> -1..now]]
    /\ tokens \subseteq Token
    /\ req \in [Request -> Handler]
    /\ logins \in [User -> Nat] /\ signed \in [User -> Nat]
    /\ served \subseteq [sub : User, role : Role, allowed : SUBSET Role, at : Int]

\* How long a change of role or a deactivation can go unnoticed: whoever is
\* let through was active in the role claimed less than one access lifetime
\* and one login before, however many refreshes the session has been through
\* and however the change fell between the steps of a login.
AuthorityIsRecent ==
    \A s \in served :
        /\ RoleSuffices(s.role, s.allowed)
        /\ s.at < held[s.sub][s.role] + MaxWait + AccessTtl

\* "a successful response always has both side-effects committed" (the comment
\* above the transaction): every login that answered with tokens has its row in
\* the audit log.  The docstring of the router calls the row best-effort and
\* says it never blocks the answer; in the code that is so of auth.login_failed
\* only, and a login whose row cannot be written is refused.
LoginIsOnRecord == \A u \in User : signed[u] <= logins[u]
=============================================================================
