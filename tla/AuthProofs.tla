----------------------------- MODULE AuthProofs -----------------------------
(***************************************************************************)
(* Proofs about Auth, for any users, roles, handlers and lifetimes.        *)
(***************************************************************************)
EXTENDS Auth, FiniteSetTheorems, TLAPS

-----------------------------------------------------------------------------
\* Whoever is active holds the role of the row now.
HeldNow == \A u \in User : users[u].active => held[u][users[u].role] = now

\* What a handler read was held when it read it, less than MaxWait ago.
ReadRecently ==
    \A r \in Request : Reading(r) =>
        /\ req[r].at <= held[req[r].sub][req[r].role]
        /\ now <= req[r].at + MaxWait

\* An access token expires within a login and a lifetime of the time its role
\* was held.
TokenIsRecent ==
    \A t \in tokens : t.type = "access" =>
        /\ t.role \in Role
        /\ t.exp <= held[t.sub][t.role] + MaxWait + AccessTtl

AuthInv == TypeOK /\ HeldNow /\ ReadRecently /\ TokenIsRecent /\ AuthorityIsRecent

\* The logins that have committed and not yet answered.
Recorded(u) == {r \in Request : req[r].op = "login" /\ req[r].sub = u /\ req[r].recorded}

\* They have a row of their own each, beside those that answered.
RecordInv == \A u \in User : signed[u] + Cardinality(Recorded(u)) <= logins[u]

-----------------------------------------------------------------------------
\* The shapes of handlers, by what they are doing.
LEMMA HandlerShape ==
    ASSUME NEW h \in Handler
    PROVE  /\ h.op \in {"idle", "decoded", "login", "refresh"}
           /\ h.op # "idle" => h.sub \in User
           /\ h.op \in {"login", "refresh"} => h.role \in Role /\ h.at \in Int
           /\ h.op = "login" => h.recorded \in BOOLEAN
           /\ h.op = "idle" => h = Idle
  BY DEF Handler, Idle

\* held only grows, and holds what it held.
LEMMA HeldGrows ==
    ASSUME TypeOK, HeldNow, [Next]_vars, NEW u \in User, NEW r \in Role
    PROVE  held[u][r] \in Int /\ held'[u][r] \in Int /\ held[u][r] <= held'[u][r]
<1>1. held[u][r] \in -1..now /\ now \in Int
  BY DEF TypeOK
<1>2. CASE \E v \in User, role \in Role, active \in BOOLEAN : SetUser(v, role, active)
  <2>1. PICK v \in User, role \in Role, active \in BOOLEAN : SetUser(v, role, active)
    BY <1>2
  <2> QED
    BY <1>1, <2>1 DEF SetUser, TypeOK
<1>3. CASE Tick
  BY <1>1, <1>3 DEF Tick, TypeOK
<1>4. CASE UNCHANGED held
  BY <1>1, <1>4
<1> QED
  BY <1>2, <1>3, <1>4 DEF Next, vars, LoginRead, LoginCommit, LoginMint, RefreshDecode,
     RefreshRead, RefreshMint, Abandon, Serve, Me

-----------------------------------------------------------------------------
\* Type correctness is inductive: no step leaves the types, whatever tokens are
\* presented.
LEMMA TypeStep ==
    ASSUME TypeOK, TokenIsRecent, [Next]_vars
    PROVE  TypeOK'
<1> USE AuthAssumption
<1>1. ASSUME NEW r \in Request, NEW u \in User, LoginRead(r, u) PROVE TypeOK'
  BY <1>1 DEF TypeOK, LoginRead, Handler
<1>2. ASSUME NEW r \in Request, LoginCommit(r) PROVE TypeOK'
  <2>1. req[r] \in [op : {"login"}, sub : User, role : Role, at : Int, recorded : BOOLEAN]
    BY <1>2 DEF TypeOK, LoginCommit, record_in_tx, Handler, Idle
  <2>2. [req[r] EXCEPT !.recorded = TRUE] \in Handler
    BY <2>1 DEF Handler
  <2>3. req' \in [Request -> Handler]
    BY <1>2, <2>2 DEF TypeOK, LoginCommit, record_in_tx
  <2>4. logins' \in [User -> Nat]
    BY <1>2, <2>1 DEF TypeOK, LoginCommit, record_in_tx
  <2> QED
    BY <1>2, <2>3, <2>4 DEF TypeOK, LoginCommit, record_in_tx
<1>3. ASSUME NEW r \in Request, LoginMint(r) PROVE TypeOK'
  <2>1. req[r] \in Handler /\ req[r].sub \in User /\ req[r].role \in Role
    BY <1>3, HandlerShape DEF TypeOK, LoginMint
  <2>2. tokens' \subseteq Token
    BY <1>3, <2>1 DEF TypeOK, LoginMint, AccessToken, RefreshToken, Token
  <2>3. req' \in [Request -> Handler]
    BY <1>3 DEF TypeOK, LoginMint, Handler
  <2>4. signed' \in [User -> Nat]
    BY <1>3, <2>1 DEF TypeOK, LoginMint
  <2> QED
    BY <1>3, <2>2, <2>3, <2>4 DEF TypeOK, LoginMint
<1>4. ASSUME NEW r \in Request, NEW t \in tokens, RefreshDecode(r, t) PROVE TypeOK'
  <2>1. t.sub \in User
    BY DEF TypeOK, Token
  <2> QED
    BY <1>4, <2>1 DEF TypeOK, RefreshDecode, Handler
<1>5. ASSUME NEW r \in Request, RefreshRead(r) PROVE TypeOK'
  <2>1. req[r] \in Handler /\ req[r].sub \in User
    BY <1>5, HandlerShape DEF TypeOK, RefreshRead
  <2>2. users[req[r].sub].role \in Role /\ now \in Int
    BY <2>1 DEF TypeOK
  <2>3. req' \in [Request -> Handler]
    BY <1>5, <2>1, <2>2 DEF TypeOK, RefreshRead, Handler
  <2> QED
    BY <1>5, <2>3 DEF TypeOK, RefreshRead
<1>6. ASSUME NEW r \in Request, RefreshMint(r) PROVE TypeOK'
  <2>1. req[r] \in Handler /\ req[r].sub \in User /\ req[r].role \in Role
    BY <1>6, HandlerShape DEF TypeOK, RefreshMint
  <2>2. tokens' \subseteq Token
    BY <1>6, <2>1 DEF TypeOK, RefreshMint, AccessToken, RefreshToken, Token
  <2>3. req' \in [Request -> Handler]
    BY <1>6 DEF TypeOK, RefreshMint, Handler
  <2> QED
    BY <1>6, <2>2, <2>3 DEF TypeOK, RefreshMint
<1>7. ASSUME NEW r \in Request, Abandon(r) PROVE TypeOK'
  BY <1>7 DEF TypeOK, Abandon, Handler
<1>8. ASSUME NEW t \in tokens, NEW allowed \in Allowed, Serve(t, allowed) PROVE TypeOK'
  <2>1. t.sub \in User /\ t.role \in Role
    BY <1>8 DEF TypeOK, Token, TokenIsRecent, Serve, Decodes
  <2> QED
    BY <1>8, <2>1 DEF TypeOK, Serve
<1>9. ASSUME NEW t \in tokens, Me(t) PROVE TypeOK'
  <2>1. t.sub \in User /\ t.role \in Role
    BY <1>9 DEF TypeOK, Token, TokenIsRecent, Me, Decodes
  <2> QED
    BY <1>9, <2>1 DEF TypeOK, Me
<1>10. ASSUME NEW u \in User, NEW role \in Role, NEW active \in BOOLEAN, SetUser(u, role, active)
       PROVE TypeOK'
  <2>1. held' \in [User -> [Role -> -1..now]]
    BY <1>10 DEF TypeOK, SetUser
  <2>2. users' \in [User -> [role : Role, active : BOOLEAN]]
    BY <1>10 DEF TypeOK, SetUser
  <2> QED
    BY <1>10, <2>1, <2>2 DEF TypeOK, SetUser
<1>11. CASE Tick
  <2>1. now' \in 0..MaxTime /\ now' = now + 1 /\ now \in Int
    BY <1>11 DEF TypeOK, Tick
  <2>2. held' \in [User -> [Role -> -1..now']]
    BY <1>11, <2>1 DEF TypeOK, Tick
  <2> QED
    BY <1>11, <2>1, <2>2 DEF TypeOK, Tick
<1>12. CASE UNCHANGED vars
  BY <1>12 DEF TypeOK, vars
<1> QED
  BY <1>1, <1>2, <1>3, <1>4, <1>5, <1>6, <1>7, <1>8, <1>9, <1>10, <1>11, <1>12 DEF Next

-----------------------------------------------------------------------------
\* A row that is active holds its role at the current time after every step.
LEMMA HeldNowStep ==
    ASSUME TypeOK, HeldNow, [Next]_vars
    PROVE  HeldNow'
<1>1. CASE \E u \in User, role \in Role, active \in BOOLEAN : SetUser(u, role, active)
  <2>1. PICK u \in User, role \in Role, active \in BOOLEAN : SetUser(u, role, active)
    BY <1>1
  <2>2. SUFFICES ASSUME NEW v \in User, users'[v].active
                 PROVE  held'[v][users'[v].role] = now'
    BY DEF HeldNow
  <2>3. CASE v = u
    BY <2>1, <2>2, <2>3 DEF SetUser, TypeOK
  <2>4. CASE v # u
    BY <2>1, <2>2, <2>4 DEF SetUser, TypeOK, HeldNow
  <2> QED
    BY <2>3, <2>4
<1>2. CASE Tick
  BY <1>2 DEF Tick, TypeOK, HeldNow
<1>3. CASE UNCHANGED <<now, users, held>>
  BY <1>3 DEF HeldNow
<1> QED
  BY <1>1, <1>2, <1>3 DEF Next, vars, LoginRead, LoginCommit, LoginMint, RefreshDecode,
     RefreshRead, RefreshMint, Abandon, Serve, Me

\* Between its reading and its minting a handler keeps what it read, and time
\* passes at most MaxWait.
LEMMA ReadRecentlyStep ==
    ASSUME TypeOK, TypeOK', HeldNow, ReadRecently, [Next]_vars
    PROVE  ReadRecently'
<1> SUFFICES ASSUME NEW r \in Request, Reading(r)'
             PROVE  /\ req'[r].at <= held'[req'[r].sub][req'[r].role]
                    /\ now' <= req'[r].at + MaxWait
  BY DEF ReadRecently
<1> USE AuthAssumption
<1>1. req[r] \in Handler /\ req'[r] \in Handler /\ now \in Int /\ now' \in Int
  BY DEF TypeOK
<1>2. /\ req'[r].sub \in User /\ req'[r].role \in Role /\ req'[r].at \in Int
      /\ Reading(r) => req[r].sub \in User /\ req[r].role \in Role /\ req[r].at \in Int
  BY <1>1, HandlerShape DEF Reading
<1>3. CASE /\ Reading(r) /\ now' = now
           /\ req'[r].sub = req[r].sub /\ req'[r].role = req[r].role /\ req'[r].at = req[r].at
  <2>1. held[req[r].sub][req[r].role] <= held'[req[r].sub][req[r].role]
        /\ held[req[r].sub][req[r].role] \in Int /\ held'[req[r].sub][req[r].role] \in Int
    BY <1>2, <1>3, HeldGrows
  <2> QED
    BY <1>2, <1>3, <2>1 DEF ReadRecently
<1>4. CASE Tick
  <2>1. Reading(r) /\ req' = req /\ now' = now + 1 /\ now < req[r].at + MaxWait
    BY <1>4 DEF Tick, Reading
  <2>2. held[req[r].sub][req[r].role] <= held'[req[r].sub][req[r].role]
        /\ held[req[r].sub][req[r].role] \in Int /\ held'[req[r].sub][req[r].role] \in Int
    BY <1>2, <2>1, HeldGrows
  <2> QED
    BY <1>1, <1>2, <2>1, <2>2 DEF ReadRecently
<1>5. CASE \E u \in User : LoginRead(r, u)
  <2>1. PICK u \in User : LoginRead(r, u)
    BY <1>5
  <2>2. req'[r].sub = u /\ req'[r].role = users[u].role /\ req'[r].at = now
        /\ held' = held /\ now' = now
    BY <2>1 DEF LoginRead, TypeOK
  <2> QED
    BY <1>1, <2>1, <2>2 DEF LoginRead, HeldNow
<1>6. CASE RefreshRead(r)
  <2>1. /\ req'[r] = IF users[req[r].sub].active
                     THEN [op |-> "refresh", sub |-> req[r].sub,
                           role |-> users[req[r].sub].role, at |-> now]
                     ELSE Idle
        /\ held' = held /\ now' = now
    BY <1>6 DEF RefreshRead, TypeOK
  <2>2. users[req[r].sub].active
    BY <2>1 DEF Reading, Idle
  <2>3. req'[r].sub = req[r].sub /\ req'[r].role = users[req[r].sub].role /\ req'[r].at = now
    BY <2>1, <2>2
  <2>4. req[r].sub \in User
    BY <1>2, <2>3
  <2> QED
    BY <1>1, <2>1, <2>2, <2>3, <2>4 DEF HeldNow
<1>7. CASE LoginCommit(r)
  <2>1. /\ req'[r] = [req[r] EXCEPT !.recorded = TRUE] /\ now' = now /\ Reading(r)
    BY <1>7 DEF LoginCommit, record_in_tx, TypeOK, Reading
  <2>2. req[r] \in [op : {"login"}, sub : User, role : Role, at : Int, recorded : BOOLEAN]
    BY <1>1, <1>7 DEF LoginCommit, record_in_tx, Handler, Idle
  <2>3. req'[r].sub = req[r].sub /\ req'[r].role = req[r].role /\ req'[r].at = req[r].at
    BY <2>1, <2>2
  <2> QED
    BY <1>3, <2>1, <2>3
<1>8. CASE req'[r] \in {Idle, req[r]} /\ now' = now
  BY <1>3, <1>8 DEF Reading, Idle
<1>9. CASE \E t \in tokens : RefreshDecode(r, t)
  <2>1. req'[r].op = "decoded"
    BY <1>9 DEF RefreshDecode, TypeOK
  <2> QED
    BY <2>1 DEF Reading
<1>10. ASSUME NEW s \in Request, s # r,
              \/ \E u \in User : LoginRead(s, u)
              \/ LoginCommit(s) \/ LoginMint(s)
              \/ \E t \in tokens : RefreshDecode(s, t)
              \/ RefreshRead(s) \/ RefreshMint(s) \/ Abandon(s)
       PROVE  req'[r] = req[r] /\ now' = now
  BY <1>10 DEF TypeOK, LoginRead, LoginCommit, LoginMint, RefreshDecode, RefreshRead,
     RefreshMint, Abandon
<1>11. CASE LoginMint(r) \/ RefreshMint(r) \/ Abandon(r)
  <2>1. req'[r] = Idle /\ now' = now
    BY <1>11 DEF TypeOK, LoginMint, RefreshMint, Abandon
  <2> QED
    BY <1>8, <2>1
<1>12. CASE UNCHANGED <<req, now>>
  BY <1>8, <1>12
<1>13. ASSUME NEW s \in Request,
              \/ \E u \in User : LoginRead(s, u)
              \/ LoginCommit(s) \/ LoginMint(s)
              \/ \E t \in tokens : RefreshDecode(s, t)
              \/ RefreshRead(s) \/ RefreshMint(s) \/ Abandon(s)
       PROVE  /\ req'[r].at <= held'[req'[r].sub][req'[r].role]
              /\ now' <= req'[r].at + MaxWait
  <2>1. CASE s = r
    BY <1>5, <1>6, <1>7, <1>9, <1>11, <1>13, <2>1
  <2>2. CASE s # r
    BY <1>8, <1>10, <1>13, <2>2
  <2> QED
    BY <2>1, <2>2
<1>14. CASE \/ \E t \in tokens, allowed \in Allowed : Serve(t, allowed)
            \/ \E t \in tokens : Me(t)
            \/ \E u \in User, role \in Role, active \in BOOLEAN : SetUser(u, role, active)
            \/ UNCHANGED vars
  <2>1. UNCHANGED <<req, now>>
    BY <1>14 DEF Serve, Me, SetUser, vars
  <2> QED
    BY <1>12, <2>1
<1> QED
  BY <1>4, <1>13, <1>14 DEF Next

\* A token is minted from what was read, and held never shrinks after.
LEMMA TokenStep ==
    ASSUME TypeOK, TypeOK', HeldNow, ReadRecently, TokenIsRecent, [Next]_vars
    PROVE  TokenIsRecent'
<1> SUFFICES ASSUME NEW t \in tokens', t.type = "access"
             PROVE  /\ t.role \in Role
                    /\ t.exp <= held'[t.sub][t.role] + MaxWait + AccessTtl
  BY DEF TokenIsRecent
<1> USE AuthAssumption
<1>1. t.sub \in User /\ t.exp \in Int
  BY DEF TypeOK, Token
<1>2. CASE t \in tokens
  <2>1. t.role \in Role /\ t.exp <= held[t.sub][t.role] + MaxWait + AccessTtl
    BY <1>2 DEF TokenIsRecent
  <2>2. held[t.sub][t.role] \in Int /\ held'[t.sub][t.role] \in Int
        /\ held[t.sub][t.role] <= held'[t.sub][t.role]
    BY <1>1, <2>1, HeldGrows
  <2> QED
    BY <1>1, <2>1, <2>2
<1>3. ASSUME NEW r \in Request, Reading(r), t = AccessToken(req[r].sub, req[r].role)
      PROVE  /\ t.role \in Role
             /\ t.exp <= held'[t.sub][t.role] + MaxWait + AccessTtl
  <2>1. req[r] \in Handler /\ now \in Int
    BY DEF TypeOK
  <2>2. req[r].sub \in User /\ req[r].role \in Role /\ req[r].at \in Int
    BY <1>3, <2>1, HandlerShape DEF Reading
  <2>3. held[req[r].sub][req[r].role] \in Int /\ held'[req[r].sub][req[r].role] \in Int
        /\ held[req[r].sub][req[r].role] <= held'[req[r].sub][req[r].role]
    BY <2>2, HeldGrows
  <2>4. t.sub = req[r].sub /\ t.role = req[r].role /\ t.exp = now + AccessTtl
    BY <1>3 DEF AccessToken
  <2>5. req[r].at <= held[req[r].sub][req[r].role] /\ now <= req[r].at + MaxWait
    BY <1>3 DEF ReadRecently
  <2> QED
    BY <2>1, <2>2, <2>3, <2>4, <2>5
<1>4. ASSUME NEW r \in Request, LoginMint(r) \/ RefreshMint(r)
      PROVE  t \in tokens \/ (Reading(r) /\ t = AccessToken(req[r].sub, req[r].role))
  BY <1>4 DEF LoginMint, RefreshMint, RefreshToken, Reading
<1>5. CASE tokens' = tokens
  BY <1>2, <1>5
<1>6. CASE \E r \in Request : LoginMint(r) \/ RefreshMint(r)
  BY <1>2, <1>3, <1>4, <1>6
<1> QED
  BY <1>5, <1>6 DEF Next, vars, LoginRead, LoginCommit, RefreshDecode, RefreshRead, Abandon,
     Serve, Me, SetUser, Tick

\* Whoever is let through presents a token that has not expired.
LEMMA ServedStep ==
    ASSUME TypeOK, TypeOK', TokenIsRecent, AuthorityIsRecent, [Next]_vars
    PROVE  AuthorityIsRecent'
<1> USE AuthAssumption
<1>1. CASE served' = {}
  BY <1>1 DEF AuthorityIsRecent
<1>2. ASSUME NEW t \in tokens, Decodes(t, "access")
      PROVE  t.role \in Role /\ now < held[t.sub][t.role] + MaxWait + AccessTtl
  <2>1. t.role \in Role /\ t.exp <= held[t.sub][t.role] + MaxWait + AccessTtl /\ now < t.exp
    BY <1>2 DEF TokenIsRecent, Decodes
  <2>2. t.sub \in User /\ t.exp \in Int /\ now \in Int /\ held[t.sub][t.role] \in Int
    BY <2>1 DEF TypeOK, Token
  <2> QED
    BY <2>1, <2>2
<1>3. ASSUME NEW t \in tokens, NEW allowed \in Allowed, Serve(t, allowed)
      PROVE  AuthorityIsRecent'
  BY <1>2, <1>3 DEF Serve, AuthorityIsRecent
<1>4. ASSUME NEW t \in tokens, Me(t) PROVE AuthorityIsRecent'
  BY <1>2, <1>4 DEF Me, AuthorityIsRecent, RoleSuffices
<1>5. CASE UNCHANGED vars
  BY <1>5 DEF vars, AuthorityIsRecent
<1> QED
  BY <1>1, <1>3, <1>4, <1>5 DEF Next, LoginRead, LoginCommit, LoginMint, RefreshDecode,
     RefreshRead, RefreshMint, Abandon, SetUser, Tick

-----------------------------------------------------------------------------
\* The inductive invariant holds in every behaviour.
LEMMA InductiveAuth == Spec => []AuthInv
<1>1. Init => AuthInv
  <2> SUFFICES ASSUME Init PROVE AuthInv
    OBVIOUS
  <2>a. users \in [User -> [role : Role, active : BOOLEAN]]
    BY DEF Init
  <2>b. held \in [User -> [Role -> -1..now]]
    BY DEF Init
  <2>c. req \in [Request -> Handler]
    BY DEF Init, Handler
  <2>1. TypeOK
    BY AuthAssumption, <2>a, <2>b, <2>c DEF Init, TypeOK
  <2>2. HeldNow /\ TokenIsRecent /\ AuthorityIsRecent
    BY DEF Init, HeldNow, TokenIsRecent, AuthorityIsRecent
  <2>3. ReadRecently
    BY DEF Init, ReadRecently, Reading, Idle
  <2> QED
    BY <2>1, <2>2, <2>3 DEF AuthInv
<1>2. AuthInv /\ [Next]_vars => AuthInv'
  BY TypeStep, HeldNowStep, ReadRecentlyStep, TokenStep, ServedStep DEF AuthInv
<1> QED
  BY <1>1, <1>2, PTL DEF Spec

\* Every behaviour keeps the types: in particular no request is let through
\* without a role, so a refresh token is never taken for an access token.
THEOREM TypeTheorem == Spec => []TypeOK
<1>1. AuthInv => TypeOK
  BY DEF AuthInv
<1> QED
  BY <1>1, InductiveAuth, PTL

\* Every behaviour keeps AuthorityIsRecent: a change of role or a deactivation
\* goes unnoticed for less than MaxWait + AccessTtl.
THEOREM AuthorityTheorem == Spec => []AuthorityIsRecent
<1>1. AuthInv => AuthorityIsRecent
  BY DEF AuthInv
<1> QED
  BY <1>1, InductiveAuth, PTL

-----------------------------------------------------------------------------
\* Every behaviour keeps LoginIsOnRecord: whatever fails or is abandoned, no
\* login answers with tokens before its row is in the audit log.
THEOREM RecordTheorem == Spec => []LoginIsOnRecord
<1> USE AuthAssumption
<1>1. Init => RecordInv
  <2> SUFFICES ASSUME Init, NEW u \in User PROVE signed[u] + Cardinality(Recorded(u)) <= logins[u]
    BY DEF RecordInv
  <2>1. Recorded(u) = {}
    BY DEF Init, Recorded, Idle
  <2> QED
    BY <2>1, FS_EmptySet DEF Init
<1>2. ASSUME AuthInv, AuthInv', RecordInv, [Next]_vars PROVE RecordInv'
  <2> SUFFICES ASSUME NEW u \in User
               PROVE  signed'[u] + Cardinality(Recorded(u)') <= logins'[u]
    BY DEF RecordInv
  <2>0. /\ TypeOK /\ TypeOK'
        /\ signed[u] \in Nat /\ logins[u] \in Nat /\ signed'[u] \in Nat /\ logins'[u] \in Nat
    BY <1>2 DEF AuthInv, TypeOK
  <2>1. signed[u] + Cardinality(Recorded(u)) <= logins[u]
    BY <1>2 DEF RecordInv
  <2>2. IsFiniteSet(Recorded(u)) /\ IsFiniteSet(Recorded(u)')
    BY FS_Subset DEF Recorded
  <2>3. Cardinality(Recorded(u)) \in Nat /\ Cardinality(Recorded(u)') \in Nat
    BY <2>2, FS_CardinalityType
  <2>4. CASE Recorded(u)' \subseteq Recorded(u) /\ UNCHANGED <<logins, signed>>
    <3>1. Cardinality(Recorded(u)') <= Cardinality(Recorded(u))
      BY <2>2, <2>4, FS_Subset
    <3> QED
      BY <2>0, <2>1, <2>3, <2>4, <3>1
  <2>5. ASSUME NEW r \in Request, LoginCommit(r) PROVE signed'[u] + Cardinality(Recorded(u)') <= logins'[u]
    <3>0. req[r] \in [op : {"login"}, sub : User, role : Role, at : Int, recorded : BOOLEAN]
      BY <2>0, <2>5 DEF TypeOK, LoginCommit, record_in_tx, Handler, Idle
    <3>1. /\ req' = [req EXCEPT ![r] = [req[r] EXCEPT !.recorded = TRUE]]
          /\ signed' = signed
          /\ logins' = [logins EXCEPT ![req[r].sub] = logins[req[r].sub] + 1]
      BY <2>0, <2>5 DEF LoginCommit, record_in_tx, TypeOK
    <3>2. CASE req[r].sub = u
      <4>1. Recorded(u)' = Recorded(u) \cup {r} /\ r \notin Recorded(u)
        BY <2>0, <2>5, <3>0, <3>1, <3>2 DEF Recorded, TypeOK, LoginCommit, record_in_tx
      <4>2. Cardinality(Recorded(u)') = Cardinality(Recorded(u)) + 1
        BY <2>2, <4>1, FS_AddElement
      <4>3. logins'[u] = logins[u] + 1
        BY <2>0, <3>1, <3>2 DEF TypeOK
      <4> QED
        BY <2>0, <2>1, <2>3, <3>1, <4>2, <4>3
    <3>3. CASE req[r].sub # u
      <4>1. Recorded(u)' \subseteq Recorded(u)
        BY <2>0, <3>0, <3>1, <3>3 DEF Recorded, TypeOK
      <4>2. logins'[u] = logins[u]
        BY <2>0, <3>0, <3>1, <3>3 DEF TypeOK
      <4>3. Cardinality(Recorded(u)') <= Cardinality(Recorded(u))
        BY <2>2, <4>1, FS_Subset
      <4> QED
        BY <2>0, <2>1, <2>3, <3>1, <4>2, <4>3
    <3> QED
      BY <3>2, <3>3
  <2>6. ASSUME NEW r \in Request, LoginMint(r) PROVE signed'[u] + Cardinality(Recorded(u)') <= logins'[u]
    <3>0. req[r].sub \in User
      BY <2>0, <2>6, HandlerShape DEF TypeOK, LoginMint
    <3>1. /\ req' = [req EXCEPT ![r] = Idle] /\ logins' = logins
          /\ signed' = [signed EXCEPT ![req[r].sub] = signed[req[r].sub] + 1]
      BY <2>6 DEF LoginMint
    <3>2. CASE req[r].sub = u
      <4>1. Recorded(u)' = Recorded(u) \ {r} /\ r \in Recorded(u)
        BY <2>0, <2>6, <3>1, <3>2 DEF Recorded, TypeOK, Idle, LoginMint
      <4>2. Cardinality(Recorded(u)') = Cardinality(Recorded(u)) - 1
        BY <2>2, <4>1, FS_RemoveElement
      <4>3. signed'[u] = signed[u] + 1
        BY <2>0, <3>1, <3>2 DEF TypeOK
      <4> QED
        BY <2>0, <2>1, <2>3, <3>1, <4>2, <4>3
    <3>3. CASE req[r].sub # u
      <4>1. Recorded(u)' \subseteq Recorded(u)
        BY <2>0, <3>1 DEF Recorded, TypeOK, Idle
      <4>2. signed'[u] = signed[u]
        BY <2>0, <3>1, <3>3 DEF TypeOK
      <4>3. Cardinality(Recorded(u)') <= Cardinality(Recorded(u))
        BY <2>2, <4>1, FS_Subset
      <4> QED
        BY <2>0, <2>1, <2>3, <3>1, <4>2, <4>3
    <3> QED
      BY <3>2, <3>3
  <2>7. ASSUME NEW r \in Request,
               \/ \E v \in User : LoginRead(r, v)
               \/ \E t \in tokens : RefreshDecode(r, t)
               \/ RefreshRead(r) \/ RefreshMint(r) \/ Abandon(r)
        PROVE  Recorded(u)' \subseteq Recorded(u) /\ UNCHANGED <<logins, signed>>
    BY <2>0, <2>7 DEF Recorded, TypeOK, Idle, LoginRead, RefreshDecode, RefreshRead,
       RefreshMint, Abandon
  <2>8. CASE UNCHANGED <<req, logins, signed>>
    BY <2>4, <2>8 DEF Recorded
  <2>9. CASE \/ \E t \in tokens, allowed \in Allowed : Serve(t, allowed)
             \/ \E t \in tokens : Me(t)
             \/ \E v \in User, role \in Role, active \in BOOLEAN : SetUser(v, role, active)
             \/ Tick \/ UNCHANGED vars
    <3>1. UNCHANGED <<req, logins, signed>>
      BY <2>9 DEF Serve, Me, SetUser, Tick, vars
    <3> QED
      BY <2>8, <3>1
  <2> QED
    BY <1>2, <2>4, <2>5, <2>6, <2>7, <2>9 DEF Next
<1>3. RecordInv /\ AuthInv => LoginIsOnRecord
  <2> SUFFICES ASSUME RecordInv, AuthInv, NEW u \in User PROVE signed[u] <= logins[u]
    BY DEF LoginIsOnRecord
  <2>1. IsFiniteSet(Recorded(u))
    BY FS_Subset DEF Recorded
  <2>2. Cardinality(Recorded(u)) \in Nat
    BY <2>1, FS_CardinalityType
  <2> QED
    BY <2>2 DEF RecordInv, AuthInv, TypeOK
<1> QED
  BY <1>1, <1>2, <1>3, InductiveAuth, PTL DEF Spec
=============================================================================
