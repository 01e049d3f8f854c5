-------------------------- MODULE AdminAuthProofs --------------------------
(***************************************************************************)
(* Proofs about AdminAuth, for any number of users, keys, sessions, service *)
(* accounts and requests served at the same time.                          *)
(***************************************************************************)
EXTENDS AdminAuth, FiniteSetTheorems, TLAPS

Steps == {"idle", "verify", "spend", "reset", "role", "session", "jwks",
          "loadChange", "change", "loadRemove", "revoke", "remove",
          "insertKey", "revokeKey", "newAccount", "revokeOf", "deleteAccount", "provider"}

RoleOrNone == Roles \cup {NoRole}

Key == [live : BOOLEAN, role : RoleOrNone, member : Users \cup {Nobody},
        account : Accounts \cup {Nobody}, late : BOOLEAN]

Locals == [user : Users \cup {Nobody}, role : RoleOrNone,
           target : Users \cup Accounts \cup Keys \cup {Nobody}, new : RoleOrNone,
           count : Nat, doomed : SUBSET (Keys \cup Sessions)]

\* What the tables, the requests and the history are made of.
TypeOK ==
    /\ members \in [Users -> RoleOrNone]
    /\ sess \in [Sessions -> Users \cup {Nobody}]
    /\ keys \in [Keys -> Key]
    /\ accounts \subseteq Accounts
    /\ failed \in [Users -> Nat]
    /\ locked \in [Users -> BOOLEAN]
    /\ code \in [Users -> BOOLEAN]
    /\ at \in [Workers -> Steps]
    /\ call \in [Workers -> Locals]
    /\ calls \in Nat
    /\ faults \in Nat
    /\ spent \in [Users -> Nat]
    /\ wrong \in [Users -> Nat]
    /\ gone \subseteq Users \cup Accounts

\* What a request holds at each of its steps, as the steps before left it.
Carries(w) ==
    /\ at[w] \in SigninSteps => call[w].user \in Users
    /\ at[w] \in {"loadChange", "change"} => call[w].target \in Users /\ call[w].new \in Roles
    /\ at[w] \in {"loadRemove", "revoke", "remove"} => call[w].target \in Users
    /\ at[w] = "insertKey" => call[w].target \in Users \cup Accounts \cup {Nobody}
    /\ at[w] \in {"revokeOf", "deleteAccount"} => call[w].target \in Accounts

RequestInv == TypeOK /\ \A w \in Workers : Carries(w)

-----------------------------------------------------------------------------
(* Facts about requests                                                    *)

\* The locals of an idle worker are locals.
LEMMA NoCallType == NoCall \in Locals
BY DEF NoCall, Locals, RoleOrNone

\* A request begins or goes on with locals of its own and leaves the others alone.
LEMMA Others ==
  ASSUME RequestInv, NEW w \in Workers, NEW s \in Steps, NEW l \in Locals,
         at' = [at EXCEPT ![w] = s], call' = [call EXCEPT ![w] = l]
  PROVE  /\ at' \in [Workers -> Steps] /\ call' \in [Workers -> Locals]
         /\ at'[w] = s /\ call'[w] = l
         /\ \A v \in Workers \ {w} : at'[v] = at[v] /\ call'[v] = call[v] /\ Carries(v)'
BY DEF RequestInv, TypeOK, Carries

\* A request that ends leaves its worker idle and the other requests alone.
LEMMA EndRequest ==
  ASSUME RequestInv, NEW w \in Workers, End(w)
  PROVE  /\ at' \in [Workers -> Steps] /\ call' \in [Workers -> Locals]
         /\ at'[w] = "idle" /\ call'[w] = NoCall
         /\ \A v \in Workers \ {w} : at'[v] = at[v] /\ call'[v] = call[v]
         /\ \A v \in Workers : Carries(v)'
<1>1. /\ at' = [at EXCEPT ![w] = "idle"] /\ call' = [call EXCEPT ![w] = NoCall]
      /\ "idle" \in Steps /\ NoCall \in Locals
  BY NoCallType DEF End, Goto, Steps
<1>2. Carries(w)'
  BY <1>1, Others DEF Carries, SigninSteps
<1> QED
  BY <1>1, <1>2, Others

\* A request goes on with the locals it has.
LEMMA GoesOn ==
  ASSUME RequestInv, NEW w \in Workers, NEW s \in Steps, Goto(w, s), call' = call,
         s \in SigninSteps => at[w] \in SigninSteps,
         s = "change" => at[w] = "loadChange",
         s = "revoke" => at[w] = "loadRemove",
         s \notin {"loadChange", "loadRemove", "remove", "insertKey", "revokeOf", "deleteAccount"}
  PROVE  /\ at' \in [Workers -> Steps] /\ call' \in [Workers -> Locals]
         /\ at'[w] = s
         /\ \A v \in Workers \ {w} : at'[v] = at[v]
         /\ \A v \in Workers : Carries(v)'
BY DEF Goto, RequestInv, TypeOK, Carries

\* A request that begins takes an idle worker.
LEMMA BeginRequest ==
  ASSUME RequestInv, NEW w \in Workers, NEW s \in Steps, NEW l \in Locals, Begin(w, s, l)
  PROVE  /\ at' \in [Workers -> Steps] /\ call' \in [Workers -> Locals]
         /\ at[w] = "idle" /\ at'[w] = s /\ call'[w] = l
         /\ calls' \in Nat
         /\ \A v \in Workers \ {w} : at'[v] = at[v] /\ call'[v] = call[v] /\ Carries(v)'
<1>1. at' = [at EXCEPT ![w] = s] /\ call' = [call EXCEPT ![w] = l] /\ at[w] = "idle"
  BY DEF Begin, Goto
<1>2. calls' \in Nat
  BY DEF Begin, RequestInv, TypeOK
<1> QED
  BY <1>1, <1>2, Others

\* A credential has a role or none.
LEMMA RoleOfType ==
  ASSUME RequestInv, NEW c \in Credentials
  PROVE  RoleOf(c) \in RoleOrNone
<1>1. \/ c[1] = "cookie" /\ c[2] \in Sessions
      \/ c[1] = "key" /\ c[2] \in Keys
  BY DEF Credentials
<1> QED
  BY <1>1 DEF RequestInv, TypeOK, RoleOf, CookieRole, KeyRole, Key, RoleOrNone

\* What a request that the middleware lets through has read when it begins.
AuthorizedSteps == {"loadChange", "loadRemove", "insertKey", "revokeKey", "newAccount", "revokeOf", "provider"}

\* A request that passes its role check runs its first statement next, with
\* the role it was admitted with, and has changed no row yet.
LEMMA AuthorizedRequest ==
  ASSUME RequestInv, NEW w \in Workers, NEW c \in Credentials, NEW least,
         NEW s \in AuthorizedSteps,
         NEW target \in Users \cup Accounts \cup Keys \cup {Nobody}, NEW new \in RoleOrNone,
         s = "loadChange" => target \in Users /\ new \in Roles,
         s = "loadRemove" => target \in Users,
         s = "insertKey" => target \in Users \cup Accounts \cup {Nobody},
         s = "revokeOf" => target \in Accounts,
         Authorized(w, c, least, s, target, new)
  PROVE  /\ RequestInv'
         /\ at'[w] = s /\ call'[w].target = target /\ call'[w].new = new
         /\ s \in {"loadChange", "loadRemove"} => call'[w].role = RoleOf(c)
         /\ \A v \in Workers \ {w} : at'[v] = at[v] /\ call'[v] = call[v]
         /\ ownerActed' = (ownerActed \/ RoleOf(c) = Owner)
         /\ UNCHANGED <<rows, counters, spent, wrong, crossed, stale, gone>>
<1> DEFINE r == IF s \in {"loadChange", "loadRemove"} THEN RoleOf(c) ELSE NoRole
           l == [NoCall EXCEPT !.target = target, !.new = new, !.role = r]
<1>1. r \in RoleOrNone
  BY RoleOfType DEF RoleOrNone
<1>2. Begin(w, s, l) /\ s \in Steps
  BY DEF Authorized, AuthorizedSteps, Steps
<1> HIDE DEF r
<1>3. l \in Locals /\ l.target = target /\ l.new = new /\ l.role = r
  BY <1>1 DEF Locals, NoCall, RoleOrNone
<1> HIDE DEF l
<1>4. Carries(w)'
  BY <1>2, <1>3, BeginRequest DEF Carries, SigninSteps, AuthorizedSteps
<1>5. \A v \in Workers : Carries(v)'
  BY <1>2, <1>3, <1>4, BeginRequest
<1>6. ownerActed' = (ownerActed \/ RoleOf(c) = Owner)
  BY DEF Authorized
<1>7. UNCHANGED <<rows, counters, faults, spent, wrong, crossed, stale, gone>>
  BY DEF Authorized
<1>8. TypeOK'
  BY <1>2, <1>3, <1>7, BeginRequest DEF RequestInv, TypeOK, rows, counters
<1> QED
  BY <1>2, <1>3, <1>5, <1>6, <1>7, <1>8, BeginRequest DEF RequestInv, r

\* The same of every request behind a credential: a key is never asked for
\* above the role of whoever asks.
LEMMA RequestBegins ==
  ASSUME RequestInv, NEW w \in Workers, NEW c \in Credentials, Request(w, c)
  PROVE  /\ RequestInv'
         /\ at'[w] \in AuthorizedSteps
         /\ at'[w] \in {"loadChange", "loadRemove"} => call'[w].role = RoleOf(c)
         /\ at'[w] = "insertKey" => call'[w].new <= RoleOf(c)
         /\ \A v \in Workers \ {w} : at'[v] = at[v] /\ call'[v] = call[v]
         /\ ownerActed' = (ownerActed \/ RoleOf(c) = Owner)
         /\ UNCHANGED <<rows, counters, spent, wrong, crossed, stale, gone>>
<1> DEFINE Goal == /\ RequestInv'
                   /\ at'[w] \in AuthorizedSteps
                   /\ at'[w] \in {"loadChange", "loadRemove"} => call'[w].role = RoleOf(c)
                   /\ at'[w] = "insertKey" => call'[w].new <= RoleOf(c)
                   /\ \A v \in Workers \ {w} : at'[v] = at[v] /\ call'[v] = call[v]
                   /\ ownerActed' = (ownerActed \/ RoleOf(c) = Owner)
                   /\ UNCHANGED <<rows, counters, spent, wrong, crossed, stale, gone>>
<1>1. ASSUME NEW least, NEW s \in AuthorizedSteps,
             NEW target \in Users \cup Accounts \cup Keys \cup {Nobody}, NEW new \in RoleOrNone,
             s = "loadChange" => target \in Users /\ new \in Roles,
             s = "loadRemove" => target \in Users,
             s = "insertKey" => target \in Users \cup Accounts \cup {Nobody} /\ new <= RoleOf(c),
             s = "revokeOf" => target \in Accounts,
             Authorized(w, c, least, s, target, new)
      PROVE  Goal
  <2>1. /\ RequestInv'
        /\ at'[w] = s /\ call'[w].target = target /\ call'[w].new = new
        /\ s \in {"loadChange", "loadRemove"} => call'[w].role = RoleOf(c)
        /\ \A v \in Workers \ {w} : at'[v] = at[v] /\ call'[v] = call[v]
        /\ ownerActed' = (ownerActed \/ RoleOf(c) = Owner)
        /\ UNCHANGED <<rows, counters, spent, wrong, crossed, stale, gone>>
    BY <1>1, AuthorizedRequest
  <2> QED
    BY <1>1, <2>1
<1> HIDE DEF Goal
<1>2. NoRole \in RoleOrNone /\ Roles \subseteq RoleOrNone
  BY DEF RoleOrNone
<1>3. ASSUME NEW u \in Users, RemoveMember(w, c, u)
      PROVE  Goal
  BY <1>1, <1>2, <1>3 DEF RemoveMember, AuthorizedSteps
<1>4. ASSUME NEW u \in Users, NEW role \in Roles, ChangeMemberRole(w, c, u, role)
      PROVE  Goal
  BY <1>1, <1>2, <1>4 DEF ChangeMemberRole, AuthorizedSteps
<1>5. ASSUME NEW role \in Roles, NEW o \in Users \cup Accounts \cup {Nobody}, CreateAdminKey(w, c, role, o)
      PROVE  Goal
  BY <1>1, <1>2, <1>5 DEF CreateAdminKey, AuthorizedSteps
<1>6. ASSUME NEW k \in Keys, RevokeAdminKey(w, c, k)
      PROVE  Goal
  BY <1>1, <1>2, <1>6 DEF RevokeAdminKey, AuthorizedSteps
<1>7. ASSUME NEW a \in Accounts, DeleteServiceAccount(w, c, a)
      PROVE  Goal
  BY <1>1, <1>2, <1>7 DEF DeleteServiceAccount, AuthorizedSteps
<1>8. ASSUME CreateServiceAccount(w, c) \/ ChangeProvider(w, c)
      PROVE  Goal
  <2>1. \/ Authorized(w, c, Admin, "newAccount", Nobody, NoRole)
        \/ Authorized(w, c, Owner, "provider", Nobody, NoRole)
    BY <1>8 DEF CreateServiceAccount, ChangeProvider
  <2>2. {"newAccount", "provider"} \subseteq AuthorizedSteps
    BY DEF AuthorizedSteps
  <2> QED
    BY <1>1, <1>2, <2>1, <2>2, SMT
<1>9. Goal
  BY <1>3, <1>4, <1>5, <1>6, <1>7, <1>8 DEF Request
<1> QED
  BY <1>9 DEF Goal

\* What a sign-in has read when it begins.
LEMMA SigninBegins ==
  ASSUME RequestInv, NEW w \in Workers, NEW u \in Users, Signin(w, u)
  PROVE  /\ RequestInv'
         /\ at'[w] = "verify" /\ call'[w].user = u /\ call'[w].count = failed[u]
         /\ \A v \in Workers \ {w} : at'[v] = at[v] /\ call'[v] = call[v]
<1> DEFINE l == [NoCall EXCEPT !.user = u, !.count = failed[u]]
<1>1. l \in Locals /\ l.user = u /\ l.count = failed[u] /\ "verify" \in Steps
  BY DEF Locals, NoCall, RoleOrNone, RequestInv, TypeOK, Steps
<1>2. Begin(w, "verify", l)
  BY DEF Signin
<1> HIDE DEF l
<1>3. Carries(w)'
  BY <1>1, <1>2, BeginRequest DEF Carries
<1>4. \A v \in Workers : Carries(v)'
  BY <1>1, <1>2, <1>3, BeginRequest
<1> QED
  BY <1>1, <1>2, <1>4, BeginRequest DEF Signin, RequestInv, TypeOK, rows, counters

\* An OIDC callback waits for the JWKS next.
LEMMA OidcBegins ==
  ASSUME RequestInv, NEW w \in Workers, OidcCallback(w)
  PROVE  /\ RequestInv'
         /\ at'[w] = "jwks"
         /\ \A v \in Workers \ {w} : at'[v] = at[v] /\ call'[v] = call[v]
<1>1. Begin(w, "jwks", NoCall) /\ "jwks" \in Steps
  BY DEF OidcCallback, Steps
<1>2. Carries(w)'
  BY <1>1, NoCallType, BeginRequest DEF Carries, SigninSteps
<1>3. \A v \in Workers : Carries(v)'
  BY <1>1, <1>2, NoCallType, BeginRequest
<1> QED
  BY <1>1, <1>3, NoCallType, BeginRequest DEF OidcCallback, RequestInv, TypeOK, rows, counters, history

-----------------------------------------------------------------------------
(* Every request carries what its next statement needs: RequestInv is      *)
(* inductive.                                                              *)

\* Initially no request runs.
LEMMA RequestInit == Init => RequestInv
<1> SUFFICES ASSUME Init PROVE RequestInv
  OBVIOUS
<1>1. NoKey \in Key /\ "idle" \in Steps
  BY DEF NoKey, Key, RoleOrNone, Steps
<1>2. InitFailed \in [Users -> Nat]
  BY FailedAssumption DEF LockAfter
<1>3. TypeOK
  BY <1>1, <1>2, NoCallType, MembersAssumption, SessionsAssumption, AccountsAssumption
     DEF Init, TypeOK, RoleOrNone
<1>4. \A w \in Workers : Carries(w)
  BY DEF Init, Carries, SigninSteps
<1> QED
  BY <1>3, <1>4 DEF RequestInv

\* Revoking keys keeps their type.
LEMMA RevokedType ==
  ASSUME RequestInv, NEW doomed
  PROVE  /\ Revoked(doomed) \in [Keys -> Key]
         /\ \A k \in Keys : /\ Revoked(doomed)[k].role = keys[k].role
                            /\ Revoked(doomed)[k].member = keys[k].member
                            /\ Revoked(doomed)[k].account = keys[k].account
                            /\ Revoked(doomed)[k].late = keys[k].late
                            /\ Revoked(doomed)[k].live <=> keys[k].live /\ k \notin doomed
BY DEF Revoked, RequestInv, TypeOK, Key

\* Every statement of a request leaves a request that fits its next one.
LEMMA RequestSteps ==
  ASSUME RequestInv, NEW w \in Workers, Step(w)
  PROVE  RequestInv'
<1> USE DEF RequestInv
<1>1. CASE WrongPassword(w) \/ OidcRefused(w) \/ InsertKeyRefused(w) \/ ApplyProvider(w)
  BY <1>1, EndRequest
     DEF WrongPassword, OidcRefused, InsertKeyRefused, ApplyProvider, TypeOK, rows, counters, history
<1>2. CASE FindRecoveryCode(w)
  <2>1. CASE End(w)
    BY <1>2, <2>1, EndRequest DEF FindRecoveryCode, TypeOK, rows, counters, history
  <2>2. CASE ~End(w)
    <3>1. Goto(w, "spend") /\ call' = call /\ at[w] = "verify" /\ "spend" \in Steps
      BY <1>2, <2>2 DEF FindRecoveryCode, Steps
    <3> QED
      BY <1>2, <3>1, GoesOn DEF FindRecoveryCode, TypeOK, rows, counters, history, SigninSteps
  <2> QED
    BY <2>1, <2>2
<1>3. CASE SpendRecoveryCode(w)
  <2>1. Goto(w, "reset") /\ call' = call /\ at[w] = "spend" /\ "reset" \in Steps
    BY <1>3 DEF SpendRecoveryCode, Steps
  <2>2. call[w].user \in Users
    BY <2>1 DEF Carries, SigninSteps
  <2>3. code' \in [Users -> BOOLEAN] /\ spent' \in [Users -> Nat]
    BY <1>3, <2>2 DEF SpendRecoveryCode, TypeOK
  <2> QED
    BY <1>3, <2>1, <2>3, GoesOn DEF SpendRecoveryCode, TypeOK, rows, SigninSteps
<1>4. CASE RightTotp(w)
  <2>1. Goto(w, "reset") /\ call' = call /\ at[w] = "verify" /\ "reset" \in Steps
    BY <1>4 DEF RightTotp, Steps
  <2> QED
    BY <1>4, <2>1, GoesOn DEF RightTotp, TypeOK, rows, counters, history, SigninSteps
<1>5. CASE WrongTotp(w)
  <2>1. call[w].user \in Users /\ call[w].count \in Nat
    BY <1>5 DEF WrongTotp, Carries, SigninSteps, TypeOK, Locals
  <2>2. failed' \in [Users -> Nat] /\ wrong' \in [Users -> Nat] /\ faults' \in Nat
    BY <1>5, <2>1 DEF WrongTotp, TypeOK
  <2>3. locked' \in [Users -> BOOLEAN]
    <3>1. (locked[call[w].user] \/ LocksNow(call[w].count + 1)) \in BOOLEAN
      BY <2>1 DEF LocksNow, LockAfter
    <3> QED
      BY <1>5, <2>1, <3>1 DEF WrongTotp, TypeOK
  <2> QED
    BY <1>5, <2>2, <2>3, EndRequest DEF WrongTotp, TypeOK, rows
<1>6. CASE ResetCounters(w)
  <2>1. Goto(w, "role") /\ call' = call /\ at[w] = "reset" /\ "role" \in Steps
    BY <1>6 DEF ResetCounters, Steps
  <2>2. call[w].user \in Users
    BY <2>1 DEF Carries, SigninSteps
  <2>3. failed' \in [Users -> Nat] /\ wrong' \in [Users -> Nat] /\ locked' \in [Users -> BOOLEAN]
    BY <1>6, <2>2 DEF ResetCounters, TypeOK
  <2> QED
    BY <1>6, <2>1, <2>3, GoesOn DEF ResetCounters, TypeOK, rows, SigninSteps
<1>7. CASE ReadRole(w)
  <2>1. CASE End(w)
    BY <1>7, <2>1, EndRequest DEF ReadRole, TypeOK, rows, counters, history
  <2>2. CASE ~End(w)
    <3>1. Goto(w, "session") /\ call' = call /\ at[w] = "role" /\ "session" \in Steps
      BY <1>7, <2>2 DEF ReadRole, Steps
    <3> QED
      BY <1>7, <3>1, GoesOn DEF ReadRole, TypeOK, rows, counters, history, SigninSteps
  <2> QED
    BY <2>1, <2>2
<1>8. CASE InsertSession(w)
  <2>1. call[w].user \in Users
    BY <1>8 DEF InsertSession, Carries, SigninSteps
  <2>2. sess' \in [Sessions -> Users \cup {Nobody}]
    BY <1>8, <2>1 DEF InsertSession, TypeOK
  <2> QED
    BY <1>8, <2>2, EndRequest DEF InsertSession, TypeOK, counters, history
<1>9. CASE PickMember(w)
  <2>1. PICK u \in Users : call' = [call EXCEPT ![w].user = u]
    BY <1>9 DEF PickMember
  <2> DEFINE l == [call[w] EXCEPT !.user = u]
  <2>2. call[w] \in Locals
    BY DEF TypeOK
  <2>3. l \in Locals /\ l.user = u /\ "session" \in Steps
    BY <2>2 DEF Locals, Steps
  <2>4. at' = [at EXCEPT ![w] = "session"] /\ call' = [call EXCEPT ![w] = l]
    BY <1>9, <2>1 DEF PickMember, Goto
  <2> HIDE DEF l
  <2>5. \A v \in Workers : Carries(v)'
    BY <2>3, <2>4, Others DEF Carries, SigninSteps
  <2> QED
    BY <1>9, <2>3, <2>4, <2>5, Others DEF PickMember, TypeOK, rows, counters, history
<1>10. CASE CheckChange(w)
  <2>1. CASE End(w)
    BY <1>10, <2>1, EndRequest DEF CheckChange, TypeOK, rows, counters, history
  <2>2. CASE ~End(w)
    <3>1. Goto(w, "change") /\ call' = call /\ at[w] = "loadChange" /\ "change" \in Steps
      BY <1>10, <2>2 DEF CheckChange, Steps
    <3> QED
      BY <1>10, <3>1, GoesOn DEF CheckChange, TypeOK, rows, counters, history, SigninSteps
  <2> QED
    BY <2>1, <2>2
<1>11. CASE ApplyChange(w)
  <2>1. call[w].target \in Users /\ call[w].new \in Roles
    BY <1>11 DEF ApplyChange, Carries
  <2>2. members' \in [Users -> RoleOrNone]
    BY <1>11, <2>1 DEF ApplyChange, TypeOK, RoleOrNone
  <2> QED
    BY <1>11, <2>2, EndRequest DEF ApplyChange, TypeOK, counters
<1>12. CASE CheckRemove(w)
  <2>1. CASE End(w)
    BY <1>12, <2>1, EndRequest DEF CheckRemove, TypeOK, rows, counters, history
  <2>2. CASE ~End(w)
    <3>1. Goto(w, "revoke") /\ call' = call /\ at[w] = "loadRemove" /\ "revoke" \in Steps
      BY <1>12, <2>2 DEF CheckRemove, Steps
    <3> QED
      BY <1>12, <3>1, GoesOn DEF CheckRemove, TypeOK, rows, counters, history, SigninSteps
  <2> QED
    BY <2>1, <2>2
<1>13. ASSUME NEW d \in SUBSET (Keys \cup Sessions), NEW s \in {"remove", "deleteAccount"},
              s = "remove" => at[w] = "revoke", s = "deleteAccount" => at[w] = "revokeOf",
              call' = [call EXCEPT ![w].doomed = d], Goto(w, s)
       PROVE  /\ at' \in [Workers -> Steps] /\ call' \in [Workers -> Locals]
              /\ \A v \in Workers : Carries(v)'
  <2> DEFINE l == [call[w] EXCEPT !.doomed = d]
  <2>1. call[w] \in Locals
    BY DEF TypeOK
  <2>2. l \in Locals /\ l.target = call[w].target /\ s \in Steps
    BY <2>1, <1>13 DEF Locals, Steps
  <2>3. at' = [at EXCEPT ![w] = s] /\ call' = [call EXCEPT ![w] = l]
    BY <1>13 DEF Goto
  <2> HIDE DEF l
  <2>4. \A v \in Workers : Carries(v)'
    BY <1>13, <2>2, <2>3, Others DEF Carries, SigninSteps
  <2> QED
    BY <2>2, <2>3, <2>4, Others
<1>14. CASE RevokeOfMember(w)
  BY <1>13, <1>14 DEF RevokeOfMember, TypeOK, rows, counters, history
<1>15. CASE CommitRemove(w)
  <2>1. call[w].target \in Users
    BY <1>15 DEF CommitRemove, Carries
  <2>2. /\ members' \in [Users -> RoleOrNone] /\ gone' \subseteq Users \cup Accounts
        /\ sess' \in [Sessions -> Users \cup {Nobody}]
    BY <1>15, <2>1 DEF CommitRemove, TypeOK, RoleOrNone
  <2>3. keys' \in [Keys -> Key]
    BY <1>15, RevokedType DEF CommitRemove
  <2> QED
    BY <1>15, <2>2, <2>3, EndRequest DEF CommitRemove, TypeOK, counters
<1>16. CASE InsertKey(w)
  <2>1. PICK k \in Keys : keys' = [keys EXCEPT ![k] =
              [live |-> TRUE, role |-> call[w].new,
               member |-> IF call[w].target \in Users THEN call[w].target ELSE Nobody,
               account |-> IF call[w].target \in Accounts THEN call[w].target ELSE Nobody,
               late |-> Late(call[w].target)]]
    BY <1>16 DEF InsertKey
  <2>2. Late(call[w].target) \in BOOLEAN
    BY DEF Late
  <2>3. call[w].new \in RoleOrNone
    BY DEF TypeOK, Locals
  <2>4. keys' \in [Keys -> Key]
    BY <2>1, <2>2, <2>3 DEF TypeOK, Key
  <2> QED
    BY <1>16, <2>4, EndRequest DEF InsertKey, TypeOK, counters, history
<1>17. CASE ApplyRevoke(w)
  BY <1>17, RevokedType, EndRequest DEF ApplyRevoke, TypeOK, counters, history
<1>18. CASE InsertServiceAccount(w)
  BY <1>18, EndRequest DEF InsertServiceAccount, TypeOK, counters, history
<1>19. CASE RevokeOfAccount(w)
  BY <1>13, <1>19 DEF RevokeOfAccount, TypeOK, rows, counters, history
<1>20. CASE CommitDelete(w)
  BY <1>20, RevokedType, EndRequest DEF CommitDelete, TypeOK, Carries, counters
<1> QED
  BY <1>1, <1>2, <1>3, <1>4, <1>5, <1>6, <1>7, <1>8, <1>9, <1>10, <1>11, <1>12, <1>14, <1>15, <1>16,
     <1>17, <1>18, <1>19, <1>20 DEF Step

\* The same of every step.
LEMMA RequestStep == RequestInv /\ [Next]_vars => RequestInv'
<1> SUFFICES ASSUME RequestInv, [Next]_vars PROVE RequestInv'
  OBVIOUS
<1>1. ASSUME UNCHANGED <<at, call>> PROVE \A v \in Workers : Carries(v)'
  BY <1>1 DEF RequestInv, Carries
<1>2. ASSUME NEW s \in Sessions, Signout(s) PROVE RequestInv'
  BY <1>1, <1>2 DEF Signout, RequestInv, TypeOK, counters, history
<1>3. ASSUME NEW u \in Users, LockEnds(u) PROVE RequestInv'
  BY <1>1, <1>3 DEF LockEnds, RequestInv, TypeOK, rows
<1>4. CASE UNCHANGED vars
  BY <1>1, <1>4 DEF vars, RequestInv, TypeOK, rows, counters, history
<1> QED
  BY <1>2, <1>3, <1>4, RequestBegins, SigninBegins, OidcBegins, RequestSteps DEF Next

\* Requests are sound in every behaviour.
LEMMA RequestsSound == Spec => []RequestInv
BY RequestInit, RequestStep, PTL DEF Spec

-----------------------------------------------------------------------------
(* What steps leave alone                                                  *)

\* A step of a request is no step of another one.
LEMMA OneRequestAtATime ==
  ASSUME RequestInv, NEW w \in Workers, Step(w), NEW v \in Workers, v # w
  PROVE  at'[v] = at[v] /\ call'[v] = call[v]
BY DEF Step, WrongPassword, FindRecoveryCode, SpendRecoveryCode, RightTotp, WrongTotp, ResetCounters,
       ReadRole, InsertSession, OidcRefused, PickMember, CheckChange, ApplyChange, CheckRemove,
       RevokeOfMember, CommitRemove, InsertKey, InsertKeyRefused, ApplyRevoke, InsertServiceAccount,
       RevokeOfAccount, CommitDelete, ApplyProvider, End, Goto, RequestInv, TypeOK

\* The clocks and sign-outs are no step of any request.
Elsewhere ==
    \/ \E s \in Sessions : Signout(s)
    \/ \E u \in Users : LockEnds(u)
    \/ UNCHANGED vars

\* A sign-out and the end of a lock touch no request.
LEMMA NoRequestElsewhere ==
  ASSUME Elsewhere
  PROVE  UNCHANGED <<members, keys, accounts, at, call, code, failed, spent, crossed,
                     stale, ownerActed, gone>>
BY DEF Elsewhere, Signout, LockEnds, vars, rows, counters, history

\* Beginning a request writes no row and no counter.
LEMMA BeginsWriteNothing ==
  ASSUME RequestInv, NEW w \in Workers,
         \/ \E u \in Users : Signin(w, u)
         \/ OidcCallback(w)
         \/ \E c \in Credentials : Request(w, c)
  PROVE  /\ UNCHANGED <<rows, counters, spent, wrong, stale, gone>>
         /\ at'[w] \in AuthorizedSteps \cup {"verify", "jwks"}
         /\ \A v \in Workers \ {w} : at'[v] = at[v] /\ call'[v] = call[v]
<1>1. ASSUME NEW u \in Users, Signin(w, u)
      PROVE  /\ UNCHANGED <<rows, counters, spent, wrong, stale, gone>>
             /\ at'[w] \in AuthorizedSteps \cup {"verify", "jwks"}
             /\ \A v \in Workers \ {w} : at'[v] = at[v] /\ call'[v] = call[v]
  BY <1>1, SigninBegins DEF Signin
<1>2. CASE OidcCallback(w)
  BY <1>2, OidcBegins DEF OidcCallback, history
<1>3. ASSUME NEW c \in Credentials, Request(w, c)
      PROVE  /\ UNCHANGED <<rows, counters, spent, wrong, stale, gone>>
             /\ at'[w] \in AuthorizedSteps \cup {"verify", "jwks"}
             /\ \A v \in Workers \ {w} : at'[v] = at[v] /\ call'[v] = call[v]
  <2>1. /\ at'[w] \in AuthorizedSteps
        /\ \A v \in Workers \ {w} : at'[v] = at[v] /\ call'[v] = call[v]
        /\ UNCHANGED <<rows, counters, spent, wrong, crossed, stale, gone>>
    BY <1>3, RequestBegins
  <2> QED
    BY <2>1
<1> QED
  BY <1>1, <1>2, <1>3

Begins(w) ==
    \/ \E u \in Users : Signin(w, u)
    \/ OidcCallback(w)
    \/ \E c \in Credentials : Request(w, c)

\* Two steps write the members.
LEMMA MembersWritten ==
  ASSUME RequestInv, NEW w \in Workers, Step(w), ~ApplyChange(w), ~CommitRemove(w)
  PROVE  /\ UNCHANGED <<members, stale>>
         /\ at'[w] = "change" => CheckChange(w)
         /\ at'[w] = "revoke" => CheckRemove(w)
         /\ at'[w] = "remove" => RevokeOfMember(w)
BY DEF Step, WrongPassword, FindRecoveryCode, SpendRecoveryCode, RightTotp, WrongTotp, ResetCounters,
       ReadRole, InsertSession, OidcRefused, PickMember, CheckChange, CheckRemove,
       RevokeOfMember, InsertKey, InsertKeyRefused, ApplyRevoke, InsertServiceAccount,
       RevokeOfAccount, CommitDelete, ApplyProvider, End, Goto, RequestInv, TypeOK, rows, history

-----------------------------------------------------------------------------
(* The account keeps an owner                                              *)

\* The change that a request has checked against owners that are still the owners
\* leaves one of them.
Settled(w) ==
    at[w] \in Loaded /\ w \notin stale =>
       \/ Owners = {}
       \/ \E u \in Owners : u # call[w].target
       \/ at[w] = "change" /\ call[w].new = Owner

OwnerInv == \A w \in Workers : Settled(w)

\* More than one owner is an owner besides any given user.
LEMMA AnotherOwner ==
  ASSUME Cardinality(Owners) > 1, NEW u
  PROVE  Owners \ {u} # {}
<1> SUFFICES ASSUME Owners \subseteq {u} PROVE FALSE
  OBVIOUS
<1>1. Owners = {} \/ Owners = {u}
  OBVIOUS
<1>2. Cardinality(Owners) = 0 \/ Cardinality(Owners) = 1
  BY <1>1, FS_EmptySet, FS_Singleton
<1> QED
  BY <1>2

\* A check that passes counts the owners there are.
LEMMA ChecksCount ==
  ASSUME RequestInv, NEW w \in Workers
  PROVE  /\ at[w] = "loadChange" /\ MayChange(call[w].role, call[w].target, call[w].new) =>
              \/ Owners = {} \/ (\E u \in Owners : u # call[w].target) \/ call[w].new = Owner
         /\ at[w] = "loadRemove" /\ MayRemove(call[w].role, call[w].target) =>
              Owners = {} \/ \E u \in Owners : u # call[w].target
<1>1. at[w] \in {"loadChange", "loadRemove"} => call[w].target \in Users
  BY DEF RequestInv, Carries
<1>2. at[w] = "loadChange" => call[w].new \in Roles
  BY DEF RequestInv, Carries
<1>3. call[w].target \in Users /\ members[call[w].target] # Owner /\ Owners # {} =>
         \E u \in Owners : u # call[w].target
  BY DEF Owners
<1>4. Cardinality(Owners) > 1 => \E u \in Owners : u # call[w].target
  BY AnotherOwner
<1>5. at[w] = "loadChange" => call[w].new = Owner \/ call[w].new < Owner
  BY <1>2 DEF Roles, Viewer, Admin, Owner
<1> QED
  BY <1>1, <1>3, <1>4, <1>5 DEF MayChange, MayRemove, MayModifyOwner

\* A request whose owners are still the owners leaves one.
LEMMA ApplyLeavesOwner ==
  ASSUME RequestInv, NEW w \in Workers, ApplyChange(w) \/ CommitRemove(w), Settled(w), w \notin stale,
         Owners # {}
  PROVE  Owners' # {}
<1> DEFINE u == call[w].target
<1>1. u \in Users
  BY DEF ApplyChange, CommitRemove, RequestInv, Carries
<1>2. ASSUME NEW x \in Owners, x # u
      PROVE  x \in Owners'
  BY <1>1, <1>2 DEF ApplyChange, CommitRemove, Owners, RequestInv, TypeOK
<1>3. (\E x \in Owners : x # u) \/ (at[w] = "change" /\ call[w].new = Owner)
  BY DEF Settled, ApplyChange, CommitRemove, Loaded
<1>4. CASE at[w] = "change" /\ call[w].new = Owner /\ ~\E x \in Owners : x # u
  <2>1. u \in Owners /\ members[u] = Owner
    BY <1>4 DEF Owners
  <2>2. members'[u] = Owner
    BY <1>1, <1>4, <2>1 DEF ApplyChange, CommitRemove, RequestInv, TypeOK, NoRole, Owner
  <2> QED
    BY <1>1, <2>2 DEF Owners
<1> QED
  BY <1>2, <1>3, <1>4

\* Every step keeps that, the concurrent demotions and removals included.
LEMMA OwnerStep ==
  ASSUME RequestInv, OwnerInv, [Next]_vars
  PROVE  OwnerInv' /\ LastOwnerOvertaken
<1>0. \A v \in Workers : Settled(v)
  BY DEF OwnerInv
<1>1. ASSUME UNCHANGED <<members, stale>>, \A w \in Workers : Settled(w)'
      PROVE  OwnerInv' /\ LastOwnerOvertaken
  <2>1. Owners' = Owners
    BY <1>1 DEF Owners
  <2> QED
    BY <1>1, <2>1 DEF OwnerInv, LastOwnerOvertaken
<1>2. ASSUME NEW w \in Workers, at'[w] \notin Loaded, UNCHANGED <<members, stale>>,
             \A v \in Workers \ {w} : at'[v] = at[v] /\ call'[v] = call[v]
      PROVE  OwnerInv' /\ LastOwnerOvertaken
  <2>1. Owners' = Owners
    BY <1>2 DEF Owners
  <2>2. \A v \in Workers : Settled(v)'
    BY <1>0, <1>2, <2>1 DEF Settled
  <2> QED
    BY <1>1, <1>2, <2>2
<1>3. CASE Elsewhere
  <2>1. UNCHANGED <<members, stale, at, call>>
    BY <1>3, NoRequestElsewhere
  <2>2. Owners' = Owners
    BY <2>1 DEF Owners
  <2>3. \A v \in Workers : Settled(v)'
    BY <1>0, <2>1, <2>2 DEF Settled
  <2> QED
    BY <1>1, <2>1, <2>3
<1>4. ASSUME NEW w \in Workers, Begins(w)
      PROVE  OwnerInv' /\ LastOwnerOvertaken
  BY <1>2, <1>4, BeginsWriteNothing DEF Begins, AuthorizedSteps, rows, Loaded
<1>5. ASSUME NEW w \in Workers, CheckChange(w) \/ CheckRemove(w) \/ RevokeOfMember(w)
      PROVE  OwnerInv' /\ LastOwnerOvertaken
  <2>1. Step(w) /\ UNCHANGED <<members, stale>>
    BY <1>5 DEF Step, CheckChange, CheckRemove, RevokeOfMember, rows, history
  <2>2. Owners' = Owners
    BY <2>1 DEF Owners
  <2>3. ASSUME CheckChange(w), at'[w] = "change"
      PROVE  Settled(w)'
    <3>1. /\ at[w] = "loadChange" /\ MayChange(call[w].role, call[w].target, call[w].new) /\ call' = call
      BY <2>3 DEF CheckChange, End, Goto, RequestInv, TypeOK
    <3> QED
      BY <2>2, <2>3, <3>1, ChecksCount DEF Settled
  <2>4. ASSUME CheckRemove(w), at'[w] = "revoke"
      PROVE  Settled(w)'
    <3>1. /\ at[w] = "loadRemove" /\ MayRemove(call[w].role, call[w].target) /\ call' = call
      BY <2>4 DEF CheckRemove, End, Goto, RequestInv, TypeOK
    <3> QED
      BY <2>2, <2>4, <3>1, ChecksCount DEF Settled
  <2>5. ASSUME RevokeOfMember(w)
      PROVE  Settled(w)'
    <3>1. at[w] = "revoke" /\ at'[w] = "remove" /\ call'[w].target = call[w].target
      BY <2>5 DEF RevokeOfMember, Goto, RequestInv, TypeOK, Locals
    <3> QED
      BY <1>0, <2>1, <2>2, <3>1 DEF Settled, Loaded
  <2>6. ASSUME at'[w] \notin Loaded
      PROVE  Settled(w)'
    BY <2>6 DEF Settled
  <2>7. at'[w] \in Loaded => \/ (CheckChange(w) /\ at'[w] = "change")
                             \/ (CheckRemove(w) /\ at'[w] = "revoke")
                             \/ RevokeOfMember(w)
    <3>1. ~ApplyChange(w) /\ ~CommitRemove(w)
      BY <1>5 DEF CheckChange, CheckRemove, RevokeOfMember, ApplyChange, CommitRemove
    <3> QED
      BY <2>1, <3>1, MembersWritten DEF Loaded
  <2>8. Settled(w)'
    BY <2>3, <2>4, <2>5, <2>6, <2>7
  <2>9. \A v \in Workers \ {w} : Settled(v)'
    <3>1. \A v \in Workers \ {w} : at'[v] = at[v] /\ call'[v] = call[v]
      BY <2>1, OneRequestAtATime
    <3> QED
      BY <1>0, <2>1, <2>2, <3>1 DEF Settled
  <2> QED
    BY <1>1, <2>1, <2>8, <2>9
<1>6. ASSUME NEW w \in Workers, Step(w), ApplyChange(w) \/ CommitRemove(w)
      PROVE  OwnerInv' /\ LastOwnerOvertaken
  <2>1. at'[w] = "idle" /\ at[w] \in Loaded
    BY <1>6, EndRequest DEF ApplyChange, CommitRemove, Loaded
  <2>2. stale' = (IF Owners' = Owners THEN stale ELSE stale \cup {v \in Workers : at[v] \in Loaded}) \ {w}
    BY <1>6 DEF ApplyChange, CommitRemove, Overtakes
  <2>3. \A v \in Workers \ {w} : Settled(v)'
    <3>1. \A v \in Workers \ {w} : at'[v] = at[v] /\ call'[v] = call[v]
      BY <1>6, OneRequestAtATime
    <3>2. CASE Owners' = Owners
      BY <1>0, <2>2, <3>1, <3>2 DEF Settled
    <3>3. CASE Owners' # Owners
      BY <2>2, <3>1, <3>3 DEF Settled
    <3> QED
      BY <3>2, <3>3
  <2>4. Settled(w)'
    BY <2>1 DEF Settled, Loaded
  <2>5. LastOwnerOvertaken
    BY <1>0, <1>6, <2>1, ApplyLeavesOwner DEF LastOwnerOvertaken
  <2> QED
    BY <2>3, <2>4, <2>5 DEF OwnerInv
<1>7. ASSUME NEW w \in Workers, Step(w), ~CheckChange(w), ~CheckRemove(w), ~RevokeOfMember(w),
             ~ApplyChange(w), ~CommitRemove(w)
      PROVE  OwnerInv' /\ LastOwnerOvertaken
  BY <1>2, <1>7, MembersWritten, OneRequestAtATime DEF Loaded
<1> QED
  BY <1>3, <1>4, <1>5, <1>6, <1>7 DEF Next, Begins, Elsewhere

(* check_rbac counts the owners among the members it loaded: through any   *)
(* number of role changes and removals, at the same time or not, a request *)
(* takes the last owner only if the owners were changed by somebody else   *)
(* between its load and its write.                                         *)
THEOREM AnOwnerRemains == Spec => OwnerRemains
<1>1. Init => OwnerInv
  <2> SUFFICES ASSUME Init PROVE OwnerInv
    OBVIOUS
  <2>1. \A w \in Workers : at[w] = "idle"
    BY DEF Init
  <2> QED
    BY <2>1 DEF OwnerInv, Settled, Loaded
<1>2. RequestInv /\ OwnerInv /\ [Next]_vars => OwnerInv' /\ LastOwnerOvertaken
  BY OwnerStep
<1> QED
  BY <1>1, <1>2, RequestsSound, PTL DEF Spec, OwnerRemains

-----------------------------------------------------------------------------
(* Only owners make owners                                                 *)

\* Nothing that a request without an owner's role has got through so far can make
\* or take an owner: neither a key, nor a check that has passed.
Harmless(w) ==
    /\ at[w] \in {"loadChange", "loadRemove"} => call[w].role # Owner
    /\ at[w] = "insertKey" => call[w].new # Owner
    /\ at[w] = "change" => call[w].new # Owner
    /\ at[w] \in {"change", "revoke", "remove"} => members[call[w].target] # Owner

NoOwnerInv ==
    ownerActed \/ /\ \A u \in Users : members[u] = Owner <=> InitMembers[u] = Owner
                  /\ \A k \in Keys : keys[k].role # Owner
                  /\ \A w \in Workers : Harmless(w)

\* Only requests that the middleware has let through set the history variable.
LEMMA StepsActNot ==
  ASSUME NEW w \in Workers, Step(w)
  PROVE  UNCHANGED ownerActed
BY DEF Step, WrongPassword, FindRecoveryCode, SpendRecoveryCode, RightTotp, WrongTotp, ResetCounters,
       ReadRole, InsertSession, OidcRefused, PickMember, CheckChange, ApplyChange, CheckRemove,
       RevokeOfMember, CommitRemove, InsertKey, InsertKeyRefused, ApplyRevoke, InsertServiceAccount,
       RevokeOfAccount, CommitDelete, ApplyProvider, history

\* Four steps write the keys.
LEMMA KeysWritten ==
  ASSUME NEW w \in Workers, Step(w), ~InsertKey(w), ~ApplyRevoke(w), ~CommitRemove(w), ~CommitDelete(w)
  PROVE  UNCHANGED <<keys, gone>>
BY DEF Step, WrongPassword, FindRecoveryCode, SpendRecoveryCode, RightTotp, WrongTotp, ResetCounters,
       ReadRole, InsertSession, OidcRefused, PickMember, CheckChange, ApplyChange, CheckRemove,
       RevokeOfMember, InsertKeyRefused, InsertServiceAccount,
       RevokeOfAccount, ApplyProvider, history, rows

\* Every step keeps that no owner appears unless an owner acted.
LEMMA NoOwnerStep ==
  ASSUME RequestInv, NoOwnerInv, [Next]_vars
  PROVE  NoOwnerInv'
<1> USE DEF Viewer, Admin, Owner, NoRole
<1> SUFFICES ASSUME ~ownerActed'
             PROVE  /\ \A u \in Users : members'[u] = Owner <=> InitMembers[u] = Owner
                    /\ \A k \in Keys : keys'[k].role # Owner
                    /\ \A w \in Workers : Harmless(w)'
  BY DEF NoOwnerInv
<1>1. ~ownerActed
  <2>1. ASSUME NEW w \in Workers, NEW c \in Credentials, Request(w, c)
        PROVE  ~ownerActed
    BY <2>1, RequestBegins
  <2>2. ASSUME NEW w \in Workers, (\E u \in Users : Signin(w, u)) \/ OidcCallback(w)
        PROVE  ~ownerActed
    BY <2>2 DEF Signin, OidcCallback, history
  <2> QED
    BY <2>1, <2>2, StepsActNot, NoRequestElsewhere DEF Next, Elsewhere
<1>2. /\ \A u \in Users : members[u] = Owner <=> InitMembers[u] = Owner
      /\ \A k \in Keys : keys[k].role # Owner
      /\ \A w \in Workers : Harmless(w)
  BY <1>1 DEF NoOwnerInv
<1>3. ASSUME NEW w \in Workers, NEW c \in Credentials, Request(w, c)
      PROVE  UNCHANGED <<members, keys>> /\ \A v \in Workers : Harmless(v)'
  <2>1. /\ at'[w] \in AuthorizedSteps
        /\ at'[w] \in {"loadChange", "loadRemove"} => call'[w].role = RoleOf(c)
        /\ at'[w] = "insertKey" => call'[w].new <= RoleOf(c)
        /\ \A v \in Workers \ {w} : at'[v] = at[v] /\ call'[v] = call[v]
        /\ ownerActed' = (ownerActed \/ RoleOf(c) = Owner)
        /\ UNCHANGED rows
    BY <1>3, RequestBegins
  <2>2. RoleOf(c) \in {0, 1, 2}
    BY <2>1, RoleOfType DEF RoleOrNone, Roles
  <2> QED
    BY <1>2, <2>1, <2>2 DEF Harmless, AuthorizedSteps, rows
<1>4. ASSUME NEW w \in Workers, (\E u \in Users : Signin(w, u)) \/ OidcCallback(w)
      PROVE  UNCHANGED <<members, keys>> /\ \A v \in Workers : Harmless(v)'
  <2>1. /\ at'[w] \in {"verify", "jwks"}
        /\ \A v \in Workers \ {w} : at'[v] = at[v] /\ call'[v] = call[v]
    BY <1>4, SigninBegins, OidcBegins
  <2>2. UNCHANGED rows
    BY <1>4 DEF Signin, OidcCallback
  <2> QED
    BY <1>2, <2>1, <2>2 DEF Harmless, rows
<1>5. CASE Elsewhere
  BY <1>2, <1>5, NoRequestElsewhere DEF Harmless
<1>6. ASSUME NEW w \in Workers, Step(w)
      PROVE  /\ \A u \in Users : members'[u] = Owner <=> members[u] = Owner
             /\ Harmless(w)'
  <2>1. CASE ApplyChange(w)
    <3>1. /\ call[w].target \in Users /\ members[call[w].target] # Owner /\ call[w].new # Owner
      BY <1>2, <2>1 DEF ApplyChange, Harmless, RequestInv, Carries
    <3>2. \A u \in Users : members'[u] = Owner <=> members[u] = Owner
      BY <2>1, <3>1 DEF ApplyChange, RequestInv, TypeOK
    <3>3. at'[w] = "idle"
      BY <2>1, EndRequest DEF ApplyChange
    <3> QED
      BY <3>2, <3>3 DEF Harmless
  <2>2. CASE CommitRemove(w)
    <3>1. call[w].target \in Users /\ members[call[w].target] # Owner
      BY <1>2, <2>2 DEF CommitRemove, Harmless, RequestInv, Carries
    <3>2. \A u \in Users : members'[u] = Owner <=> members[u] = Owner
      BY <2>2, <3>1 DEF CommitRemove, RequestInv, TypeOK
    <3>3. at'[w] = "idle"
      BY <2>2, EndRequest DEF CommitRemove
    <3> QED
      BY <3>2, <3>3 DEF Harmless
  <2>3. CASE CheckChange(w)
    <3>1. /\ call[w].role # Owner /\ call[w].role \in RoleOrNone /\ call[w].new \in RoleOrNone
      BY <1>2, <2>3 DEF CheckChange, Harmless, RequestInv, TypeOK, Locals
    <3>2. at'[w] = "idle" \/ (/\ at'[w] = "change" /\ call' = call
                              /\ MayChange(call[w].role, call[w].target, call[w].new))
      BY <2>3 DEF CheckChange, End, Goto, RequestInv, TypeOK
    <3>3. UNCHANGED members
      BY <2>3 DEF CheckChange, rows
    <3> QED
      BY <3>1, <3>2, <3>3 DEF Harmless, MayChange, RoleOrNone, Roles
  <2>4. CASE CheckRemove(w)
    <3>1. call[w].role # Owner
      BY <1>2, <2>4 DEF CheckRemove, Harmless
    <3>2. at'[w] = "idle" \/ (/\ at'[w] = "revoke" /\ call' = call
                              /\ MayRemove(call[w].role, call[w].target))
      BY <2>4 DEF CheckRemove, End, Goto, RequestInv, TypeOK
    <3>3. UNCHANGED members
      BY <2>4 DEF CheckRemove, rows
    <3> QED
      BY <3>1, <3>2, <3>3 DEF Harmless, MayRemove, MayModifyOwner
  <2>5. CASE RevokeOfMember(w)
    <3>1. at'[w] = "remove" /\ call'[w].target = call[w].target
      BY <2>5 DEF RevokeOfMember, Goto, RequestInv, TypeOK, Locals
    <3>2. members[call[w].target] # Owner /\ UNCHANGED members
      BY <1>2, <2>5 DEF RevokeOfMember, Harmless, rows
    <3> QED
      BY <3>1, <3>2 DEF Harmless
  <2>6. CASE ~ApplyChange(w) /\ ~CommitRemove(w) /\ ~CheckChange(w) /\ ~CheckRemove(w) /\ ~RevokeOfMember(w)
    <3>1. UNCHANGED members /\ at'[w] \notin {"change", "revoke", "remove"}
      BY <1>6, <2>6, MembersWritten
    <3>2. at'[w] \notin {"loadChange", "loadRemove", "insertKey"}
      BY <1>6, <2>6
         DEF Step, WrongPassword, FindRecoveryCode, SpendRecoveryCode, RightTotp, WrongTotp,
             ResetCounters, ReadRole, InsertSession, OidcRefused, PickMember,
             InsertKey, InsertKeyRefused, ApplyRevoke, InsertServiceAccount,
             RevokeOfAccount, CommitDelete, ApplyProvider, End, Goto, RequestInv, TypeOK
    <3> QED
      BY <3>1, <3>2 DEF Harmless
  <2> QED
    BY <2>1, <2>2, <2>3, <2>4, <2>5, <2>6
<1>7. ASSUME NEW w \in Workers, Step(w)
      PROVE  \A v \in Workers : Harmless(v)'
  <2>1. \A v \in Workers \ {w} : at'[v] = at[v] /\ call'[v] = call[v]
    BY <1>7, OneRequestAtATime
  <2> QED
    BY <1>2, <1>6, <1>7, <2>1 DEF Harmless, RequestInv, Carries
<1>8. ASSUME NEW w \in Workers, Step(w)
      PROVE  \A k \in Keys : keys'[k].role # Owner
  <2>1. CASE InsertKey(w)
    <3>1. call[w].new # Owner
      BY <1>2, <2>1 DEF InsertKey, Harmless
    <3> QED
      BY <1>2, <2>1, <3>1 DEF InsertKey, RequestInv, TypeOK
  <2>2. CASE ApplyRevoke(w) \/ CommitRemove(w) \/ CommitDelete(w)
    BY <1>2, <2>2, RevokedType DEF ApplyRevoke, CommitRemove, CommitDelete
  <2>3. CASE ~InsertKey(w) /\ ~ApplyRevoke(w) /\ ~CommitRemove(w) /\ ~CommitDelete(w)
    BY <1>2, <1>8, <2>3, KeysWritten
  <2> QED
    BY <2>1, <2>2, <2>3
<1> QED
  BY <1>2, <1>3, <1>4, <1>5, <1>6, <1>7, <1>8, NoRequestElsewhere DEF Next, Elsewhere

(* Until a request is authenticated as Owner, the owners are who they were *)
(* and no key speaks for one, whatever admins and viewers do and however   *)
(* their requests overlap: a key's role is at most its creator's           *)
(* (admin_keys.rs), a member's new role at most the actor's (rbac.rs).     *)
THEOREM OwnersMakeOwners == Spec => []OnlyOwnersMakeOwners
<1>1. Init => NoOwnerInv
  BY DEF Init, NoOwnerInv, Harmless, NoKey, Owner, NoRole
<1>2. RequestInv /\ NoOwnerInv => OnlyOwnersMakeOwners
  BY DEF NoOwnerInv, OnlyOwnersMakeOwners, KeyRole, Owner, NoRole, Viewer, Admin, Roles, RoleOrNone,
         RequestInv, TypeOK, Key
<1> QED
  BY <1>1, <1>2, NoOwnerStep, RequestsSound, PTL DEF Spec

-----------------------------------------------------------------------------
(* Wrong codes add up, and a recovery code is spent once                   *)

Guessing(w, u) == at[w] \in {"verify", "spend", "reset"} /\ call[w].user = u

\* A user whose sign-ins have never overlapped has one at most that looks at the
\* counters, and what it has read is still there.
Counted(u) ==
    /\ \A v, w \in Workers : Guessing(v, u) /\ Guessing(w, u) => v = w
    /\ spent[u] <= 1 /\ (code[u] => spent[u] = 0)
    /\ wrong[u] <= LockAfter /\ wrong[u] <= failed[u] /\ (~locked[u] => wrong[u] < LockAfter)
    /\ \A w \in Workers : Guessing(w, u) =>
         /\ at[w] = "spend" => code[u]
         /\ at[w] = "verify" => ~locked[u] /\ call[w].count = failed[u]

GuessInv == \A u \in Users \ crossed : Counted(u)

\* Three steps write the counters.
LEMMA CountersWritten ==
  ASSUME RequestInv, NEW w \in Workers, Step(w), ~SpendRecoveryCode(w), ~WrongTotp(w), ~ResetCounters(w)
  PROVE  /\ UNCHANGED <<failed, locked, code, spent, wrong, crossed>>
         /\ \A u : Guessing(w, u)' => Guessing(w, u)
         /\ at'[w] # "verify"
         /\ at'[w] = "spend" => code[call[w].user] /\ call' = call
<1> USE DEF RequestInv, TypeOK, counters, history, End, Goto, Guessing
<1>1. CASE FindRecoveryCode(w) \/ RightTotp(w)
  BY <1>1 DEF FindRecoveryCode, RightTotp
<1>2. CASE ReadRole(w) \/ PickMember(w)
  BY <1>2 DEF ReadRole, PickMember
<1>3. CASE CheckChange(w) \/ CheckRemove(w) \/ RevokeOfMember(w) \/ RevokeOfAccount(w)
  BY <1>3 DEF CheckChange, CheckRemove, RevokeOfMember, RevokeOfAccount
<1>4. CASE \/ WrongPassword(w) \/ InsertSession(w) \/ OidcRefused(w) \/ ApplyChange(w)
           \/ CommitRemove(w) \/ InsertKey(w) \/ InsertKeyRefused(w) \/ ApplyRevoke(w)
           \/ InsertServiceAccount(w) \/ CommitDelete(w) \/ ApplyProvider(w)
  BY <1>4
     DEF WrongPassword, InsertSession, OidcRefused, ApplyChange, CommitRemove, InsertKey,
         InsertKeyRefused, ApplyRevoke, InsertServiceAccount, CommitDelete, ApplyProvider
<1> QED
  BY <1>1, <1>2, <1>3, <1>4 DEF Step

\* Every step keeps the wrong guesses counted, users whose requests cross excepted.
LEMMA GuessStep ==
  ASSUME RequestInv, GuessInv, [Next]_vars
  PROVE  GuessInv'
<1> SUFFICES ASSUME NEW u \in Users, u \notin crossed' PROVE Counted(u)'
  BY DEF GuessInv
<1> USE DEF LockAfter
<1>1. u \notin crossed
  <2>1. ASSUME NEW w \in Workers, NEW x \in Users, Signin(w, x) PROVE crossed \subseteq crossed'
    BY <2>1 DEF Signin
  <2>2. ASSUME NEW w \in Workers, OidcCallback(w) PROVE crossed \subseteq crossed'
    BY <2>2 DEF OidcCallback, history
  <2>3. ASSUME NEW w \in Workers, NEW c \in Credentials, Request(w, c) PROVE crossed \subseteq crossed'
    BY <2>3, RequestBegins
  <2>4. ASSUME NEW w \in Workers, Step(w) PROVE crossed \subseteq crossed'
    BY <2>4, CountersWritten DEF SpendRecoveryCode, WrongTotp, ResetCounters
  <2> QED
    BY <2>1, <2>2, <2>3, <2>4, NoRequestElsewhere DEF Next, Elsewhere
<1>2. Counted(u)
  BY <1>1 DEF GuessInv
<1>3. ASSUME NEW w \in Workers, ~Guessing(w, u)',
             \A v \in Workers \ {w} : at'[v] = at[v] /\ call'[v] = call[v],
             UNCHANGED <<failed[u], locked[u], code[u], spent[u], wrong[u]>>
      PROVE  Counted(u)'
  BY <1>2, <1>3 DEF Counted, Guessing
<1>4. ASSUME NEW w \in Workers, Begins(w)
      PROVE  Counted(u)'
  <2>1. /\ UNCHANGED <<failed[u], locked[u], code[u], spent[u], wrong[u]>>
        /\ \A v \in Workers \ {w} : at'[v] = at[v] /\ call'[v] = call[v]
    BY <1>4, BeginsWriteNothing DEF Begins, counters
  <2>2. CASE Signin(w, u)
    <3>1. at'[w] = "verify" /\ call'[w].user = u /\ call'[w].count = failed[u]
      BY <2>2, SigninBegins
    <3>2. ~locked[u] /\ \A v \in Workers : ~Guessing(v, u)
      BY <1>1, <2>2 DEF Signin, SigningInNow, SigninSteps, Guessing
    <3> QED
      BY <1>2, <2>1, <3>1, <3>2 DEF Counted, Guessing
  <2>3. ASSUME NEW x \in Users, x # u, Signin(w, x)
        PROVE  Counted(u)'
    <3>1. call'[w].user = x
      BY <2>3, SigninBegins
    <3> QED
      BY <1>3, <2>1, <2>3, <3>1 DEF Guessing
  <2>4. CASE ~\E x \in Users : Signin(w, x)
    <3>1. at'[w] \in AuthorizedSteps \cup {"jwks"}
      BY <1>4, <2>4, OidcBegins, RequestBegins DEF Begins
    <3> QED
      BY <1>3, <2>1, <3>1 DEF Guessing, AuthorizedSteps
  <2> QED
    BY <2>2, <2>3, <2>4
<1>5. ASSUME NEW x \in Users, LockEnds(x)
      PROVE  Counted(u)'
  <2>1. UNCHANGED <<at, call, failed, code, spent>>
    BY <1>5 DEF LockEnds
  <2>2. CASE x = u
    <3>1. wrong'[u] = 0 /\ locked[u] /\ ~locked'[u] /\ failed[u] \in Nat
      BY <1>5, <2>2 DEF LockEnds, RequestInv, TypeOK
    <3> QED
      BY <1>2, <2>1, <3>1 DEF Counted, Guessing
  <2>3. CASE x # u
    <3>1. wrong'[u] = wrong[u] /\ locked'[u] = locked[u]
      BY <1>5, <2>3 DEF LockEnds, RequestInv, TypeOK
    <3> QED
      BY <1>2, <2>1, <3>1 DEF Counted, Guessing
  <2> QED
    BY <2>2, <2>3
<1>6. CASE Elsewhere /\ ~\E x \in Users : LockEnds(x)
  <2>1. UNCHANGED <<at, call, failed, locked, code, spent, wrong>>
    BY <1>6 DEF Elsewhere, Signout, vars, counters, history
  <2> QED
    BY <1>2, <2>1 DEF Counted, Guessing
<1>7. ASSUME NEW w \in Workers, Step(w), ~SpendRecoveryCode(w), ~WrongTotp(w), ~ResetCounters(w)
      PROVE  Counted(u)'
  <2>1. \A v \in Workers \ {w} : at'[v] = at[v] /\ call'[v] = call[v]
    BY <1>7, OneRequestAtATime
  <2>2. /\ UNCHANGED <<failed, locked, code, spent, wrong>>
        /\ Guessing(w, u)' => Guessing(w, u)
        /\ at'[w] # "verify"
        /\ at'[w] = "spend" => code[call[w].user] /\ call' = call
    BY <1>7, CountersWritten
  <2> QED
    BY <1>2, <2>1, <2>2 DEF Counted, Guessing
<1>8. ASSUME NEW w \in Workers, SpendRecoveryCode(w) \/ WrongTotp(w) \/ ResetCounters(w)
      PROVE  Counted(u)'
  <2>1. \A v \in Workers \ {w} : at'[v] = at[v] /\ call'[v] = call[v]
    BY <1>8, OneRequestAtATime DEF Step
  <2>2. call[w].user \in Users
    BY <1>8 DEF SpendRecoveryCode, WrongTotp, ResetCounters, SigninSteps, RequestInv, Carries
  <2>3. CASE call[w].user # u
    <3>1. UNCHANGED <<failed[u], locked[u], code[u], spent[u], wrong[u]>>
      BY <1>8, <2>2, <2>3 DEF SpendRecoveryCode, WrongTotp, ResetCounters, RequestInv, TypeOK
    <3>2. ~Guessing(w, u)'
      BY <1>8, <2>3
         DEF SpendRecoveryCode, WrongTotp, ResetCounters, End, Goto, Guessing, RequestInv, TypeOK
    <3> QED
      BY <1>3, <2>1, <3>1, <3>2
  <2>4. CASE call[w].user = u
    <3>1. \A v \in Workers \ {w} : ~Guessing(v, u)'
      BY <1>2, <1>8, <2>1, <2>4
         DEF Counted, Guessing, SpendRecoveryCode, WrongTotp, ResetCounters
    <3>2. CASE SpendRecoveryCode(w)
      <4>1. code[u] /\ spent[u] = 0
        BY <1>2, <2>4, <3>2 DEF SpendRecoveryCode, Counted, Guessing
      <4>2. ~code'[u] /\ spent'[u] = 1
        BY <2>4, <3>2, <4>1 DEF SpendRecoveryCode, RequestInv, TypeOK
      <4>3. at'[w] = "reset" /\ UNCHANGED <<failed, locked, wrong>>
        BY <3>2 DEF SpendRecoveryCode, Goto, RequestInv, TypeOK
      <4> QED
        BY <1>2, <3>1, <4>2, <4>3 DEF Counted, Guessing
    <3>3. CASE WrongTotp(w)
      <4>1. ~locked[u] /\ call[w].count = failed[u] /\ wrong[u] < LockAfter /\ wrong[u] <= failed[u]
        BY <1>2, <2>4, <3>3 DEF WrongTotp, Counted, Guessing
      <4>2. /\ failed[u] \in Nat /\ wrong[u] \in Nat
        BY DEF RequestInv, TypeOK
      <4>3. failed'[u] = failed[u] + 1 /\ wrong'[u] = wrong[u] + 1
        BY <2>2, <2>4, <3>3, <4>1 DEF WrongTotp, RequestInv, TypeOK
      <4>4. locked'[u] <=> failed[u] + 1 >= LockAfter
        BY <2>2, <2>4, <3>3, <4>1 DEF WrongTotp, LocksNow, RequestInv, TypeOK
      <4>5. at'[w] = "idle" /\ UNCHANGED <<code, spent>>
        BY <3>3, EndRequest DEF WrongTotp
      <4> QED
        BY <1>2, <3>1, <4>1, <4>2, <4>3, <4>4, <4>5 DEF Counted, Guessing
    <3>4. CASE ResetCounters(w)
      <4>1. failed'[u] = 0 /\ wrong'[u] = 0
        BY <2>2, <2>4, <3>4 DEF ResetCounters, RequestInv, TypeOK
      <4>2. at'[w] = "role" /\ UNCHANGED <<code, spent>>
        BY <3>4 DEF ResetCounters, Goto, RequestInv, TypeOK
      <4> QED
        BY <1>2, <3>1, <4>1, <4>2 DEF Counted, Guessing
    <3> QED
      BY <1>8, <3>2, <3>3, <3>4
  <2> QED
    BY <2>3, <2>4
<1> QED
  BY <1>4, <1>5, <1>6, <1>7, <1>8 DEF Next, Begins, Elsewhere

\* Wrong guesses are counted in every behaviour.
LEMMA GuessesCounted == Spec => []GuessInv
<1>1. Init => GuessInv
  <2> SUFFICES ASSUME Init, NEW u \in Users PROVE Counted(u)
    BY DEF GuessInv
  <2>1. InitFailed[u] \in 0..2
    BY FailedAssumption DEF LockAfter
  <2> QED
    BY <2>1 DEF Init, Counted, Guessing, LockAfter
<1> QED
  BY <1>1, GuessStep, RequestsSound, PTL DEF Spec

(* A user whose sign-ins do not overlap gets three wrong codes and no      *)
(* fourth until the lock ends: each sign-in stores the count it read plus  *)
(* one (auth.rs), and the count it read is the count there is.             *)
THEOREM NoFourthGuess == Spec => []ThreeGuesses
<1>1. GuessInv => ThreeGuesses
  BY DEF GuessInv, Counted, ThreeGuesses
<1> QED
  BY <1>1, GuessesCounted, PTL

(* A recovery code lets in one sign-in of a user whose sign-ins do not     *)
(* overlap, though it is found in one statement and marked in another.     *)
THEOREM OneSigninPerCode == Spec => []CodeSpentOnce
<1>1. GuessInv => CodeSpentOnce
  BY DEF GuessInv, Counted, CodeSpentOnce
<1> QED
  BY <1>1, GuessesCounted, PTL

-----------------------------------------------------------------------------
(* Who is removed stays out                                                *)

\* A key that counts and was not created once a removal had looked at the keys.
Timely(k) == keys[k].live /\ ~keys[k].late

\* A removal under way has seen every timely key of the one it removes.
Sees(w) ==
    /\ at[w] = "remove" =>
         \A k \in Keys : Timely(k) /\ keys[k].member = call[w].target => k \in call[w].doomed
    /\ at[w] = "deleteAccount" =>
         \A k \in Keys : Timely(k) /\ keys[k].account = call[w].target => k \in call[w].doomed

GoneInv ==
    /\ accounts \cap gone = {}
    /\ \A u \in Users \cap gone : members[u] = NoRole
    /\ \A k \in Keys : Timely(k) => keys[k].member \notin gone /\ keys[k].account \notin gone
    /\ \A w \in Workers : Sees(w)

\* What a step must not do to the keys: bring a timely one about, or change whose
\* it is.
LEMMA GoneFrame ==
  ASSUME RequestInv, GoneInv,
         accounts' \cap gone' = {},
         \A u \in Users \cap gone' : members'[u] = NoRole,
         \A k \in Keys : Timely(k)' => /\ Timely(k)
                                       /\ keys'[k].member = keys[k].member
                                       /\ keys'[k].account = keys[k].account
                                       /\ keys[k].member \notin gone' /\ keys[k].account \notin gone',
         \A w \in Workers : Sees(w)' \/ (at'[w] = at[w] /\ call'[w] = call[w])
  PROVE  GoneInv'
<1>1. \A k \in Keys : Timely(k)' => keys'[k].member \notin gone' /\ keys'[k].account \notin gone'
  OBVIOUS
<1>2. ASSUME NEW w \in Workers PROVE Sees(w)'
  BY <1>2 DEF GoneInv, Sees
<1> QED
  BY <1>1, <1>2 DEF GoneInv

\* No step gives a removed member or account a role or a timely key back.
LEMMA GoneStep ==
  ASSUME RequestInv, GoneInv, [Next]_vars
  PROVE  GoneInv'
<1>1. CASE Elsewhere
  <2>1. UNCHANGED <<members, keys, accounts, at, call, gone>>
    BY <1>1, NoRequestElsewhere
  <2> QED
    BY <2>1 DEF GoneInv, Sees, Timely
<1>2. ASSUME NEW w \in Workers, Begins(w)
      PROVE  GoneInv'
  <2>1. /\ UNCHANGED <<rows, gone>>
        /\ at'[w] \in AuthorizedSteps \cup {"verify", "jwks"}
        /\ \A v \in Workers \ {w} : at'[v] = at[v] /\ call'[v] = call[v]
    BY <1>2, BeginsWriteNothing DEF Begins
  <2>2. UNCHANGED <<members, keys, accounts, gone>> /\ Sees(w)'
    BY <2>1 DEF rows, Sees, AuthorizedSteps
  <2> QED
    BY <2>1, <2>2 DEF GoneInv, Sees, Timely
<1>3. ASSUME NEW w \in Workers, Step(w)
      PROVE  GoneInv'
  <2>1. \A v \in Workers \ {w} : at'[v] = at[v] /\ call'[v] = call[v]
    BY <1>3, OneRequestAtATime
  <2>2. CASE CommitRemove(w)
    <3> DEFINE u == call[w].target
    <3>1. u \in Users /\ u \notin Accounts /\ at'[w] = "idle" /\ accounts' = accounts
      BY <2>2, IdsAssumption, EndRequest DEF CommitRemove, RequestInv, Carries
    <3>2. gone' \in {gone, gone \cup {u}} /\ keys' = Revoked(call[w].doomed)
      BY <2>2 DEF CommitRemove
    <3>3. \A x \in Users \cap gone' : members'[x] = NoRole
      BY <2>2, <3>1, <3>2 DEF CommitRemove, GoneInv, RequestInv, TypeOK
    <3>4. ASSUME NEW k \in Keys, Timely(k)'
          PROVE  /\ Timely(k)
                 /\ keys'[k].member = keys[k].member /\ keys'[k].account = keys[k].account
                 /\ keys[k].member \notin gone' /\ keys[k].account \notin gone'
      <4>1. /\ Timely(k) /\ k \notin call[w].doomed
            /\ keys'[k].member = keys[k].member /\ keys'[k].account = keys[k].account
        BY <3>2, <3>4, RevokedType DEF Timely
      <4>2. keys[k].member # u
        BY <2>2, <4>1 DEF CommitRemove, GoneInv, Sees
      <4>3. keys[k].account # u
        BY <3>1, NobodyAssumption DEF RequestInv, TypeOK, Key
      <4> QED
        BY <3>2, <4>1, <4>2, <4>3 DEF GoneInv
    <3>5. accounts' \cap gone' = {}
      BY <3>1, <3>2 DEF GoneInv, RequestInv, TypeOK
    <3>6. Sees(w)'
      BY <3>1 DEF Sees
    <3> QED
      BY <2>1, <3>3, <3>4, <3>5, <3>6, GoneFrame
  <2>3. CASE CommitDelete(w)
    <3> DEFINE a == call[w].target
    <3>1. a \in Accounts /\ a \notin Users /\ at'[w] = "idle" /\ members' = members
      BY <2>3, IdsAssumption, EndRequest DEF CommitDelete, RequestInv, Carries
    <3>2. gone' = gone \cup {a} /\ keys' = Revoked(call[w].doomed) /\ accounts' = accounts \ {a}
      BY <2>3 DEF CommitDelete
    <3>3. \A x \in Users \cap gone' : members'[x] = NoRole
      BY <3>1, <3>2 DEF GoneInv
    <3>4. ASSUME NEW k \in Keys, Timely(k)'
          PROVE  /\ Timely(k)
                 /\ keys'[k].member = keys[k].member /\ keys'[k].account = keys[k].account
                 /\ keys[k].member \notin gone' /\ keys[k].account \notin gone'
      <4>1. /\ Timely(k) /\ k \notin call[w].doomed
            /\ keys'[k].member = keys[k].member /\ keys'[k].account = keys[k].account
        BY <3>2, <3>4, RevokedType DEF Timely
      <4>2. keys[k].account # a
        BY <2>3, <4>1 DEF CommitDelete, GoneInv, Sees
      <4>3. keys[k].member # a
        BY <3>1, NobodyAssumption DEF RequestInv, TypeOK, Key
      <4> QED
        BY <3>2, <4>1, <4>2, <4>3 DEF GoneInv
    <3>5. accounts' \cap gone' = {}
      BY <3>2 DEF GoneInv
    <3>6. Sees(w)'
      BY <3>1 DEF Sees
    <3> QED
      BY <2>1, <3>3, <3>4, <3>5, <3>6, GoneFrame
  <2>4. CASE InsertKey(w)
    <3> DEFINE o == call[w].target
    <3>1. PICK k \in Keys : keys' = [keys EXCEPT ![k] =
              [live |-> TRUE, role |-> call[w].new,
               member |-> IF o \in Users THEN o ELSE Nobody,
               account |-> IF o \in Accounts THEN o ELSE Nobody,
               late |-> Late(o)]]
      BY <2>4 DEF InsertKey
    <3>2. /\ keys'[k].member = IF o \in Users THEN o ELSE Nobody
          /\ keys'[k].account = IF o \in Accounts THEN o ELSE Nobody
          /\ keys'[k].late = Late(o)
          /\ \A j \in Keys \ {k} : keys'[j] = keys[j]
      BY <3>1 DEF RequestInv, TypeOK
    <3>3. /\ UNCHANGED <<members, accounts, gone>> /\ at'[w] = "idle"
          /\ o \in Accounts => o \in accounts
      BY <2>4, EndRequest DEF InsertKey, history
    <3>4. Timely(k)' => ~Late(o)
      BY <3>2 DEF Timely
    <3>5. Timely(k)' => keys'[k].member \notin gone /\ keys'[k].account \notin gone
      BY <3>2, <3>3, <3>4, NobodyAssumption DEF GoneInv, Late, RequestInv, TypeOK
    <3>6. ASSUME NEW v \in Workers, v # w
          PROVE  Sees(v)'
      <4>1. /\ at'[v] = at[v] /\ call'[v] = call[v] /\ Sees(v)
        BY <2>1, <3>6 DEF GoneInv
      <4>2. Timely(k)' /\ at[v] \in {"remove", "deleteAccount"} => call[v].target # o
        BY <3>4 DEF Late
      <4>3. at[v] \in {"remove", "deleteAccount"} => call[v].target # Nobody
        BY NobodyAssumption DEF RequestInv, Carries
      <4>4. \A j \in Keys \ {k} : Timely(j)' => Timely(j)
        BY <3>2 DEF Timely
      <4> QED
        BY <3>2, <4>1, <4>2, <4>3, <4>4 DEF Sees
    <3>7. Sees(w)'
      BY <3>3 DEF Sees
    <3>8. \A j \in Keys : Timely(j)' => keys'[j].member \notin gone' /\ keys'[j].account \notin gone'
      BY <3>2, <3>3, <3>5 DEF GoneInv, Timely
    <3> QED
      BY <3>3, <3>6, <3>7, <3>8 DEF GoneInv
  <2>5. CASE ApplyRevoke(w)
    <3>1. UNCHANGED <<members, accounts, gone>> /\ at'[w] = "idle" /\ keys' = Revoked({call[w].target})
      BY <2>5, EndRequest DEF ApplyRevoke, history
    <3>2. \A k \in Keys : Timely(k)' => /\ Timely(k)
                                        /\ keys'[k].member = keys[k].member
                                        /\ keys'[k].account = keys[k].account
      BY <3>1, RevokedType DEF Timely
    <3>3. Sees(w)'
      BY <3>1 DEF Sees
    <3> QED
      BY <2>1, <3>1, <3>2, <3>3, GoneFrame DEF GoneInv
  <2>6. ASSUME UNCHANGED <<keys, gone>>, Sees(w)', accounts' \cap gone = {},
               \A u \in Users \cap gone : members'[u] = NoRole
        PROVE  GoneInv'
    <3>1. \A k \in Keys : Timely(k)' = Timely(k)
      BY <2>6 DEF Timely
    <3> QED
      BY <2>1, <2>6, <3>1 DEF GoneInv, Sees
  <2>7. CASE ApplyChange(w)
    <3>1. at'[w] = "idle" /\ UNCHANGED <<keys, gone, accounts>> /\ call[w].target \in Users
      BY <2>7, EndRequest DEF ApplyChange, RequestInv, Carries
    <3>2. \A u \in Users \cap gone : members'[u] = NoRole
      BY <2>7, <3>1 DEF ApplyChange, GoneInv, RequestInv, TypeOK
    <3> QED
      BY <2>6, <3>1, <3>2 DEF Sees, GoneInv
  <2>8. CASE InsertServiceAccount(w)
    <3>1. at'[w] = "idle" /\ UNCHANGED <<keys, gone, members>>
      BY <2>8, EndRequest DEF InsertServiceAccount, history
    <3>2. accounts' \cap gone = {}
      BY <2>8 DEF InsertServiceAccount, GoneInv
    <3> QED
      BY <2>6, <3>1, <3>2 DEF Sees, GoneInv
  <2>9. CASE RevokeOfMember(w)
    <3>1. UNCHANGED <<rows, gone>> /\ at'[w] = "remove"
      BY <2>9 DEF RevokeOfMember, history, Goto, RequestInv, TypeOK
    <3>2. /\ call'[w].target = call[w].target
          /\ \A k \in Keys : keys[k].live /\ keys[k].member = call[w].target => k \in call'[w].doomed
      BY <2>9 DEF RevokeOfMember, RequestInv, TypeOK, Locals
    <3>3. Sees(w)'
      BY <3>1, <3>2 DEF Sees, Timely, rows
    <3> QED
      BY <2>6, <3>1, <3>3 DEF GoneInv, rows
  <2>10. CASE RevokeOfAccount(w)
    <3>1. UNCHANGED <<rows, gone>> /\ at'[w] = "deleteAccount"
      BY <2>10 DEF RevokeOfAccount, history, Goto, RequestInv, TypeOK
    <3>2. /\ call'[w].target = call[w].target
          /\ \A k \in Keys : keys[k].live /\ keys[k].account = call[w].target => k \in call'[w].doomed
      BY <2>10 DEF RevokeOfAccount, RequestInv, TypeOK, Locals
    <3>3. Sees(w)'
      BY <3>1, <3>2 DEF Sees, Timely, rows
    <3> QED
      BY <2>6, <3>1, <3>3 DEF GoneInv, rows
  <2>11. CASE \/ WrongPassword(w) \/ FindRecoveryCode(w) \/ SpendRecoveryCode(w) \/ RightTotp(w)
              \/ WrongTotp(w) \/ ResetCounters(w) \/ ReadRole(w) \/ InsertSession(w) \/ OidcRefused(w)
              \/ PickMember(w) \/ CheckChange(w) \/ CheckRemove(w) \/ InsertKeyRefused(w) \/ ApplyProvider(w)
    <3>1. UNCHANGED <<keys, gone, accounts, members>> /\ at'[w] \notin {"remove", "deleteAccount"}
      BY <2>11
         DEF WrongPassword, FindRecoveryCode, SpendRecoveryCode, RightTotp, WrongTotp,
             ResetCounters, ReadRole, InsertSession, OidcRefused, PickMember, CheckChange,
             CheckRemove, InsertKeyRefused, ApplyProvider, End, Goto, RequestInv, TypeOK,
             rows, history
    <3> QED
      BY <2>6, <3>1 DEF Sees, GoneInv
  <2> QED
    BY <1>3, <2>2, <2>3, <2>4, <2>5, <2>7, <2>8, <2>9, <2>10, <2>11 DEF Step
<1> QED
  BY <1>1, <1>2, <1>3 DEF Next, Begins, Elsewhere

(* A removed member and a deleted service account are spoken for by no     *)
(* session and no key, whatever requests were under way: the removal       *)
(* revokes every key it finds in its transaction (members.rs,              *)
(* service_accounts.rs), and session_auth.rs asks for the member's row on  *)
(* every request.  A key created after the removal looked is the           *)
(* exception.                                                              *)
THEOREM RemovedAreOut == Spec => []RemovedStaysOut
<1>1. Init => GoneInv
  <2> SUFFICES ASSUME Init PROVE GoneInv
    OBVIOUS
  <2>1. \A k \in Keys : ~Timely(k)
    BY DEF Init, Timely, NoKey
  <2> QED
    BY <2>1 DEF Init, GoneInv, Sees
<1>2. RequestInv /\ GoneInv => RemovedStaysOut
  <2> SUFFICES ASSUME RequestInv, GoneInv, NEW c \in Credentials, RoleOf(c) # NoRole
               PROVE  \/ c[1] = "cookie" /\ UserOf(c) \notin gone
                      \/ /\ c[1] = "key"
                         /\ keys[c[2]].late \/ {UserOf(c), keys[c[2]].account} \cap gone = {}
    BY DEF RemovedStaysOut
  <2>1. CASE c[1] = "cookie" /\ c[2] \in Sessions
    <3>1. sess[c[2]] \in Users /\ members[sess[c[2]]] # NoRole /\ UserOf(c) = sess[c[2]]
      BY <2>1 DEF RoleOf, CookieRole, UserOf, RequestInv, TypeOK
    <3> QED
      BY <2>1, <3>1 DEF GoneInv
  <2>2. CASE c[1] = "key" /\ c[2] \in Keys
    <3>1. keys[c[2]].live /\ UserOf(c) = keys[c[2]].member
      BY <2>2 DEF RoleOf, KeyRole, UserOf
    <3> QED
      BY <2>2, <3>1 DEF GoneInv, Timely
  <2> QED
    BY <2>1, <2>2 DEF Credentials
<1> QED
  BY <1>1, <1>2, GoneStep, RequestsSound, PTL DEF Spec
=============================================================================
