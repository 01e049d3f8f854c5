------------------------------ MODULE AdminAuth ------------------------------
(***************************************************************************)
(* The people and keys that administer one account: sign-in with a second  *)
(* factor and its lock-out (admin/handlers/auth.rs), the session and key   *)
(* middleware (admin/middleware/session_auth.rs), the members and their    *)
(* roles (members.rs, embyr-core/src/admin/rbac.rs), admin keys and        *)
(* service accounts (admin_keys.rs, service_accounts.rs).                  *)
(*                                                                         *)
(* A worker serves one request after another; every statement against the  *)
(* system database is a step of its own.  A request that is refused before *)
(* its first write changes nothing and ends there.                         *)
(***************************************************************************)
EXTENDS Naturals, FiniteSets

CONSTANTS
    Users,        \* rows of users, all of one account
    SigningIn,    \* the users that sign in here
    InitMembers,  \* user -> role in account_members, NoRole for none
    InitFailed,   \* user -> wrong codes so far
    Sessions,     \* ids for rows of sessions
    InitSessions, \* session id -> user or Nobody
    Keys,         \* ids for rows of admin_api_keys
    Accounts,     \* ids for rows of service_accounts
    InitAccounts, \* the service accounts there are at first
    Nobody,       \* NULL
    Workers,      \* requests served at the same time
    MaxCalls,     \* how many requests there are (a bound)
    MaxFaults     \* how many counter updates fail (a bound)

NoRole == 0
Viewer == 1
Admin == 2
Owner == 3
Roles == {Viewer, Admin, Owner}
LockAfter == 3

ASSUME NobodyAssumption == Nobody \notin Users \cup Accounts
ASSUME IdsAssumption == Users \cap Accounts = {}
ASSUME UsersAssumption == SigningIn \subseteq Users
ASSUME MembersAssumption ==
    /\ InitMembers \in [Users -> Roles \cup {NoRole}]
    /\ \E u \in Users : InitMembers[u] = Owner
ASSUME FailedAssumption == InitFailed \in [Users -> 0..(LockAfter - 1)]
ASSUME AccountsAssumption == InitAccounts \subseteq Accounts
ASSUME SessionsAssumption == InitSessions \in [Sessions -> Users \cup {Nobody}]
ASSUME BoundsAssumption == MaxCalls \in Nat /\ MaxFaults \in Nat

VARIABLES
    members,   \* account_members: user -> role, NoRole without a row
    sess,      \* sessions that have not expired: id -> user, Nobody without a row
    keys,      \* admin_api_keys
    accounts,  \* service_accounts
    provider,  \* the OIDC provider of the account is registered and enabled
    failed,    \* users.failed_totp_attempts
    locked,    \* users.locked_until is in the future
    code,      \* the user's recovery code is unused
    at,        \* per worker: the next step of its request
    call,      \* per worker: the locals of its request
    calls,     \* how many requests have started
    faults,    \* how many counter updates have failed
    spent,     \* history: sign-ins that a user's recovery code has let in
    wrong,     \* history: wrong codes since the last success or the end of a lock
    crossed,   \* history: users whose sign-ins overlapped, or whose count was lost
    stale,     \* history: requests that loaded the members before the owners changed
    ownerActed,\* history: some request was authenticated as Owner
    gone       \* history: members and service accounts that were removed

rows == <<members, sess, keys, accounts, provider>>
counters == <<failed, locked, code>>
history == <<spent, wrong, crossed, stale, ownerActed, gone>>
vars == <<rows, counters, at, call, calls, faults, history>>

NoKey == [live |-> FALSE, role |-> NoRole, member |-> Nobody, account |-> Nobody, late |-> FALSE]
NoCall == [user |-> Nobody, role |-> NoRole, target |-> Nobody, new |-> NoRole, count |-> 0,
           doomed |-> {}]

Init ==
    /\ members = InitMembers
    /\ sess = InitSessions
    /\ keys = [k \in Keys |-> NoKey]
    /\ accounts = InitAccounts
    /\ provider = TRUE
    /\ failed = InitFailed
    /\ locked = [u \in Users |-> FALSE]
    /\ code = [u \in Users |-> TRUE]
    /\ at = [w \in Workers |-> "idle"]
    /\ call = [w \in Workers |-> NoCall]
    /\ calls = 0 /\ faults = 0
    /\ spent = [u \in Users |-> 0]
    /\ wrong = InitFailed
    /\ crossed = {} /\ stale = {} /\ ownerActed = FALSE /\ gone = {}

Goto(w, step) == at' = [at EXCEPT ![w] = step]
End(w) == Goto(w, "idle") /\ call' = [call EXCEPT ![w] = NoCall]

\* A request arrives.
Begin(w, step, locals) ==
    /\ at[w] = "idle" /\ calls < MaxCalls
    /\ calls' = calls + 1
    /\ Goto(w, step)
    /\ call' = [call EXCEPT ![w] = locals]

-----------------------------------------------------------------------------
(* Sign-in, from the row of the user to the row of the session             *)

SigninSteps == {"verify", "spend", "reset", "role", "session"}
SigningInNow(u) == {w \in Workers : at[w] \in SigninSteps /\ call[w].user = u}

\* Mutant of Signin: the lock is not looked at.
SigninUnlocked(w, u) ==
    /\ u \in SigningIn
    /\ Begin(w, "verify", [NoCall EXCEPT !.user = u, !.count = failed[u]])
    /\ crossed' = IF SigningInNow(u) = {} THEN crossed ELSE crossed \cup {u}
    /\ UNCHANGED <<rows, counters, faults, spent, wrong, stale, ownerActed, gone>>

\* The row of the user is read, with the count of wrong codes; a user that is
\* locked goes no further.  The password is checked next.
Signin(w, u) ==
    /\ u \in SigningIn
    /\ ~locked[u]
    /\ Begin(w, "verify", [NoCall EXCEPT !.user = u, !.count = failed[u]])
    /\ crossed' = IF SigningInNow(u) = {} THEN crossed ELSE crossed \cup {u}
    /\ UNCHANGED <<rows, counters, faults, spent, wrong, stale, ownerActed, gone>>

\* A wrong password, or no code at all.
WrongPassword(w) ==
    /\ at[w] = "verify"
    /\ End(w)
    /\ UNCHANGED <<rows, counters, calls, faults, history>>

\* Mutant of FindRecoveryCode: a code that was used is found again.
FindRecoveryCodeUsed(w) ==
    /\ at[w] = "verify"
    /\ Goto(w, "spend") /\ call' = call
    /\ UNCHANGED <<rows, counters, calls, faults, history>>

\* The recovery code is looked for among the unused ones ...
FindRecoveryCode(w) ==
    /\ at[w] = "verify"
    /\ IF code[call[w].user] THEN Goto(w, "spend") /\ call' = call ELSE End(w)
    /\ UNCHANGED <<rows, counters, calls, faults, history>>

\* ... and marked as used, by its id, in another statement.
SpendRecoveryCode(w) ==
    /\ at[w] = "spend"
    /\ code' = [code EXCEPT ![call[w].user] = FALSE]
    /\ spent' = [spent EXCEPT ![call[w].user] = @ + 1]
    /\ Goto(w, "reset")
    /\ UNCHANGED <<rows, failed, locked, call, calls, faults,
                   wrong, crossed, stale, ownerActed, gone>>

RightTotp(w) ==
    /\ at[w] = "verify"
    /\ Goto(w, "reset")
    /\ UNCHANGED <<rows, counters, call, calls, faults, history>>

LocksNow(count) == count >= LockAfter

\* A wrong code: the count that was read at first, plus one, is stored, and the
\* third one locks the user.  The error of the statement is not looked at.
WrongTotp(w) ==
    LET u == call[w].user
        count == call[w].count + 1 IN
    /\ at[w] = "verify"
    /\ End(w)
    /\ wrong' = [wrong EXCEPT ![u] = @ + 1]
    /\ \/ /\ failed' = [failed EXCEPT ![u] = count]
          /\ locked' = [locked EXCEPT ![u] = @ \/ LocksNow(count)]
          /\ UNCHANGED <<faults, crossed>>
       \/ /\ faults < MaxFaults
          /\ faults' = faults + 1
          /\ crossed' = crossed \cup {u}
          /\ UNCHANGED <<failed, locked>>
    /\ UNCHANGED <<rows, code, calls, spent, stale, ownerActed, gone>>

ResetCounters(w) ==
    LET u == call[w].user IN
    /\ at[w] = "reset"
    /\ failed' = [failed EXCEPT ![u] = 0]
    /\ locked' = [locked EXCEPT ![u] = FALSE]
    /\ wrong' = [wrong EXCEPT ![u] = 0]
    /\ Goto(w, "role")
    /\ UNCHANGED <<rows, code, call, calls, faults, spent, crossed, stale, ownerActed, gone>>

\* The role is read, for the answer: a user that is no member gets an error.
ReadRole(w) ==
    /\ at[w] = "role"
    /\ IF members[call[w].user] # NoRole THEN Goto(w, "session") /\ call' = call ELSE End(w)
    /\ UNCHANGED <<rows, counters, calls, faults, history>>

InsertSession(w) ==
    /\ at[w] = "session"
    /\ \E s \in Sessions :
         /\ sess[s] = Nobody
         /\ sess' = [sess EXCEPT ![s] = call[w].user]
    /\ End(w)
    /\ UNCHANGED <<members, keys, accounts, provider, counters, calls, faults, history>>

\* oidc_callback: the provider is looked up, then its keys are fetched.
OidcCallback(w) ==
    /\ provider
    /\ Begin(w, "jwks", NoCall)
    /\ UNCHANGED <<rows, counters, faults, history>>

\* The token is not signed by the provider, or its keys cannot be fetched.
OidcRefused(w) ==
    /\ at[w] = "jwks"
    /\ End(w)
    /\ UNCHANGED <<rows, counters, calls, faults, history>>

\* The session is for some member: no row has the role 'owner', which is how
\* the first query spells it, and the second one takes any.
PickMember(w) ==
    /\ at[w] = "jwks"
    /\ \E u \in Users :
         /\ members[u] # NoRole
         /\ call' = [call EXCEPT ![w].user = u]
    /\ Goto(w, "session")
    /\ UNCHANGED <<rows, counters, calls, faults, history>>

\* The cookie's session is deleted; sign-out needs no other credential.
Signout(s) ==
    /\ sess[s] # Nobody
    /\ calls < MaxCalls
    /\ calls' = calls + 1
    /\ sess' = [sess EXCEPT ![s] = Nobody]
    /\ UNCHANGED <<members, keys, accounts, provider, counters, at, call, faults, history>>

\* Fifteen minutes after the lock was set.
LockEnds(u) ==
    /\ locked[u]
    /\ locked' = [locked EXCEPT ![u] = FALSE]
    /\ wrong' = [wrong EXCEPT ![u] = 0]
    /\ UNCHANGED <<rows, failed, code, at, call, calls, faults,
                   spent, crossed, stale, ownerActed, gone>>

-----------------------------------------------------------------------------
(* Who a request comes from                                                *)

\* A session counts as long as its user is a member, with the present role.
CookieRole(s) == IF sess[s] # Nobody THEN members[sess[s]] ELSE NoRole

\* A key has the role it was created with.
KeyRole(k) == IF keys[k].live THEN keys[k].role ELSE NoRole

Credentials == ({"cookie"} \X Sessions) \cup ({"key"} \X Keys)
RoleOf(c) == IF c[1] = "cookie" THEN CookieRole(c[2]) ELSE KeyRole(c[2])
UserOf(c) == IF c[1] = "cookie" THEN sess[c[2]] ELSE keys[c[2]].member

\* A handler's first step: the middleware knows the role, and it is enough.  The
\* checks of check_rbac look at that role later.
Authorized(w, c, least, step, target, new) ==
    /\ RoleOf(c) >= least
    /\ Begin(w, step, [NoCall EXCEPT !.target = target, !.new = new,
                                     !.role = IF step \in {"loadChange", "loadRemove"}
                                              THEN RoleOf(c) ELSE NoRole])
    /\ ownerActed' = (ownerActed \/ RoleOf(c) = Owner)
    /\ UNCHANGED <<rows, counters, faults, spent, wrong, crossed, stale, gone>>

-----------------------------------------------------------------------------
(* Members                                                                 *)

Owners == {u \in Users : members[u] = Owner}

\* Mutant of MayModifyOwner: the last owner is not counted.
MayModifyOwnerUncounted(role) == role = Owner

\* check_rbac, of a change that takes the role Owner from a member: the actor is
\* an owner and another one is left.
MayModifyOwner(role) == role = Owner /\ Cardinality(Owners) > 1

\* check_rbac(RemoveMember); a target that is no member passes.
MayRemove(role, target) == members[target] = Owner => MayModifyOwner(role)

\* Mutant of MayChange: the new role may be above the actor's.
MayChangeUpwards(role, target, new) ==
    members[target] = Owner => role = Owner /\ (new < Owner => MayModifyOwner(role))

\* check_rbac(ChangeMemberRole)
MayChange(role, target, new) ==
    /\ new <= role
    /\ members[target] = Owner => role = Owner /\ (new < Owner => MayModifyOwner(role))

ChangeMemberRole(w, c, target, new) == Authorized(w, c, Admin, "loadChange", target, new)
RemoveMember(w, c, target) == Authorized(w, c, Admin, "loadRemove", target, NoRole)

\* The requests that have loaded the members and have not changed them yet: what
\* they loaded is stale once somebody else changes who the owners are.
Loaded == {"change", "revoke", "remove"}
Overtakes(w) ==
    stale' = (IF Owners' = Owners THEN stale ELSE stale \cup {v \in Workers : at[v] \in Loaded}) \ {w}

\* The members are loaded and the change is checked against them.
CheckChange(w) ==
    /\ at[w] = "loadChange"
    /\ IF MayChange(call[w].role, call[w].target, call[w].new)
       THEN Goto(w, "change") /\ call' = call ELSE End(w)
    /\ UNCHANGED <<rows, counters, calls, faults, history>>

ApplyChange(w) ==
    LET u == call[w].target IN
    /\ at[w] = "change"
    /\ members' = [members EXCEPT ![u] = IF @ = NoRole THEN NoRole ELSE call[w].new]
    /\ End(w) /\ Overtakes(w)
    /\ UNCHANGED <<sess, keys, accounts, provider, counters, calls, faults,
                   spent, wrong, crossed, ownerActed, gone>>

CheckRemove(w) ==
    /\ at[w] = "loadRemove"
    /\ IF MayRemove(call[w].role, call[w].target)
       THEN Goto(w, "revoke") /\ call' = call ELSE End(w)
    /\ UNCHANGED <<rows, counters, calls, faults, history>>

\* Mutant of RevokeOfMember: the keys of the member are left alone.
RevokeOfMemberNone(w) ==
    /\ at[w] = "revoke"
    /\ Goto(w, "remove") /\ call' = call
    /\ UNCHANGED <<rows, counters, calls, faults, history>>

\* The transaction expires the sessions and revokes the keys that are there now;
\* it has not committed.
RevokeOfMember(w) ==
    /\ at[w] = "revoke"
    /\ call' = [call EXCEPT ![w].doomed =
                  {k \in Keys : keys[k].live /\ keys[k].member = call[w].target}
                  \cup {s \in Sessions : sess[s] = call[w].target}]
    /\ Goto(w, "remove")
    /\ UNCHANGED <<rows, counters, calls, faults, history>>

Revoked(doomed) ==
    [k \in Keys |-> IF k \in doomed THEN [keys[k] EXCEPT !.live = FALSE] ELSE keys[k]]

\* The row of the member is deleted, and the transaction commits.
CommitRemove(w) ==
    LET u == call[w].target IN
    /\ at[w] = "remove"
    /\ members' = [members EXCEPT ![u] = NoRole]
    /\ keys' = Revoked(call[w].doomed)
    /\ sess' = [s \in Sessions |-> IF s \in call[w].doomed /\ sess[s] = u
                               THEN Nobody ELSE sess[s]]
    /\ gone' = IF members[u] # NoRole THEN gone \cup {u} ELSE gone
    /\ End(w) /\ Overtakes(w)
    /\ UNCHANGED <<accounts, provider, counters, calls, faults, spent, wrong, crossed, ownerActed>>

-----------------------------------------------------------------------------
(* Keys, service accounts and the provider                                 *)

\* check_rbac(CreateAdminKey): no key above the actor's role.  The member and
\* the service account are whatever the request names.
CreateAdminKey(w, c, role, owner) ==
    /\ role <= RoleOf(c)
    /\ Authorized(w, c, Admin, "insertKey", owner, role)

\* A removal has already revoked the keys it saw, or is over.
Late(owner) ==
    \/ owner \in Users /\ members[owner] = NoRole
    \/ \E w \in Workers : at[w] \in {"remove", "deleteAccount"} /\ call[w].target = owner

\* A service account must exist, by the foreign key.
InsertKey(w) ==
    LET owner == call[w].target IN
    /\ at[w] = "insertKey"
    /\ owner \in Accounts => owner \in accounts
    /\ \E k \in Keys :
         /\ keys[k] = NoKey
         /\ keys' = [keys EXCEPT ![k] =
              [live |-> TRUE, role |-> call[w].new,
               member |-> IF owner \in Users THEN owner ELSE Nobody,
               account |-> IF owner \in Accounts THEN owner ELSE Nobody,
               late |-> Late(owner)]]
    /\ End(w)
    /\ UNCHANGED <<members, sess, accounts, provider, counters, calls, faults, history>>

\* The service account is gone: the statement fails.
InsertKeyRefused(w) ==
    /\ at[w] = "insertKey"
    /\ call[w].target \in Accounts \ accounts
    /\ End(w)
    /\ UNCHANGED <<rows, counters, calls, faults, history>>

RevokeAdminKey(w, c, k) == Authorized(w, c, Admin, "revokeKey", k, NoRole)

ApplyRevoke(w) ==
    /\ at[w] = "revokeKey"
    /\ keys' = Revoked({call[w].target})
    /\ End(w)
    /\ UNCHANGED <<members, sess, accounts, provider, counters, calls, faults, history>>

\* Any role may be given to a service account; no check reads it.
CreateServiceAccount(w, c) == Authorized(w, c, Admin, "newAccount", Nobody, NoRole)

InsertServiceAccount(w) ==
    /\ at[w] = "newAccount"
    /\ \E a \in Accounts \ (accounts \cup gone) : accounts' = accounts \cup {a}
    /\ End(w)
    /\ UNCHANGED <<members, sess, keys, provider, counters, calls, faults, history>>

\* The service account is looked up before the transaction begins.
DeleteServiceAccount(w, c, a) ==
    /\ a \in accounts
    /\ Authorized(w, c, Admin, "revokeOf", a, NoRole)

RevokeOfAccount(w) ==
    /\ at[w] = "revokeOf"
    /\ call' = [call EXCEPT ![w].doomed =
                  {k \in Keys : keys[k].live /\ keys[k].account = call[w].target}]
    /\ Goto(w, "deleteAccount")
    /\ UNCHANGED <<rows, counters, calls, faults, history>>

\* The keys that are left no longer name the account (ON DELETE SET NULL); the
\* model keeps the name, which nothing reads.
CommitDelete(w) ==
    /\ at[w] = "deleteAccount"
    /\ accounts' = accounts \ {call[w].target}
    /\ keys' = Revoked(call[w].doomed)
    /\ gone' = gone \cup {call[w].target}
    /\ End(w)
    /\ UNCHANGED <<members, sess, provider, counters, calls, faults,
                   spent, wrong, crossed, stale, ownerActed>>

\* create, patch and delete of the OIDC provider are for owners.
ChangeProvider(w, c) == Authorized(w, c, Owner, "provider", Nobody, NoRole)

ApplyProvider(w) ==
    /\ at[w] = "provider"
    /\ provider' \in BOOLEAN
    /\ End(w)
    /\ UNCHANGED <<members, sess, keys, accounts, counters, calls, faults, history>>

-----------------------------------------------------------------------------

Request(w, c) ==
    \/ \E u \in Users : RemoveMember(w, c, u)
    \/ \E u \in Users, role \in Roles : ChangeMemberRole(w, c, u, role)
    \/ \E role \in Roles, o \in Users \cup Accounts \cup {Nobody} : CreateAdminKey(w, c, role, o)
    \/ \E k \in Keys : RevokeAdminKey(w, c, k)
    \/ \E a \in Accounts : DeleteServiceAccount(w, c, a)
    \/ CreateServiceAccount(w, c) \/ ChangeProvider(w, c)

Step(w) ==
    \/ WrongPassword(w) \/ FindRecoveryCode(w) \/ SpendRecoveryCode(w)
    \/ RightTotp(w) \/ WrongTotp(w) \/ ResetCounters(w) \/ ReadRole(w) \/ InsertSession(w)
    \/ OidcRefused(w) \/ PickMember(w)
    \/ CheckChange(w) \/ ApplyChange(w)
    \/ CheckRemove(w) \/ RevokeOfMember(w) \/ CommitRemove(w)
    \/ InsertKey(w) \/ InsertKeyRefused(w) \/ ApplyRevoke(w) \/ InsertServiceAccount(w)
    \/ RevokeOfAccount(w) \/ CommitDelete(w) \/ ApplyProvider(w)

Next ==
    \/ \E w \in Workers :
         \/ \E u \in Users : Signin(w, u)
         \/ OidcCallback(w)
         \/ \E c \in Credentials : Request(w, c)
         \/ Step(w)
    \/ \E s \in Sessions : Signout(s)
    \/ \E u \in Users : LockEnds(u)

Spec == Init /\ [][Next]_vars

-----------------------------------------------------------------------------
(* Properties                                                              *)

\* A change of a role or a removal takes the last owner only if somebody else
\* changed who the owners are after it had loaded the members, so that the
\* owners it counted are not the owners there are: no other sequence of changes
\* and removals, overlapping or not, leaves the account without one
\* (change_member_role, remove_member; they load and write without a lock).
LastOwnerOvertaken ==
    Owners # {} /\ Owners' = {} => \E w \in stale : at[w] \in Loaded /\ at'[w] = "idle"

OwnerRemains == [][LastOwnerOvertaken]_vars

\* Whatever admins and viewers do, in any number of steps (keys they create,
\* roles they give, members they remove), the owners are who they were and no
\* key speaks for one, until some request was authenticated as Owner.
OnlyOwnersMakeOwners ==
    ~ownerActed =>
        /\ \A u \in Users : members[u] = Owner <=> InitMembers[u] = Owner
        /\ \A k \in Keys : KeyRole(k) < Owner

\* A recovery code lets in one sign-in; only sign-ins of the user at the same
\* time, which both find it unused, can share it.
CodeSpentOnce == \A u \in Users \ crossed : spent[u] <= 1

\* Wrong codes add up over any number of sign-ins: after three of them there is
\* no fourth one until the lock ends, unless sign-ins of the user overlapped
\* (each stores the count it read, plus one) or the statement failed.
ThreeGuesses == \A u \in Users \ crossed : wrong[u] <= LockAfter

\* A member that was removed, and a service account that was deleted, is not
\* spoken for by any credential, a session that a sign-in under way inserts
\* afterwards included.  The exception is a key that was created once the
\* removal had revoked the keys it saw: create_admin_key does not look.
RemovedStaysOut ==
    \A c \in Credentials :
        RoleOf(c) # NoRole =>
            \/ c[1] = "cookie" /\ UserOf(c) \notin gone
            \/ c[1] = "key" /\ (keys[c[2]].late \/ {UserOf(c), keys[c[2]].account} \cap gone = {})
=============================================================================
