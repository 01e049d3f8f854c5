------------------------------ MODULE Identity ------------------------------
(***************************************************************************)
(* End users of one project: accounts with a password and their reset      *)
(* (rest/sign_up.rs, sign_in_with_password.rs, reset_password.rs), Google  *)
(* and anonymous sign-in (sign_in_with_idp.rs, sign_in_anonymously.rs),    *)
(* the signing keys behind them (admin/handlers/hosted_identity.rs,        *)
(* oauth_providers.rs, anonymous_identity.rs, client_identity.rs) and the  *)
(* verification of a token by a request (grpc/handler.rs).                 *)
(*                                                                         *)
(* Tables in the system database and in the customer's are read and        *)
(* written statement by statement; every statement is a step.  The API key *)
(* of the project is checked first, in the module Tenancy.                 *)
(***************************************************************************)
EXTENDS Naturals, FiniteSets

CONSTANTS
    Emails,       \* addresses
    Passwords,    \* passwords that are strong enough
    Weak,         \* one that is not
    Uids,         \* fresh end_user_ids, by gen_random_uuid
    Generated,    \* fresh Ed25519 keys
    ClientKeys,   \* keys that the customer registers
    ClientIds,    \* OAuth client ids
    Subjects,     \* Google accounts
    GoogleKeys,   \* the sets of keys Google publishes one after the other are {g}
    ResetTokens,  \* fresh reset tokens
    None,         \* NULL
    Workers,      \* requests served at the same time
    TokenTTL,     \* TOKEN_TTL_SECS: how long a token is good, in ticks of the clock
    MaxCalls,     \* how many requests there are (a bound)
    MaxTime       \* how far the clock goes (a bound)

Sources == {"hosted", "oauth", "anonymous"}

ASSUME WeakAssumption == Weak \notin Passwords
ASSUME NoneAssumption ==
    None \notin Uids \cup Generated \cup ClientKeys \cup ClientIds \cup Passwords \cup GoogleKeys
ASSUME GoogleKeysAssumption == GoogleKeys # {}
ASSUME KeysAssumption == Generated \cap ClientKeys = {}
ASSUME CallsAssumption == MaxCalls \in Nat
ASSUME TimeAssumption == TokenTTL \in Nat /\ MaxTime \in Nat

VARIABLES
    credential,  \* client_identity_credentials: the current and the previous key
    signing,     \* hosted_identity_, oauth_ and anonymous_signing_keys: source -> key
    clientId,    \* oauth_provider_credentials
    accounts,    \* hosted_identity_accounts: email -> end_user_id and password
    resets,      \* hosted_identity_reset_tokens: token -> email and state
    google,      \* the key that Google signs with
    jwks,        \* GoogleJwksCache: the keys and whether they are fresh
    now,         \* Utc::now(), of the sign-ins and of the verification
    at,          \* per worker: the next step of its request
    call,        \* per worker: the locals of its request
    calls,       \* how many requests have started
    used,        \* uids and keys that were generated
    tokens,      \* history: the tokens that were handed out
    changed      \* history: how often a reset token has changed a password

tables == <<credential, signing, clientId, accounts, resets>>
outside == <<google, jwks, now>>
vars == <<tables, outside, at, call, calls, used, tokens, changed>>

NoAccount == [uid |-> None, password |-> None]
NoReset == [email |-> None, state |-> "none"]
NoCall == [email |-> None, password |-> None, key |-> None, sub |-> None, source |-> None,
           reset |-> None, signer |-> None, aud |-> None, keys |-> None]

Init ==
    /\ credential = [current |-> None, previous |-> None]
    /\ signing = [s \in Sources |-> None]
    /\ clientId = None
    /\ accounts = [e \in Emails |-> NoAccount]
    /\ resets = [t \in ResetTokens |-> NoReset]
    /\ google \in GoogleKeys
    /\ jwks = [key |-> None, fresh |-> FALSE]
    /\ now = 0
    /\ at = [w \in Workers |-> "idle"]
    /\ call = [w \in Workers |-> NoCall]
    /\ calls = 0 /\ used = {} /\ tokens = {}
    /\ changed = [t \in ResetTokens |-> 0]

Goto(w, step) == at' = [at EXCEPT ![w] = step]
End(w) == Goto(w, "idle") /\ call' = [call EXCEPT ![w] = NoCall]

Begin(w, step, locals) ==
    /\ at[w] = "idle" /\ calls < MaxCalls
    /\ calls' = calls + 1
    /\ Goto(w, step)
    /\ call' = [call EXCEPT ![w] = locals]

-----------------------------------------------------------------------------
(* Keys                                                                    *)

\* insert_client_identity_credential: a second registration is a conflict.
RegisterCredential(k) ==
    /\ credential.current = None
    /\ credential' = [credential EXCEPT !.current = k]
    /\ UNCHANGED <<signing, clientId, accounts, resets, outside, at, call, calls, used, tokens, changed>>

\* rotate_client_identity_credential: one statement.
RotateCredential(k) ==
    /\ credential.current # None
    /\ credential' = [current |-> k, previous |-> credential.current]
    /\ UNCHANGED <<signing, clientId, accounts, resets, outside, at, call, calls, used, tokens, changed>>

\* A key is generated before the tables are asked whether there is one.
Enable(w, source, key, id) ==
    /\ key \in Generated \ used
    /\ Begin(w, "enable", [NoCall EXCEPT !.source = source, !.key = key, !.aud = id])
    /\ used' = used \cup {key}
    /\ UNCHANGED <<tables, outside, tokens, changed>>

EnableHostedIdentity(w, key) == Enable(w, "hosted", key, None)
EnableAnonymousIdentity(w, key) == Enable(w, "anonymous", key, None)
RegisterGoogleOAuthProvider(w, key, id) == Enable(w, "oauth", key, id)

\* Mutant of StoredKey: the new key replaces the one there is.
StoredKeyReplaced(source, key) == key

\* ON CONFLICT (project_id) DO NOTHING
StoredKey(source, key) == IF signing[source] = None THEN key ELSE signing[source]

InsertSigningKey(w) ==
    /\ at[w] = "enable" /\ call[w].source # "oauth"
    /\ signing' = [signing EXCEPT ![call[w].source] = StoredKey(call[w].source, call[w].key)]
    /\ End(w)
    /\ UNCHANGED <<credential, clientId, accounts, resets, outside, calls, used, tokens, changed>>

\* The client id of an OAuth provider is redefined in the same transaction.
InsertOAuthProvider(w) ==
    /\ at[w] = "enable" /\ call[w].source = "oauth"
    /\ signing' = [signing EXCEPT !["oauth"] = StoredKey("oauth", call[w].key)]
    /\ clientId' = call[w].aud
    /\ End(w)
    /\ UNCHANGED <<credential, accounts, resets, outside, calls, used, tokens, changed>>

-----------------------------------------------------------------------------
(* Accounts with a password                                                *)

HostedIdentitySigningKey == signing["hosted"]

\* The API key is verified and the signing key is read first; without one
\* hosted identity is not enabled.
WithHostedKey(w, step, locals) ==
    /\ HostedIdentitySigningKey # None
    /\ Begin(w, step, [locals EXCEPT !.key = HostedIdentitySigningKey, !.source = "hosted"])
    /\ UNCHANGED <<tables, outside, used, tokens, changed>>

\* A weak password is refused before anything is written.
SignUp(w, e, p) ==
    /\ p # Weak
    /\ WithHostedKey(w, "insert", [NoCall EXCEPT !.email = e, !.password = p])

\* Mutant of MayInsert: an account that is there is overwritten.
MayInsertAlways(e) == TRUE

\* The primary key (project_id, email).
MayInsert(e) == accounts[e] = NoAccount

InsertAccount(w, uid) ==
    LET e == call[w].email IN
    /\ at[w] = "insert" /\ MayInsert(e)
    /\ uid \in Uids \ used
    /\ used' = used \cup {uid}
    /\ accounts' = [accounts EXCEPT ![e] = [uid |-> uid, password |-> call[w].password]]
    /\ call' = [call EXCEPT ![w].sub = uid]
    /\ Goto(w, "mint")
    /\ UNCHANGED <<credential, signing, clientId, resets, outside, calls, tokens, changed>>

EmailAlreadyInUse(w) ==
    /\ at[w] = "insert" /\ ~MayInsert(call[w].email)
    /\ End(w)
    /\ UNCHANGED <<tables, outside, calls, used, tokens, changed>>

SignInWithPassword(w, e, p) == WithHostedKey(w, "lookup", [NoCall EXCEPT !.email = e, !.password = p])

\* One answer for an unknown address and a wrong password.
LookupAccount(w) ==
    LET account == accounts[call[w].email] IN
    /\ at[w] = "lookup"
    /\ IF account.password # None /\ account.password = call[w].password
       THEN Goto(w, "mint") /\ call' = [call EXCEPT ![w].sub = account.uid]
       ELSE End(w)
    /\ UNCHANGED <<tables, outside, calls, used, tokens, changed>>

\* The aud of the tokens of this project.
Here == "here"

\* The seed is decrypted and a token for the user is signed with it.
Mint(w) ==
    /\ at[w] = "mint"
    /\ tokens' = tokens \cup {[sub |-> call[w].sub, aud |-> Here, exp |-> now + TokenTTL, key |-> call[w].key,
                               email |-> call[w].email, source |-> call[w].source]}
    /\ End(w)
    /\ UNCHANGED <<tables, outside, calls, used, changed>>

\* The seed cannot be decrypted (the request has the previous API key): the
\* account that was inserted stays.
MintFails(w) ==
    /\ at[w] = "mint"
    /\ End(w)
    /\ UNCHANGED <<tables, outside, calls, used, tokens, changed>>

SendOobCode(w, e) == WithHostedKey(w, "oob", [NoCall EXCEPT !.email = e])

\* A token for an account that exists; the answer is the same without one.
InsertResetToken(w) ==
    LET e == call[w].email IN
    /\ at[w] = "oob"
    /\ IF accounts[e] = NoAccount THEN resets' = resets
       ELSE \E t \in ResetTokens :
              /\ resets[t] = NoReset
              /\ resets' = [resets EXCEPT ![t] = [email |-> e, state |-> "live"]]
    /\ End(w)
    /\ UNCHANGED <<credential, signing, clientId, accounts, outside, calls, used, tokens, changed>>

ResetPassword(w, t, p) ==
    /\ Begin(w, "consume", [NoCall EXCEPT !.reset = t, !.password = p])
    /\ UNCHANGED <<tables, outside, used, tokens, changed>>

\* Mutant of Redeemable: a token that was used is found as well.
RedeemableAgain(t) == resets[t].state \in {"live", "used"}

\* used_at IS NULL AND expires_at > now()
Redeemable(t) == resets[t].state = "live"

\* The token is consumed in one statement; the password is looked at after.
ConsumeResetToken(w) ==
    LET t == call[w].reset IN
    /\ at[w] = "consume"
    /\ IF Redeemable(t)
       THEN /\ resets' = [resets EXCEPT ![t].state = "used"]
            /\ IF call[w].password = Weak THEN End(w)
               ELSE Goto(w, "update") /\ call' = [call EXCEPT ![w].email = resets[t].email]
       ELSE resets' = resets /\ End(w)
    /\ UNCHANGED <<credential, signing, clientId, accounts, outside, calls, used, tokens, changed>>

UpdatePassword(w) ==
    /\ at[w] = "update"
    /\ accounts' = [accounts EXCEPT ![call[w].email].password = call[w].password]
    /\ changed' = [changed EXCEPT ![call[w].reset] = @ + 1]
    /\ End(w)
    /\ UNCHANGED <<credential, signing, clientId, resets, outside, calls, used, tokens>>

\* An hour later.
ResetTokenExpires(t) ==
    /\ resets[t].state = "live"
    /\ resets' = [resets EXCEPT ![t].state = "expired"]
    /\ UNCHANGED <<credential, signing, clientId, accounts, outside, at, call, calls, used, tokens, changed>>

-----------------------------------------------------------------------------
(* Google and anonymous sign-in                                            *)

\* The registered client id is read; the ID token names a user, the key it was
\* signed with and an audience.
SignInWithIdp(w, sub, signer, aud) ==
    /\ clientId # None
    /\ Begin(w, "jwks", [NoCall EXCEPT !.sub = <<"google", sub>>, !.signer = signer,
                                       !.aud = IF aud = clientId THEN aud ELSE None])
    /\ UNCHANGED <<tables, outside, used, tokens, changed>>

\* GoogleJwksCache.get: a fresh set is used as it is.
UseCachedJwks(w) ==
    /\ at[w] = "jwks"
    /\ IF jwks.fresh THEN Goto(w, "verify") /\ call' = [call EXCEPT ![w].keys = jwks.key]
       ELSE Goto(w, "fetch") /\ call' = call
    /\ UNCHANGED <<tables, outside, calls, used, tokens, changed>>

FetchJwks(w) ==
    /\ at[w] = "fetch"
    /\ call' = [call EXCEPT ![w].keys = google]
    /\ Goto(w, "store")
    /\ UNCHANGED <<tables, outside, calls, used, tokens, changed>>

\* Google cannot be reached within five seconds.
FetchFails(w) ==
    /\ at[w] = "fetch"
    /\ End(w)
    /\ UNCHANGED <<tables, outside, calls, used, tokens, changed>>

StoreJwks(w) ==
    /\ at[w] = "store"
    /\ jwks' = [key |-> call[w].keys, fresh |-> TRUE]
    /\ Goto(w, "verify")
    /\ UNCHANGED <<tables, google, now, call, calls, used, tokens, changed>>

\* Six hours later.
JwksExpires ==
    /\ jwks.fresh
    /\ jwks' = [jwks EXCEPT !.fresh = FALSE]
    /\ UNCHANGED <<tables, google, now, at, call, calls, used, tokens, changed>>

\* Google signs with another key and publishes that one alone.
GoogleRotates ==
    /\ google' \in GoogleKeys \ {google}
    /\ UNCHANGED <<tables, jwks, now, at, call, calls, used, tokens, changed>>

OAuthSigningKey == signing["oauth"]

\* The signature and the audience; the signing key is read next.
VerifyGoogleToken(w) ==
    /\ at[w] = "verify"
    /\ IF call[w].signer = call[w].keys /\ call[w].aud # None
       THEN Goto(w, "mint") /\ call' = [call EXCEPT ![w].key = OAuthSigningKey, ![w].source = "oauth"]
       ELSE End(w)
    /\ UNCHANGED <<tables, outside, calls, used, tokens, changed>>

AnonymousSigningKey == signing["anonymous"]

SignInAnonymously(w, uid) ==
    /\ AnonymousSigningKey # None
    /\ uid \in Uids \ used
    /\ used' = used \cup {uid}
    /\ Begin(w, "mint", [NoCall EXCEPT !.sub = uid, !.key = AnonymousSigningKey, !.source = "anonymous"])
    /\ UNCHANGED <<tables, outside, tokens, changed>>

-----------------------------------------------------------------------------
(* A request with a token                                                  *)

\* get_client_identity_credential: the keys in the row, none without one.
GetClientIdentityCredential == {credential.current, credential.previous} \ {None}

\* verify_client_identity_token: signed with one of the keys, for this project,
\* and exp is not in the past (leeway 0).
VerifyToken(t, keys) == t.key \in keys /\ t.aud = Here /\ now <= t.exp

\* attach_client_identity_if_present: the customer's keys and then each signing
\* key of the project; a lookup that fails is like one without a row, and no
\* match is no end user, never an error.
Lookups == {"customer"} \cup Sources
Attach(t, answered) ==
    \/ "customer" \in answered /\ VerifyToken(t, GetClientIdentityCredential)
    \/ \E s \in Sources \cap answered : VerifyToken(t, {signing[s]} \ {None})

Tick ==
    /\ now < MaxTime
    /\ now' = now + 1
    /\ UNCHANGED <<tables, google, jwks, at, call, calls, used, tokens, changed>>

-----------------------------------------------------------------------------

Request(w) ==
    \/ \E k \in Generated :
         \/ EnableHostedIdentity(w, k) \/ EnableAnonymousIdentity(w, k)
         \/ \E id \in ClientIds : RegisterGoogleOAuthProvider(w, k, id)
    \/ \E e \in Emails, p \in Passwords : SignUp(w, e, p) \/ SignInWithPassword(w, e, p)
    \/ \E e \in Emails : SendOobCode(w, e)
    \/ \E t \in ResetTokens, p \in Passwords \cup {Weak} : ResetPassword(w, t, p)
    \/ \E s \in Subjects, g \in GoogleKeys, id \in ClientIds : SignInWithIdp(w, s, g, id)
    \/ \E uid \in Uids : SignInAnonymously(w, uid)

Step(w) ==
    \/ InsertSigningKey(w) \/ InsertOAuthProvider(w)
    \/ \E uid \in Uids : InsertAccount(w, uid)
    \/ EmailAlreadyInUse(w) \/ LookupAccount(w) \/ Mint(w) \/ MintFails(w)
    \/ InsertResetToken(w) \/ ConsumeResetToken(w) \/ UpdatePassword(w)
    \/ UseCachedJwks(w) \/ FetchJwks(w) \/ FetchFails(w) \/ StoreJwks(w) \/ VerifyGoogleToken(w)

Next ==
    \/ \E w \in Workers : Request(w) \/ Step(w)
    \/ \E k \in ClientKeys : RegisterCredential(k) \/ RotateCredential(k)
    \/ \E t \in ResetTokens : ResetTokenExpires(t)
    \/ JwksExpires \/ GoogleRotates \/ Tick

Spec == Init /\ [][Next]_vars

-----------------------------------------------------------------------------
(* Properties                                                              *)

\* Every token that a sign-in handed out identifies its user to the requests of
\* the next hour, and to none after it, however often and in whatever overlap
\* identity sources are enabled, providers redefined and keys rotated between
\* reading a key and signing.  What it takes is that the key of the source that
\* signed it can be read: no other key of the project ever accepts it, so an error
\* of another lookup makes no difference.
MintedTokensVerify ==
    \A t \in tokens, answered \in SUBSET Lookups :
        Attach(t, answered) <=> t.source \in answered /\ now <= t.exp

\* An address has one end user for good: sign-ups at the same time, sign-ins and
\* resets never hand out tokens for two users of the same address.
OneSubjectPerEmail == \A s, t \in tokens : s.email = t.email /\ s.email # None => s.sub = t.sub

\* A reset token changes a password once at most, even when it is presented
\* several times at once.
ResetOnce == \A t \in ResetTokens : changed[t] <= 1
=============================================================================
