--------------------------- MODULE IdentityProofs ---------------------------
(***************************************************************************)
(* Proofs about Identity, for any number of addresses, keys, reset tokens  *)
(* and requests served at the same time.                                   *)
(***************************************************************************)
EXTENDS Identity, TLAPS

Steps == {"idle", "enable", "insert", "lookup", "mint", "oob", "consume", "update",
          "jwks", "fetch", "store", "verify"}

Subs == Uids \cup {None} \cup ({"google"} \X Subjects)

Locals == [email : Emails \cup {None}, password : Passwords \cup {Weak, None},
           key : Generated \cup {None}, sub : Subs, source : Sources \cup {None},
           reset : ResetTokens \cup {None}, signer : GoogleKeys \cup {None},
           aud : ClientIds \cup {None}, keys : GoogleKeys \cup {None}]

Account == [uid : Uids \cup {None}, password : Passwords \cup {None}]

Reset == [email : Emails \cup {None}, state : {"none", "live", "used", "expired"}]

Token == [sub : Subs, aud : {Here}, exp : Nat, key : Generated \cup {None},
          email : Emails \cup {None}, source : Sources \cup {None}]

\* What the tables, the requests and the handed-out tokens are made of.
TypeOK ==
    /\ credential \in [current : ClientKeys \cup {None}, previous : ClientKeys \cup {None}]
    /\ signing \in [Sources -> Generated \cup {None}]
    /\ clientId \in ClientIds \cup {None}
    /\ accounts \in [Emails -> Account]
    /\ resets \in [ResetTokens -> Reset]
    /\ google \in GoogleKeys
    /\ jwks \in [key : GoogleKeys \cup {None}, fresh : BOOLEAN]
    /\ now \in Nat
    /\ at \in [Workers -> Steps]
    /\ call \in [Workers -> Locals]
    /\ calls \in Nat
    /\ tokens \subseteq Token
    /\ changed \in [ResetTokens -> Nat]

\* What a request holds at each of its steps, as the steps before left it.
Carries(w) ==
    /\ at[w] = "enable" => /\ call[w].key \in Generated /\ call[w].source \in Sources
                           /\ call[w].source = "oauth" => call[w].aud \in ClientIds
    /\ at[w] \in {"insert", "lookup", "oob"} => call[w].email \in Emails
    /\ at[w] = "insert" => call[w].password \in Passwords
    /\ at[w] = "consume" => call[w].password \in Passwords \cup {Weak}
    /\ at[w] \in {"consume", "update"} => call[w].reset \in ResetTokens
    /\ at[w] = "update" => call[w].password \in Passwords /\ call[w].email \in Emails
    /\ at[w] \in {"jwks", "fetch", "store", "verify"} => call[w].email = None

\* A reset token that was sent names the address it was sent to.
SentToAnAddress == \A t \in ResetTokens : resets[t].state # "none" => resets[t].email \in Emails

RequestInv == TypeOK /\ SentToAnAddress /\ \A w \in Workers : Carries(w)

-----------------------------------------------------------------------------
(* Facts about requests                                                    *)

\* The locals of an idle worker are locals.
LEMMA NoCallType == NoCall \in Locals
BY DEF NoCall, Locals, Subs

\* A request begins or goes on with locals of its own and leaves the others alone.
LEMMA Others ==
  ASSUME RequestInv, NEW w \in Workers, NEW s \in Steps, NEW l \in Locals,
         at' = [at EXCEPT ![w] = s], call' = [call EXCEPT ![w] = l]
  PROVE  /\ at' \in [Workers -> Steps] /\ call' \in [Workers -> Locals]
         /\ at'[w] = s /\ call'[w] = l
         /\ \A v \in Workers \ {w} : at'[v] = at[v] /\ call'[v] = call[v] /\ Carries(v)'
BY DEF RequestInv, TypeOK, Carries

\* A request that ends leaves its worker idle and the other requests alone.
LEMMA EndRequest ==
  ASSUME RequestInv, NEW w \in Workers, End(w)
  PROVE  /\ at' \in [Workers -> Steps] /\ call' \in [Workers -> Locals]
         /\ at'[w] = "idle" /\ call'[w] = NoCall
         /\ \A v \in Workers \ {w} : at'[v] = at[v] /\ call'[v] = call[v]
         /\ \A v \in Workers : Carries(v)'
<1>1. /\ at' = [at EXCEPT ![w] = "idle"] /\ call' = [call EXCEPT ![w] = NoCall]
      /\ "idle" \in Steps /\ NoCall \in Locals
  BY NoCallType DEF End, Goto, Steps
<1>2. Carries(w)'
  BY <1>1, Others DEF Carries
<1> QED
  BY <1>1, <1>2, Others

\* A request that begins takes an idle worker.
LEMMA BeginRequest ==
  ASSUME RequestInv, NEW w \in Workers, NEW s \in Steps, NEW l \in Locals, Begin(w, s, l)
  PROVE  /\ at' \in [Workers -> Steps] /\ call' \in [Workers -> Locals]
         /\ at[w] = "idle" /\ at'[w] = s /\ call'[w] = l
         /\ calls' \in Nat
         /\ \A v \in Workers \ {w} : at'[v] = at[v] /\ call'[v] = call[v] /\ Carries(v)'
<1>1. at' = [at EXCEPT ![w] = s] /\ call' = [call EXCEPT ![w] = l] /\ at[w] = "idle"
  BY DEF Begin, Goto
<1>2. calls' \in Nat
  BY DEF Begin, RequestInv, TypeOK
<1> QED
  BY <1>1, <1>2, Others

\* Beginning a request that reads the hosted signing key.
LEMMA HostedRequest ==
  ASSUME RequestInv, NEW w \in Workers, NEW s \in {"insert", "lookup", "oob"},
         NEW m \in Locals, m.email \in Emails, s = "insert" => m.password \in Passwords,
         WithHostedKey(w, s, m)
  PROVE  /\ RequestInv'
         /\ at'[w] = s
         /\ call'[w].key = signing["hosted"] /\ signing["hosted"] # None
         /\ call'[w].email = m.email
         /\ \A v \in Workers \ {w} : at'[v] = at[v] /\ call'[v] = call[v]
         /\ UNCHANGED <<tables, outside, used, tokens, changed>>
<1> DEFINE l == [m EXCEPT !.key = HostedIdentitySigningKey, !.source = "hosted"]
<1>1. signing["hosted"] \in Generated
  BY DEF WithHostedKey, HostedIdentitySigningKey, RequestInv, TypeOK, Sources
<1>2. /\ l \in Locals /\ l.key = signing["hosted"] /\ l.email = m.email
      /\ l.password = m.password
  BY <1>1 DEF Locals, Sources, HostedIdentitySigningKey
<1>3. Begin(w, s, l) /\ s \in Steps /\ UNCHANGED <<tables, outside, used, tokens, changed>>
  BY DEF WithHostedKey, Steps
<1> HIDE DEF l
<1>4. Carries(w)'
  BY <1>2, <1>3, BeginRequest DEF Carries
<1>5. \A v \in Workers : Carries(v)'
  BY <1>2, <1>3, <1>4, BeginRequest
<1> QED
  BY <1>1, <1>2, <1>3, <1>5, BeginRequest, NoneAssumption
     DEF RequestInv, TypeOK, SentToAnAddress, tables, outside

-----------------------------------------------------------------------------
(* Every request carries what its next statement needs: RequestInv is      *)
(* inductive.                                                              *)

\* Initially no request runs.
LEMMA RequestInit == Init => RequestInv
<1> SUFFICES ASSUME Init PROVE RequestInv
  OBVIOUS
<1>1. NoAccount \in Account /\ NoReset \in Reset /\ "idle" \in Steps
  BY DEF NoAccount, Account, NoReset, Reset, Steps
<1>2. TypeOK
  BY <1>1, NoCallType DEF Init, TypeOK
<1>3. SentToAnAddress
  BY DEF Init, SentToAnAddress, NoReset
<1>4. \A w \in Workers : Carries(w)
  BY DEF Init, Carries
<1> QED
  BY <1>2, <1>3, <1>4 DEF RequestInv

\* Every request begins with locals that fit its first statement.
LEMMA RequestBegins ==
  ASSUME RequestInv, NEW w \in Workers, Request(w)
  PROVE  RequestInv'
<1>1. ASSUME NEW source \in Sources, NEW k \in Generated, NEW id \in ClientIds \cup {None},
             source = "oauth" => id \in ClientIds, Enable(w, source, k, id)
      PROVE  RequestInv'
  <2> DEFINE l == [NoCall EXCEPT !.source = source, !.key = k, !.aud = id]
  <2>1. l \in Locals /\ l.source = source /\ l.key = k /\ l.aud = id
    BY <1>1 DEF Locals, NoCall, Subs
  <2>2. Begin(w, "enable", l) /\ "enable" \in Steps
    BY <1>1 DEF Enable, Steps
  <2> HIDE DEF l
  <2>3. Carries(w)'
    BY <1>1, <2>1, <2>2, BeginRequest DEF Carries
  <2>4. \A v \in Workers : Carries(v)'
    BY <2>1, <2>2, <2>3, BeginRequest
  <2> QED
    BY <1>1, <2>1, <2>2, <2>4, BeginRequest
       DEF RequestInv, TypeOK, SentToAnAddress, Enable, tables, outside
<1>2. ASSUME NEW k \in Generated, EnableHostedIdentity(w, k) \/ EnableAnonymousIdentity(w, k)
      PROVE  RequestInv'
  BY <1>1, <1>2 DEF EnableHostedIdentity, EnableAnonymousIdentity, Sources
<1>3. ASSUME NEW k \in Generated, NEW id \in ClientIds, RegisterGoogleOAuthProvider(w, k, id)
      PROVE  RequestInv'
  BY <1>1, <1>3 DEF RegisterGoogleOAuthProvider, Sources
<1>4. ASSUME NEW e \in Emails, NEW p \in Passwords, SignUp(w, e, p) \/ SignInWithPassword(w, e, p)
      PROVE  RequestInv'
  <2> DEFINE m == [NoCall EXCEPT !.email = e, !.password = p]
  <2>1. m \in Locals /\ m.email = e /\ m.password = p
    BY DEF Locals, NoCall, Subs
  <2>2. WithHostedKey(w, "insert", m) \/ WithHostedKey(w, "lookup", m)
    BY <1>4 DEF SignUp, SignInWithPassword
  <2> QED
    BY <2>1, <2>2, HostedRequest
<1>5. ASSUME NEW e \in Emails, SendOobCode(w, e)
      PROVE  RequestInv'
  <2> DEFINE m == [NoCall EXCEPT !.email = e]
  <2>1. m \in Locals /\ m.email = e
    BY DEF Locals, NoCall, Subs
  <2> QED
    BY <1>5, <2>1, HostedRequest DEF SendOobCode
<1>6. ASSUME NEW t \in ResetTokens, NEW p \in Passwords \cup {Weak}, ResetPassword(w, t, p)
      PROVE  RequestInv'
  <2> DEFINE l == [NoCall EXCEPT !.reset = t, !.password = p]
  <2>1. l \in Locals /\ l.reset = t /\ l.password = p
    BY DEF Locals, NoCall, Subs
  <2>2. Begin(w, "consume", l) /\ "consume" \in Steps
    BY <1>6 DEF ResetPassword, Steps
  <2> HIDE DEF l
  <2>3. Carries(w)'
    BY <2>1, <2>2, BeginRequest DEF Carries
  <2>4. \A v \in Workers : Carries(v)'
    BY <2>1, <2>2, <2>3, BeginRequest
  <2> QED
    BY <1>6, <2>1, <2>2, <2>4, BeginRequest
       DEF RequestInv, TypeOK, SentToAnAddress, ResetPassword, tables, outside
<1>7. ASSUME NEW s \in Subjects, NEW g \in GoogleKeys, NEW id \in ClientIds, SignInWithIdp(w, s, g, id)
      PROVE  RequestInv'
  <2> DEFINE l == [NoCall EXCEPT !.sub = <<"google", s>>, !.signer = g,
                                 !.aud = IF id = clientId THEN id ELSE None]
  <2>1. l \in Locals /\ l.email = None
    BY DEF Locals, NoCall, Subs
  <2>2. Begin(w, "jwks", l) /\ "jwks" \in Steps
    BY <1>7 DEF SignInWithIdp, Steps
  <2> HIDE DEF l
  <2>3. Carries(w)'
    BY <2>1, <2>2, BeginRequest DEF Carries
  <2>4. \A v \in Workers : Carries(v)'
    BY <2>1, <2>2, <2>3, BeginRequest
  <2> QED
    BY <1>7, <2>1, <2>2, <2>4, BeginRequest
       DEF RequestInv, TypeOK, SentToAnAddress, SignInWithIdp, tables, outside
<1>8. ASSUME NEW uid \in Uids, SignInAnonymously(w, uid)
      PROVE  RequestInv'
  <2> DEFINE l == [NoCall EXCEPT !.sub = uid, !.key = AnonymousSigningKey, !.source = "anonymous"]
  <2>1. l \in Locals /\ l.email = None
    BY DEF Locals, NoCall, Subs, AnonymousSigningKey, RequestInv, TypeOK, Sources
  <2>2. Begin(w, "mint", l) /\ "mint" \in Steps
    BY <1>8 DEF SignInAnonymously, Steps
  <2> HIDE DEF l
  <2>3. Carries(w)'
    BY <2>1, <2>2, BeginRequest DEF Carries
  <2>4. \A v \in Workers : Carries(v)'
    BY <2>1, <2>2, <2>3, BeginRequest
  <2> QED
    BY <1>8, <2>1, <2>2, <2>4, BeginRequest
       DEF RequestInv, TypeOK, SentToAnAddress, SignInAnonymously, tables, outside
<1> QED
  BY <1>2, <1>3, <1>4, <1>5, <1>6, <1>7, <1>8 DEF Request

\* Every statement of a request leaves a request that fits its next one.
LEMMA RequestSteps ==
  ASSUME RequestInv, NEW w \in Workers, Step(w)
  PROVE  RequestInv'
<1> USE DEF RequestInv
<1>1. CASE InsertSigningKey(w)
  BY <1>1, EndRequest
     DEF InsertSigningKey, TypeOK, SentToAnAddress, Carries, StoredKey, outside
<1>2. CASE InsertOAuthProvider(w)
  BY <1>2, EndRequest
     DEF InsertOAuthProvider, TypeOK, SentToAnAddress, Carries, StoredKey, outside
<1>3. ASSUME NEW uid \in Uids, InsertAccount(w, uid)
      PROVE  RequestInv'
  <2> DEFINE l == [call[w] EXCEPT !.sub = uid]
  <2>1. /\ l \in Locals /\ "mint" \in Steps
        /\ at' = [at EXCEPT ![w] = "mint"] /\ call' = [call EXCEPT ![w] = l]
    <3>1. at \in [Workers -> Steps] /\ call \in [Workers -> Locals]
      BY DEF TypeOK
    <3>2. l \in Locals
      BY <3>1 DEF Locals, Subs
    <3> QED
      BY <1>3, <3>1, <3>2 DEF InsertAccount, Goto, Steps
  <2> HIDE DEF l
  <2>2. [uid |-> uid, password |-> call[w].password] \in Account
    BY <1>3 DEF InsertAccount, Carries, Account
  <2>3. accounts' \in [Emails -> Account]
    BY <1>3, <2>2 DEF InsertAccount, TypeOK, Carries
  <2>4. \A v \in Workers : Carries(v)'
    BY <2>1, Others DEF Carries
  <2> QED
    BY <1>3, <2>1, <2>3, <2>4, Others DEF InsertAccount, TypeOK, SentToAnAddress, outside
<1>4. CASE EmailAlreadyInUse(w) \/ MintFails(w) \/ FetchFails(w)
  BY <1>4, EndRequest
     DEF EmailAlreadyInUse, MintFails, FetchFails, TypeOK, SentToAnAddress, tables, outside
<1>5. CASE LookupAccount(w)
  <2>1. CASE End(w)
    BY <1>5, <2>1, EndRequest DEF LookupAccount, TypeOK, SentToAnAddress, tables, outside
  <2>2. CASE ~End(w)
    <3> DEFINE l == [call[w] EXCEPT !.sub = accounts[call[w].email].uid]
    <3>1. accounts[call[w].email].uid \in Subs
      BY <1>5 DEF LookupAccount, TypeOK, Carries, Account, Subs
    <3>2. /\ l \in Locals /\ "mint" \in Steps
          /\ at' = [at EXCEPT ![w] = "mint"] /\ call' = [call EXCEPT ![w] = l]
      <4>1. call[w] \in Locals
        BY DEF TypeOK
      <4>2. l \in Locals
        BY <3>1, <4>1 DEF Locals
      <4>3. at' = [at EXCEPT ![w] = "mint"] /\ call' = [call EXCEPT ![w] = l]
        BY <1>5, <2>2 DEF LookupAccount, Goto
      <4> QED
        BY <4>2, <4>3 DEF Steps
    <3> HIDE DEF l
    <3>3. \A v \in Workers : Carries(v)'
      BY <3>2, Others DEF Carries
    <3> QED
      BY <1>5, <3>2, <3>3, Others DEF LookupAccount, TypeOK, SentToAnAddress, tables, outside
  <2> QED
    BY <2>1, <2>2
<1>6. CASE Mint(w)
  <2>1. [sub |-> call[w].sub, aud |-> Here, exp |-> now + TokenTTL, key |-> call[w].key,
         email |-> call[w].email, source |-> call[w].source] \in Token
    BY TimeAssumption DEF TypeOK, Locals, Token
  <2> QED
    BY <1>6, <2>1, EndRequest DEF Mint, TypeOK, SentToAnAddress, tables, outside
<1>7. CASE InsertResetToken(w)
  <2>1. call[w].email \in Emails
    BY <1>7 DEF InsertResetToken, Carries
  <2>2. /\ resets' \in [ResetTokens -> Reset]
        /\ \A t \in ResetTokens : resets'[t].state # "none" => resets'[t].email \in Emails
    <3>1. CASE accounts[call[w].email] = NoAccount
      BY <1>7, <3>1 DEF InsertResetToken, TypeOK, SentToAnAddress
    <3>2. CASE accounts[call[w].email] # NoAccount
      <4>1. PICK t \in ResetTokens :
              resets' = [resets EXCEPT ![t] = [email |-> call[w].email, state |-> "live"]]
        BY <1>7, <3>2 DEF InsertResetToken
      <4> QED
        BY <2>1, <4>1 DEF TypeOK, SentToAnAddress, Reset
    <3> QED
      BY <3>1, <3>2
  <2> QED
    BY <1>7, <2>2, EndRequest DEF InsertResetToken, TypeOK, SentToAnAddress, outside
<1>8. CASE ConsumeResetToken(w)
  <2> DEFINE t == call[w].reset
  <2>1. t \in ResetTokens
    BY <1>8 DEF ConsumeResetToken, Carries
  <2>2. /\ resets' \in [ResetTokens -> Reset]
        /\ SentToAnAddress'
    <3>1. resets \in [ResetTokens -> Reset]
      BY DEF TypeOK
    <3>2. resets' = resets \/ (Redeemable(t) /\ resets' = [resets EXCEPT ![t].state = "used"])
      BY <1>8 DEF ConsumeResetToken
    <3> QED
      BY <2>1, <3>1, <3>2 DEF Redeemable, SentToAnAddress, Reset
  <2>3. CASE End(w)
    BY <1>8, <2>2, <2>3, EndRequest DEF ConsumeResetToken, TypeOK, outside
  <2>4. CASE ~End(w)
    <3> DEFINE l == [call[w] EXCEPT !.email = resets[t].email]
    <3>1. /\ resets[t].email \in Emails /\ call[w].password # Weak
          /\ at' = [at EXCEPT ![w] = "update"] /\ call' = [call EXCEPT ![w] = l]
      BY <1>8, <2>1, <2>4 DEF ConsumeResetToken, Redeemable, Goto, TypeOK, SentToAnAddress
    <3>2. call[w].password \in Passwords
      BY <1>8, <3>1 DEF ConsumeResetToken, Carries
    <3>3. call[w] \in Locals
      BY DEF TypeOK
    <3>4. /\ l \in Locals /\ "update" \in Steps
          /\ l.reset = t /\ l.email \in Emails /\ l.password = call[w].password
      BY <3>1, <3>3 DEF Locals, Steps
    <3> HIDE DEF l
    <3>5. \A v \in Workers : Carries(v)'
      BY <2>1, <3>1, <3>2, <3>4, Others DEF Carries
    <3> QED
      BY <1>8, <2>2, <3>1, <3>4, <3>5, Others DEF ConsumeResetToken, TypeOK, outside
  <2> QED
    BY <2>3, <2>4
<1>9. CASE UpdatePassword(w)
  <2>1. /\ call[w].email \in Emails /\ call[w].password \in Passwords
        /\ call[w].reset \in ResetTokens
    BY <1>9 DEF UpdatePassword, Carries
  <2>2. accounts' \in [Emails -> Account] /\ changed' \in [ResetTokens -> Nat]
    BY <1>9, <2>1 DEF UpdatePassword, TypeOK, Account
  <2> QED
    BY <1>9, <2>2, EndRequest DEF UpdatePassword, TypeOK, SentToAnAddress, outside
<1>10. ASSUME NEW s \in Steps, NEW l \in Locals, l.email = call[w].email,
              at[w] \in {"jwks", "fetch", "store", "verify"}, s \in {"fetch", "store", "verify", "mint"},
              at' = [at EXCEPT ![w] = s], call' = [call EXCEPT ![w] = l]
       PROVE  /\ at' \in [Workers -> Steps] /\ call' \in [Workers -> Locals]
              /\ \A v \in Workers : Carries(v)'
  <2>1. l.email = None
    BY <1>10 DEF Carries
  <2>2. Carries(w)'
    BY <1>10, <2>1, Others DEF Carries
  <2> QED
    BY <1>10, <2>2, Others
<1>11. call[w] = [call[w] EXCEPT !.keys = call[w].keys] /\ call[w] \in Locals
  BY DEF TypeOK, Locals
<1>12. CASE UseCachedJwks(w)
  <2> DEFINE l == [call[w] EXCEPT !.keys = jwks.key]
  <2>1. l \in Locals /\ l.email = call[w].email
    BY <1>11 DEF Locals, TypeOK
  <2>2. \/ at' = [at EXCEPT ![w] = "verify"] /\ call' = [call EXCEPT ![w] = l]
        \/ at' = [at EXCEPT ![w] = "fetch"] /\ call' = [call EXCEPT ![w] = call[w]]
    BY <1>12 DEF UseCachedJwks, Goto, TypeOK
  <2> HIDE DEF l
  <2>3. {"verify", "fetch"} \subseteq Steps
    BY DEF Steps
  <2>4. /\ at' \in [Workers -> Steps] /\ call' \in [Workers -> Locals]
        /\ \A v \in Workers : Carries(v)'
    BY <1>10, <1>11, <1>12, <2>1, <2>2, <2>3 DEF UseCachedJwks
  <2> QED
    BY <1>12, <2>4 DEF UseCachedJwks, TypeOK, SentToAnAddress, tables, outside
<1>13. CASE FetchJwks(w)
  <2> DEFINE l == [call[w] EXCEPT !.keys = google]
  <2>1. l \in Locals /\ l.email = call[w].email /\ "store" \in Steps
    BY <1>11 DEF Locals, TypeOK, Steps
  <2>2. at' = [at EXCEPT ![w] = "store"] /\ call' = [call EXCEPT ![w] = l]
    BY <1>13 DEF FetchJwks, Goto
  <2> HIDE DEF l
  <2>3. /\ at' \in [Workers -> Steps] /\ call' \in [Workers -> Locals]
        /\ \A v \in Workers : Carries(v)'
    BY <1>10, <1>13, <2>1, <2>2 DEF FetchJwks
  <2> QED
    BY <1>13, <2>3 DEF FetchJwks, TypeOK, SentToAnAddress, tables, outside
<1>14. CASE StoreJwks(w)
  <2>1. jwks' \in [key : GoogleKeys \cup {None}, fresh : BOOLEAN] /\ "verify" \in Steps
    BY <1>11, <1>14 DEF StoreJwks, Locals, Steps
  <2>2. at' = [at EXCEPT ![w] = "verify"] /\ call' = [call EXCEPT ![w] = call[w]]
    BY <1>14 DEF StoreJwks, Goto, TypeOK
  <2>3. /\ at' \in [Workers -> Steps] /\ call' \in [Workers -> Locals]
        /\ \A v \in Workers : Carries(v)'
    BY <1>10, <1>11, <1>14, <2>1, <2>2 DEF StoreJwks
  <2> QED
    BY <1>14, <2>1, <2>3 DEF StoreJwks, TypeOK, SentToAnAddress, tables
<1>15. CASE VerifyGoogleToken(w)
  <2>1. CASE End(w)
    BY <1>15, <2>1, EndRequest DEF VerifyGoogleToken, TypeOK, SentToAnAddress, tables, outside
  <2>2. CASE ~End(w)
    <3> DEFINE l == [call[w] EXCEPT !.key = OAuthSigningKey]
    <3>1. l \in Locals /\ l.email = call[w].email /\ "mint" \in Steps
      BY <1>11 DEF Locals, TypeOK, Steps, OAuthSigningKey, Sources
    <3>2. at' = [at EXCEPT ![w] = "mint"] /\ call' = [call EXCEPT ![w] = l]
      BY <1>15, <2>2 DEF VerifyGoogleToken, Goto
    <3> HIDE DEF l
    <3>3. /\ at' \in [Workers -> Steps] /\ call' \in [Workers -> Locals]
          /\ \A v \in Workers : Carries(v)'
      BY <1>10, <1>15, <3>1, <3>2 DEF VerifyGoogleToken
    <3> QED
      BY <1>15, <3>3 DEF VerifyGoogleToken, TypeOK, SentToAnAddress, tables, outside
  <2> QED
    BY <2>1, <2>2
<1> QED
  BY <1>1, <1>2, <1>3, <1>4, <1>5, <1>6, <1>7, <1>8, <1>9, <1>12, <1>13, <1>14, <1>15 DEF Step

\* The steps of the customer, of Google and of the clocks.
LEMMA RequestOutside ==
  ASSUME RequestInv,
         \/ \E k \in ClientKeys : RegisterCredential(k) \/ RotateCredential(k)
         \/ \E t \in ResetTokens : ResetTokenExpires(t)
         \/ JwksExpires \/ GoogleRotates \/ Tick \/ UNCHANGED vars
  PROVE  RequestInv'
<1>1. ASSUME UNCHANGED <<at, call>>
      PROVE  \A v \in Workers : Carries(v)'
  BY <1>1 DEF RequestInv, Carries
<1>2. ASSUME NEW k \in ClientKeys, RegisterCredential(k) \/ RotateCredential(k)
      PROVE  RequestInv'
  BY <1>1, <1>2
     DEF RegisterCredential, RotateCredential, RequestInv, TypeOK, SentToAnAddress, outside
<1>3. ASSUME NEW t \in ResetTokens, ResetTokenExpires(t)
      PROVE  RequestInv'
  BY <1>1, <1>3 DEF ResetTokenExpires, RequestInv, TypeOK, SentToAnAddress, Reset, outside
<1>4. CASE JwksExpires \/ GoogleRotates \/ Tick
  <2>1. UNCHANGED <<tables, at, call, calls, tokens, changed>>
    BY <1>4 DEF JwksExpires, GoogleRotates, Tick
  <2>2. google' \in GoogleKeys /\ jwks' \in [key : GoogleKeys \cup {None}, fresh : BOOLEAN] /\ now' \in Nat
    <3>1. google \in GoogleKeys /\ jwks \in [key : GoogleKeys \cup {None}, fresh : BOOLEAN] /\ now \in Nat
      BY DEF RequestInv, TypeOK
    <3>2. CASE JwksExpires
      BY <3>1, <3>2 DEF JwksExpires
    <3>3. CASE GoogleRotates
      BY <3>1, <3>3 DEF GoogleRotates
    <3>4. CASE Tick
      BY <3>1, <3>4 DEF Tick
    <3> QED
      BY <1>4, <3>2, <3>3, <3>4
  <2> QED
    BY <1>1, <2>1, <2>2 DEF RequestInv, TypeOK, SentToAnAddress, tables
<1>5. CASE UNCHANGED vars
  BY <1>1, <1>5 DEF vars, RequestInv, TypeOK, SentToAnAddress, tables, outside
<1> QED
  BY <1>2, <1>3, <1>4, <1>5

\* The same of every step.
LEMMA RequestStep == RequestInv /\ [Next]_vars => RequestInv'
BY RequestBegins, RequestSteps, RequestOutside DEF Next

\* Requests are sound in every behaviour.
LEMMA RequestsSound == Spec => []RequestInv
BY RequestInit, RequestStep, PTL DEF Spec

-----------------------------------------------------------------------------
(* What steps leave alone                                                  *)

\* Beginning a request writes no row and hands out nothing.
LEMMA BeginsWriteNothing ==
  ASSUME NEW w \in Workers, Request(w)
  PROVE  UNCHANGED <<tables, tokens, changed>>
BY DEF Request, EnableHostedIdentity, EnableAnonymousIdentity, RegisterGoogleOAuthProvider, Enable,
       SignUp, SignInWithPassword, SendOobCode, WithHostedKey, ResetPassword, SignInWithIdp,
       SignInAnonymously

\* A step of a request is no step of another one.
LEMMA OneRequestAtATime ==
  ASSUME RequestInv, NEW w \in Workers, Request(w) \/ Step(w), NEW v \in Workers, v # w
  PROVE  at'[v] = at[v] /\ call'[v] = call[v]
<1> USE DEF RequestInv, TypeOK
<1>1. CASE Request(w)
  BY <1>1
     DEF Request, EnableHostedIdentity, EnableAnonymousIdentity, RegisterGoogleOAuthProvider, Enable,
         SignUp, SignInWithPassword, SendOobCode, WithHostedKey, ResetPassword, SignInWithIdp,
         SignInAnonymously, Begin, Goto
<1>2. CASE Step(w)
  BY <1>2
     DEF Step, InsertSigningKey, InsertOAuthProvider, InsertAccount, EmailAlreadyInUse, LookupAccount,
         Mint, MintFails, InsertResetToken, ConsumeResetToken, UpdatePassword, UseCachedJwks,
         FetchJwks, FetchFails, StoreJwks, VerifyGoogleToken, End, Goto
<1> QED
  BY <1>1, <1>2

\* The customer, Google and the clocks are no step of any request.
Elsewhere ==
    \/ \E k \in ClientKeys : RegisterCredential(k) \/ RotateCredential(k)
    \/ \E t \in ResetTokens : ResetTokenExpires(t)
    \/ JwksExpires \/ GoogleRotates \/ Tick \/ UNCHANGED vars

\* The steps outside requests touch none, nor the keys, accounts and tokens.
LEMMA NoRequestElsewhere ==
  ASSUME Elsewhere
  PROVE  UNCHANGED <<signing, clientId, accounts, at, call, used, tokens, changed>>
BY DEF Elsewhere, RegisterCredential, RotateCredential, ResetTokenExpires, JwksExpires, GoogleRotates,
       Tick, vars, tables, outside

\* A signing key is stored once for good, and an OAuth provider never goes.
LEMMA SigningKeysStay ==
  ASSUME RequestInv, [Next]_vars
  PROVE  /\ \A s \in Sources : signing[s] # None => signing'[s] = signing[s]
         /\ clientId # None => clientId' # None
<1>1. CASE Elsewhere
  BY <1>1, NoRequestElsewhere
<1>2. ASSUME NEW w \in Workers, Request(w)
      PROVE  UNCHANGED <<signing, clientId>>
  BY <1>2, BeginsWriteNothing DEF tables
<1>3. ASSUME NEW w \in Workers, InsertSigningKey(w) \/ InsertOAuthProvider(w)
      PROVE  /\ \A s \in Sources : signing[s] # None => signing'[s] = signing[s]
             /\ clientId # None => clientId' # None
  BY <1>3, NoneAssumption DEF InsertSigningKey, InsertOAuthProvider, StoredKey, RequestInv, TypeOK, Carries
<1>4. ASSUME NEW w \in Workers, Step(w), ~InsertSigningKey(w), ~InsertOAuthProvider(w)
      PROVE  UNCHANGED <<signing, clientId>>
  BY <1>4
     DEF Step, InsertAccount, EmailAlreadyInUse, LookupAccount,
         Mint, MintFails, InsertResetToken, ConsumeResetToken, UpdatePassword, UseCachedJwks,
         FetchJwks, FetchFails, StoreJwks, VerifyGoogleToken, tables
<1> QED
  BY <1>1, <1>2, <1>3, <1>4 DEF Next, Elsewhere

\* What a request has read when it begins.
LEMMA RequestReads ==
  ASSUME RequestInv, NEW w \in Workers, Request(w)
  PROVE  \/ /\ at'[w] \in {"insert", "lookup", "oob"} /\ call'[w].source = "hosted"
            /\ call'[w].key = signing["hosted"] /\ signing["hosted"] # None
         \/ /\ at'[w] = "mint" /\ call'[w].email = None /\ call'[w].source = "anonymous"
            /\ call'[w].key = signing["anonymous"] /\ signing["anonymous"] # None
         \/ at'[w] = "jwks" /\ clientId # None
         \/ at'[w] = "enable" /\ call'[w].key \in Generated \ used /\ call'[w].key \in used'
         \/ at'[w] = "consume"
<1>1. ASSUME NEW s, NEW l, Begin(w, s, l)
      PROVE  at'[w] = s /\ call'[w] = l
  BY <1>1 DEF Begin, Goto, RequestInv, TypeOK
<1>2. ASSUME NEW k \in Generated, EnableHostedIdentity(w, k) \/ EnableAnonymousIdentity(w, k)
      PROVE  at'[w] = "enable" /\ call'[w].key = k /\ k \notin used /\ k \in used'
  <2>1. PICK src \in Sources : Enable(w, src, k, None)
    BY <1>2 DEF EnableHostedIdentity, EnableAnonymousIdentity, Sources
  <2> DEFINE l == [NoCall EXCEPT !.source = src, !.key = k, !.aud = None]
  <2>2. l.key = k
    BY DEF NoCall
  <2>3. Begin(w, "enable", l) /\ k \notin used /\ k \in used'
    BY <2>1 DEF Enable
  <2> HIDE DEF l
  <2> QED
    BY <1>1, <2>2, <2>3
<1>3. ASSUME NEW k \in Generated, NEW id \in ClientIds, RegisterGoogleOAuthProvider(w, k, id)
      PROVE  at'[w] = "enable" /\ call'[w].key = k /\ k \notin used /\ k \in used'
  <2> DEFINE l == [NoCall EXCEPT !.source = "oauth", !.key = k, !.aud = id]
  <2>1. l.key = k
    BY DEF NoCall
  <2>2. Begin(w, "enable", l) /\ k \notin used /\ k \in used'
    BY <1>3 DEF RegisterGoogleOAuthProvider, Enable
  <2> HIDE DEF l
  <2> QED
    BY <1>1, <2>1, <2>2
<1>4. ASSUME NEW s \in {"insert", "lookup", "oob"}, NEW m \in Locals, WithHostedKey(w, s, m)
      PROVE  /\ at'[w] = s /\ call'[w].source = "hosted"
             /\ call'[w].key = signing["hosted"] /\ signing["hosted"] # None
  <2> DEFINE l == [m EXCEPT !.key = HostedIdentitySigningKey, !.source = "hosted"]
  <2>1. l.source = "hosted" /\ l.key = signing["hosted"] /\ signing["hosted"] # None
    BY <1>4 DEF Locals, HostedIdentitySigningKey, WithHostedKey
  <2>2. Begin(w, s, l)
    BY <1>4 DEF WithHostedKey
  <2> HIDE DEF l
  <2> QED
    BY <1>1, <2>1, <2>2
<1>5. ASSUME NEW e \in Emails, NEW p \in Passwords, SignUp(w, e, p) \/ SignInWithPassword(w, e, p)
      PROVE  /\ at'[w] \in {"insert", "lookup"} /\ call'[w].source = "hosted"
             /\ call'[w].key = signing["hosted"] /\ signing["hosted"] # None
  <2>1. [NoCall EXCEPT !.email = e, !.password = p] \in Locals
    BY DEF Locals, NoCall, Subs
  <2> QED
    BY <1>4, <1>5, <2>1 DEF SignUp, SignInWithPassword
<1>6. ASSUME NEW e \in Emails, SendOobCode(w, e)
      PROVE  /\ at'[w] = "oob" /\ call'[w].source = "hosted"
             /\ call'[w].key = signing["hosted"] /\ signing["hosted"] # None
  <2>1. [NoCall EXCEPT !.email = e] \in Locals
    BY DEF Locals, NoCall, Subs
  <2> QED
    BY <1>4, <1>6, <2>1 DEF SendOobCode
<1>7. ASSUME NEW t \in ResetTokens, NEW p \in Passwords \cup {Weak}, ResetPassword(w, t, p)
      PROVE  at'[w] = "consume"
  BY <1>1, <1>7 DEF ResetPassword
<1>8. ASSUME NEW s \in Subjects, NEW g \in GoogleKeys, NEW id \in ClientIds, SignInWithIdp(w, s, g, id)
      PROVE  at'[w] = "jwks" /\ clientId # None
  BY <1>1, <1>8 DEF SignInWithIdp
<1>9. ASSUME NEW uid \in Uids, SignInAnonymously(w, uid)
      PROVE  /\ at'[w] = "mint" /\ call'[w].email = None /\ call'[w].source = "anonymous"
             /\ call'[w].key = signing["anonymous"] /\ signing["anonymous"] # None
  <2> DEFINE l == [NoCall EXCEPT !.sub = uid, !.key = AnonymousSigningKey, !.source = "anonymous"]
  <2>1. /\ l.key = signing["anonymous"] /\ l.email = None /\ l.source = "anonymous"
    BY DEF NoCall, AnonymousSigningKey
  <2>2. Begin(w, "mint", l) /\ signing["anonymous"] # None
    BY <1>9 DEF SignInAnonymously, AnonymousSigningKey
  <2> HIDE DEF l
  <2> QED
    BY <1>1, <2>1, <2>2
<1> QED
  BY <1>2, <1>3, <1>5, <1>6, <1>7, <1>8, <1>9 DEF Request

-----------------------------------------------------------------------------
(* A token is signed with a key that the project keeps                     *)

Stored(k, s) == s \in Sources /\ k # None /\ signing[s] = k

\* A request that will mint holds the key of its source, or is on its way to read the one
\* of the OAuth provider, which is stored.
KeyInv ==
    /\ \A w \in Workers : at[w] \in {"insert", "lookup", "mint"} => Stored(call[w].key, call[w].source)
    /\ \A w \in Workers : at[w] \in {"jwks", "fetch", "store", "verify"} => clientId # None
    /\ clientId # None => signing["oauth"] # None
    /\ \A t \in tokens : Stored(t.key, t.source)

\* A stored key stays stored.
LEMMA StoredStays ==
  ASSUME RequestInv, [Next]_vars, NEW k, NEW s, Stored(k, s)
  PROVE  Stored(k, s)'
BY SigningKeysStay DEF Stored

\* One step of one request: what has to be said about it for KeyInv.
LEMMA KeyFrame ==
  ASSUME RequestInv, KeyInv, NEW w \in Workers, Request(w) \/ Step(w),
         at'[w] \in {"insert", "lookup", "mint"} => Stored(call[w].key, call[w].source)',
         at'[w] \in {"jwks", "fetch", "store", "verify"} => clientId # None,
         clientId' # None => signing'["oauth"] # None,
         \A t \in tokens' : t \in tokens \/ Stored(t.key, t.source)
  PROVE  KeyInv'
<1>1. [Next]_vars
  BY DEF Next
<1>2. \A v \in Workers : at'[v] \in {"insert", "lookup", "mint"} => Stored(call[v].key, call[v].source)'
  <2> SUFFICES ASSUME NEW v \in Workers, v # w, at'[v] \in {"insert", "lookup", "mint"}
               PROVE  Stored(call[v].key, call[v].source)'
    OBVIOUS
  <2>1. at'[v] = at[v] /\ call'[v] = call[v]
    BY OneRequestAtATime
  <2>2. Stored(call[v].key, call[v].source)
    BY <2>1 DEF KeyInv
  <2> QED
    BY <1>1, <2>1, <2>2, SigningKeysStay DEF Stored
<1>3. \A v \in Workers : at'[v] \in {"jwks", "fetch", "store", "verify"} => clientId' # None
  BY <1>1, OneRequestAtATime, SigningKeysStay DEF KeyInv
<1>4. \A t \in tokens' : Stored(t.key, t.source)'
  BY <1>1, SigningKeysStay DEF Stored, KeyInv
<1> QED
  BY <1>2, <1>3, <1>4 DEF KeyInv

\* Every step keeps that tokens and signers in flight have a key that verifies.
LEMMA KeyStep ==
  ASSUME RequestInv, KeyInv, [Next]_vars
  PROVE  KeyInv'
<1>1. CASE Elsewhere
  <2>1. UNCHANGED <<signing, clientId, at, call, tokens>>
    BY <1>1, NoRequestElsewhere
  <2> QED
    BY <2>1 DEF KeyInv, Stored
<1>2. ASSUME NEW w \in Workers, Request(w)
      PROVE  KeyInv'
  <2>1. UNCHANGED <<signing, clientId, tokens>>
    BY <1>2, BeginsWriteNothing DEF tables
  <2> QED
    BY <1>2, <2>1, RequestReads, KeyFrame DEF KeyInv, Stored, Sources
<1>3. ASSUME NEW w \in Workers, Step(w)
      PROVE  KeyInv'
  <2> USE <1>3, KeyFrame DEF RequestInv, TypeOK
  <2>1. CASE InsertSigningKey(w)
    BY <2>1, EndRequest DEF InsertSigningKey, KeyInv, StoredKey
  <2>2. CASE InsertOAuthProvider(w)
    <3>1. signing'["oauth"] # None
      BY <2>2, NoneAssumption DEF InsertOAuthProvider, Carries, StoredKey, Sources
    <3> QED
      BY <2>2, <3>1, EndRequest DEF InsertOAuthProvider
  <2>3. ASSUME NEW uid \in Uids, InsertAccount(w, uid)
        PROVE  KeyInv'
    <3>1. Stored(call[w].key, call[w].source) /\ signing' = signing
      BY <2>3 DEF InsertAccount, KeyInv
    <3>2. at'[w] = "mint" /\ call'[w].key = call[w].key /\ call'[w].source = call[w].source
      BY <2>3 DEF InsertAccount, Goto, Locals
    <3> QED
      BY <2>3, <3>1, <3>2 DEF InsertAccount, KeyInv, Stored
  <2>4. CASE EmailAlreadyInUse(w) \/ MintFails(w) \/ FetchFails(w)
    BY <2>4, EndRequest DEF EmailAlreadyInUse, MintFails, FetchFails, KeyInv, tables
  <2>5. CASE LookupAccount(w)
    <3>1. Stored(call[w].key, call[w].source) /\ signing' = signing /\ clientId' = clientId /\ tokens' = tokens
      BY <2>5 DEF LookupAccount, KeyInv, tables
    <3>2. at'[w] = "idle" \/ (at'[w] = "mint" /\ call'[w].key = call[w].key /\ call'[w].source = call[w].source)
      BY <2>5 DEF LookupAccount, End, Goto, Locals
    <3> QED
      BY <3>1, <3>2 DEF KeyInv, Stored
  <2>6. CASE Mint(w)
    BY <2>6, EndRequest DEF Mint, KeyInv, tables
  <2>7. CASE InsertResetToken(w)
    BY <2>7, EndRequest DEF InsertResetToken, KeyInv
  <2>8. CASE ConsumeResetToken(w)
    <3>1. at'[w] \in {"idle", "update"}
      BY <2>8 DEF ConsumeResetToken, End, Goto
    <3> QED
      BY <2>8, <3>1 DEF ConsumeResetToken, KeyInv
  <2>9. CASE UpdatePassword(w)
    BY <2>9, EndRequest DEF UpdatePassword, KeyInv
  <2>10. CASE UseCachedJwks(w) \/ FetchJwks(w) \/ StoreJwks(w)
    <3>1. at'[w] \in {"verify", "fetch", "store"} /\ at[w] \in {"jwks", "fetch", "store"}
      BY <2>10 DEF UseCachedJwks, FetchJwks, StoreJwks, Goto
    <3>2. UNCHANGED <<signing, clientId, tokens>>
      BY <2>10 DEF UseCachedJwks, FetchJwks, StoreJwks, tables
    <3> QED
      BY <3>1, <3>2 DEF KeyInv
  <2>11. CASE VerifyGoogleToken(w)
    <3>1. at'[w] = "idle" \/ (at'[w] = "mint" /\ call'[w].key = signing["oauth"] /\ call'[w].source = "oauth")
      BY <2>11 DEF VerifyGoogleToken, End, Goto, OAuthSigningKey, Locals
    <3>2. UNCHANGED <<signing, clientId, tokens>> /\ clientId # None
      BY <2>11 DEF VerifyGoogleToken, KeyInv, tables
    <3> QED
      BY <3>1, <3>2 DEF KeyInv, Stored, Sources
  <2> QED
    BY <2>1, <2>2, <2>3, <2>4, <2>5, <2>6, <2>7, <2>8, <2>9, <2>10, <2>11 DEF Step
<1> QED
  BY <1>1, <1>2, <1>3 DEF Next, Elsewhere

\* Signing keys are sound in every behaviour.
LEMMA KeysSound == Spec => []KeyInv
<1>1. Init => KeyInv
  BY DEF Init, KeyInv
<1> QED
  BY <1>1, KeyStep, RequestsSound, PTL DEF Spec

\* Keys that are stored, or about to be, were generated for that place alone.
FreshInv ==
    /\ \A s \in Sources : signing[s] # None => signing[s] \in used
    /\ \A r, s \in Sources : signing[s] # None /\ signing[r] = signing[s] => r = s
    /\ \A w \in Workers : at[w] = "enable" =>
          call[w].key \in used /\ \A s \in Sources : signing[s] # call[w].key
    /\ \A v, w \in Workers : v # w /\ at[v] = "enable" /\ at[w] = "enable" => call[v].key # call[w].key

\* What was generated is never generated again, and only requests to enable a
\* source carry a key of their own.
LEMMA UsedGrows ==
  ASSUME RequestInv, NEW w \in Workers, Request(w) \/ Step(w)
  PROVE  used \subseteq used' /\ (Step(w) => at'[w] # "enable")
<1> USE DEF RequestInv, TypeOK
<1>1. CASE Request(w) /\ ~Step(w)
  BY <1>1
     DEF Request, EnableHostedIdentity, EnableAnonymousIdentity, RegisterGoogleOAuthProvider, Enable,
         SignUp, SignInWithPassword, SendOobCode, WithHostedKey, ResetPassword, SignInWithIdp,
         SignInAnonymously
<1>2. CASE Step(w)
  BY <1>2
     DEF Step, InsertSigningKey, InsertOAuthProvider, InsertAccount, EmailAlreadyInUse, LookupAccount,
         Mint, MintFails, InsertResetToken, ConsumeResetToken, UpdatePassword, UseCachedJwks,
         FetchJwks, FetchFails, StoreJwks, VerifyGoogleToken, End, Goto
<1> QED
  BY <1>1, <1>2

\* Every step keeps the keys apart, two requests that enable one source included.
LEMMA FreshStep ==
  ASSUME RequestInv, FreshInv, [Next]_vars
  PROVE  FreshInv'
<1>1. CASE Elsewhere
  <2>1. UNCHANGED <<signing, at, call, used>>
    BY <1>1, NoRequestElsewhere
  <2> QED
    BY <2>1 DEF FreshInv
<1>2. ASSUME NEW w \in Workers, Request(w)
      PROVE  FreshInv'
  <2>1. signing' = signing /\ used \subseteq used'
    BY <1>2, BeginsWriteNothing, UsedGrows DEF tables
  <2>2. \A v \in Workers \ {w} : at'[v] = at[v] /\ call'[v] = call[v]
    BY <1>2, OneRequestAtATime
  <2>3. at'[w] = "enable" => call'[w].key \in Generated \ used /\ call'[w].key \in used'
    BY <1>2, RequestReads
  <2>4. at'[w] = "enable" => \A s \in Sources : signing[s] # call'[w].key
    BY <2>3, NoneAssumption DEF FreshInv
  <2>5. \A v \in Workers \ {w} : at'[v] = "enable" => call'[v].key \in used
    BY <2>2 DEF FreshInv
  <2> QED
    BY <2>1, <2>2, <2>3, <2>4, <2>5 DEF FreshInv
<1>3. ASSUME NEW w \in Workers, Step(w)
      PROVE  FreshInv'
  <2>1. used \subseteq used' /\ at'[w] # "enable"
    BY <1>3, UsedGrows
  <2>2. \A v \in Workers \ {w} : at'[v] = at[v] /\ call'[v] = call[v]
    BY <1>3, OneRequestAtATime
  <2>3. CASE InsertSigningKey(w) \/ InsertOAuthProvider(w)
    <3>1. PICK s \in Sources : /\ at[w] = "enable" /\ call[w].key \in Generated
                               /\ signing' = [signing EXCEPT ![s] = StoredKey(s, call[w].key)]
      BY <2>3 DEF InsertSigningKey, InsertOAuthProvider, RequestInv, Carries, Sources
    <3>2. signing' = signing \/ signing' = [signing EXCEPT ![s] = call[w].key]
      BY <3>1 DEF StoredKey, RequestInv, TypeOK
    <3>3. /\ call[w].key \in used /\ \A q \in Sources : signing[q] # call[w].key
          /\ \A v \in Workers \ {w} : at[v] = "enable" => call[v].key # call[w].key
      BY <3>1 DEF FreshInv
    <3>4. signing \in [Sources -> Generated \cup {None}]
      BY DEF RequestInv, TypeOK
    <3> QED
      BY <2>1, <2>2, <3>2, <3>3, <3>4 DEF FreshInv
  <2>4. CASE ~InsertSigningKey(w) /\ ~InsertOAuthProvider(w)
    <3>1. signing' = signing
      BY <1>3, <2>4
         DEF Step, InsertAccount, EmailAlreadyInUse, LookupAccount,
             Mint, MintFails, InsertResetToken, ConsumeResetToken, UpdatePassword, UseCachedJwks,
             FetchJwks, FetchFails, StoreJwks, VerifyGoogleToken, tables
    <3> QED
      BY <2>1, <2>2, <3>1 DEF FreshInv
  <2> QED
    BY <2>3, <2>4
<1> QED
  BY <1>1, <1>2, <1>3 DEF Next, Elsewhere

\* The keys of different sources are different in every behaviour.
LEMMA FreshSound == Spec => []FreshInv
<1>1. Init => FreshInv
  BY DEF Init, FreshInv
<1> QED
  BY <1>1, FreshStep, RequestsSound, PTL DEF Spec

(* Whatever enables, redefinitions and rotations overlap a sign-in, the    *)
(* token it hands out is accepted until it expires, by the key of its own  *)
(* source and no other: a signing key is inserted ON CONFLICT DO NOTHING,  *)
(* so the key a request has read (hosted_identity.rs, oauth_providers.rs,  *)
(* anonymous_identity.rs) is the key attach_client_identity_if_present     *)
(* tries, and every key is generated for one source.                       *)
THEOREM TokensVerify == Spec => []MintedTokensVerify
<1>1. RequestInv /\ KeyInv /\ FreshInv => MintedTokensVerify
  <2> SUFFICES ASSUME RequestInv, KeyInv, FreshInv, NEW t \in tokens, NEW answered \in SUBSET Lookups
               PROVE  Attach(t, answered) <=> t.source \in answered /\ now <= t.exp
    BY DEF MintedTokensVerify
  <2>1. t.source \in Sources /\ t.key # None /\ signing[t.source] = t.key
    BY DEF KeyInv, Stored
  <2>2. t.key \in Generated /\ t.aud = Here
    BY <2>1 DEF RequestInv, TypeOK, Token
  <2>3. ~VerifyToken(t, GetClientIdentityCredential)
    BY <2>2, KeysAssumption DEF VerifyToken, GetClientIdentityCredential, RequestInv, TypeOK
  <2>4. \A s \in Sources : VerifyToken(t, {signing[s]} \ {None}) <=> s = t.source /\ now <= t.exp
    BY <2>1, <2>2 DEF VerifyToken, FreshInv
  <2> QED
    BY <2>1, <2>3, <2>4 DEF Attach
<1> QED
  BY <1>1, RequestsSound, KeysSound, FreshSound, PTL

-----------------------------------------------------------------------------
(* An address has one user                                                 *)

\* The user of an address is the one in its row.
IsUser(e, u) == e \in Emails /\ accounts[e] # NoAccount /\ u = accounts[e].uid

SubjectInv ==
    /\ \A w \in Workers : at[w] = "mint" /\ call[w].email # None => IsUser(call[w].email, call[w].sub)
    /\ \A t \in tokens : t.email # None => IsUser(t.email, t.sub)

\* A row of the table of accounts keeps its user for good.
LEMMA AccountsStay ==
  ASSUME RequestInv, [Next]_vars, NEW e \in Emails, accounts[e] # NoAccount
  PROVE  accounts'[e] # NoAccount /\ accounts'[e].uid = accounts[e].uid
<1>1. CASE Elsewhere
  BY <1>1, NoRequestElsewhere
<1>2. ASSUME NEW w \in Workers, Request(w)
      PROVE  UNCHANGED accounts
  BY <1>2, BeginsWriteNothing DEF tables
<1>3. ASSUME NEW w \in Workers, NEW uid \in Uids, InsertAccount(w, uid)
      PROVE  UNCHANGED accounts[e]
  BY <1>3 DEF InsertAccount, MayInsert, RequestInv, TypeOK, Carries
<1>4. ASSUME NEW w \in Workers, UpdatePassword(w)
      PROVE  accounts'[e] # NoAccount /\ accounts'[e].uid = accounts[e].uid
  <2>1. call[w].email \in Emails /\ call[w].password \in Passwords
    BY <1>4 DEF UpdatePassword, RequestInv, Carries
  <2>2. accounts' = [accounts EXCEPT ![call[w].email].password = call[w].password]
    BY <1>4 DEF UpdatePassword
  <2>3. \/ accounts'[e] = accounts[e]
        \/ accounts'[e].uid = accounts[e].uid /\ accounts'[e].password \in Passwords
    BY <2>1, <2>2 DEF RequestInv, TypeOK, Account
  <2> QED
    BY <2>3, NoneAssumption DEF NoAccount
<1>5. ASSUME NEW w \in Workers, Step(w), ~UpdatePassword(w), ~\E uid \in Uids : InsertAccount(w, uid)
      PROVE  UNCHANGED accounts
  BY <1>5
     DEF Step, InsertSigningKey, InsertOAuthProvider, EmailAlreadyInUse, LookupAccount,
         Mint, MintFails, InsertResetToken, ConsumeResetToken, UseCachedJwks,
         FetchJwks, FetchFails, StoreJwks, VerifyGoogleToken, tables
<1> QED
  BY <1>1, <1>2, <1>3, <1>4, <1>5 DEF Next, Elsewhere

\* One step of one request: what has to be said about it for SubjectInv.
LEMMA SubjectFrame ==
  ASSUME RequestInv, SubjectInv, NEW w \in Workers, Request(w) \/ Step(w),
         at'[w] = "mint" /\ call'[w].email # None => IsUser(call[w].email, call[w].sub)',
         \A t \in tokens' : t \in tokens \/ t.email = None \/ IsUser(t.email, t.sub)
  PROVE  SubjectInv'
<1>1. [Next]_vars
  BY DEF Next
<1>2. ASSUME NEW e, NEW u, IsUser(e, u)
      PROVE  e \in Emails /\ accounts'[e] # NoAccount /\ u = accounts'[e].uid
  BY <1>1, <1>2, AccountsStay DEF IsUser
<1>3. ASSUME NEW v \in Workers, v # w, at'[v] = "mint", call'[v].email # None
      PROVE  IsUser(call[v].email, call[v].sub)'
  <2>1. at'[v] = at[v] /\ call'[v] = call[v]
    BY <1>3, OneRequestAtATime
  <2>2. IsUser(call[v].email, call[v].sub)
    BY <1>3, <2>1 DEF SubjectInv
  <2> QED
    BY <1>2, <2>1, <2>2 DEF IsUser
<1>4. ASSUME NEW t \in tokens', t.email # None
      PROVE  IsUser(t.email, t.sub)'
  <2>1. IsUser(t.email, t.sub)
    BY <1>4 DEF SubjectInv
  <2> QED
    BY <1>2, <2>1 DEF IsUser
<1> QED
  BY <1>3, <1>4 DEF SubjectInv

\* Every step keeps one subject for an address, racing sign-ups included.
LEMMA SubjectStep ==
  ASSUME RequestInv, SubjectInv, [Next]_vars
  PROVE  SubjectInv'
<1>1. CASE Elsewhere
  <2>1. UNCHANGED <<accounts, at, call, tokens>>
    BY <1>1, NoRequestElsewhere
  <2> QED
    BY <2>1 DEF SubjectInv, IsUser
<1>2. ASSUME NEW w \in Workers, Request(w)
      PROVE  SubjectInv'
  BY <1>2, BeginsWriteNothing, RequestReads, SubjectFrame
<1>3. ASSUME NEW w \in Workers, Step(w)
      PROVE  SubjectInv'
  <2> USE <1>3, SubjectFrame DEF RequestInv, TypeOK
  <2>1. ASSUME NEW uid \in Uids, InsertAccount(w, uid)
        PROVE  SubjectInv'
    <3> DEFINE e == call[w].email
    <3>1. e \in Emails
      BY <2>1 DEF InsertAccount, Carries
    <3>2. call'[w].email = e /\ call'[w].sub = uid
      BY <2>1 DEF InsertAccount, Locals
    <3>3. accounts'[e] = [uid |-> uid, password |-> call[w].password] /\ tokens' = tokens
      BY <2>1, <3>1 DEF InsertAccount
    <3>4. IsUser(call[w].email, call[w].sub)'
      BY <3>1, <3>2, <3>3, NoneAssumption DEF IsUser, NoAccount
    <3> QED
      BY <3>3, <3>4
  <2>2. CASE LookupAccount(w)
    <3> DEFINE e == call[w].email
    <3>1. e \in Emails /\ UNCHANGED <<accounts, tokens>>
      BY <2>2 DEF LookupAccount, Carries, tables
    <3>2. \/ at'[w] = "idle"
          \/ call'[w].email = e /\ call'[w].sub = accounts[e].uid /\ accounts[e].password # None
      BY <2>2 DEF LookupAccount, End, Goto, Locals
    <3>3. at'[w] = "idle" \/ IsUser(call[w].email, call[w].sub)'
      BY <3>1, <3>2 DEF IsUser, NoAccount
    <3> QED
      BY <3>1, <3>3
  <2>3. CASE Mint(w)
    <3>1. at'[w] = "idle"
      BY <2>3, EndRequest DEF Mint
    <3> QED
      BY <2>3, <3>1 DEF Mint, SubjectInv
  <2>4. CASE VerifyGoogleToken(w)
    <3>1. at'[w] = "idle" \/ call'[w].email = None
      BY <2>4 DEF VerifyGoogleToken, End, Goto, Locals, Carries
    <3> QED
      BY <2>4, <3>1 DEF VerifyGoogleToken
  <2>5. CASE \/ InsertSigningKey(w) \/ InsertOAuthProvider(w) \/ EmailAlreadyInUse(w) \/ MintFails(w)
             \/ InsertResetToken(w) \/ UpdatePassword(w) \/ FetchFails(w)
    <3>1. at'[w] = "idle" /\ tokens' = tokens
      BY <2>5, EndRequest
         DEF InsertSigningKey, InsertOAuthProvider, EmailAlreadyInUse, MintFails, InsertResetToken,
             UpdatePassword, FetchFails
    <3> QED
      BY <3>1
  <2>6. CASE ConsumeResetToken(w) \/ UseCachedJwks(w) \/ FetchJwks(w) \/ StoreJwks(w)
    <3>1. at'[w] \in {"idle", "update", "verify", "fetch", "store"} /\ tokens' = tokens
      BY <2>6 DEF ConsumeResetToken, UseCachedJwks, FetchJwks, StoreJwks, End, Goto
    <3> QED
      BY <3>1
  <2> QED
    BY <2>1, <2>2, <2>3, <2>4, <2>5, <2>6 DEF Step
<1> QED
  BY <1>1, <1>2, <1>3 DEF Next, Elsewhere

(* Whatever sign-ups, sign-ins and resets run at the same time, no two     *)
(* tokens for one address name different users: the row of an address is   *)
(* inserted once (the primary key of hosted_identity_accounts) and its     *)
(* end_user_id is never updated.                                           *)
THEOREM OneUserPerAddress == Spec => []OneSubjectPerEmail
<1>1. Init => SubjectInv
  BY DEF Init, SubjectInv
<1>2. SubjectInv => OneSubjectPerEmail
  BY DEF SubjectInv, OneSubjectPerEmail, IsUser
<1> QED
  BY <1>1, <1>2, SubjectStep, RequestsSound, PTL DEF Spec

-----------------------------------------------------------------------------
(* A reset token changes one password                                      *)

\* A token that has changed a password, or that a request is about to change one
\* with, is used; and no two requests are about to with the same token.
ResetInv ==
    /\ \A t \in ResetTokens : changed[t] = 0 \/ (changed[t] = 1 /\ resets[t].state = "used")
    /\ \A w \in Workers : at[w] = "update" =>
          /\ resets[call[w].reset].state = "used" /\ changed[call[w].reset] = 0
          /\ \A v \in Workers \ {w} : at[v] = "update" => call[v].reset # call[w].reset

\* Every step keeps that a reset link changes a password once.
LEMMA ResetStep ==
  ASSUME RequestInv, ResetInv, [Next]_vars
  PROVE  ResetInv'
<1> USE DEF RequestInv, TypeOK
<1>1. ASSUME UNCHANGED <<resets, changed>>, NEW w \in Workers, Request(w) \/ Step(w), at'[w] # "update"
      PROVE  ResetInv'
  BY <1>1, OneRequestAtATime DEF ResetInv
<1>2. ASSUME NEW w \in Workers, Request(w)
      PROVE  ResetInv'
  BY <1>1, <1>2, BeginsWriteNothing, RequestReads DEF tables
<1>3. ASSUME NEW t \in ResetTokens, ResetTokenExpires(t)
      PROVE  ResetInv'
  BY <1>3 DEF ResetTokenExpires, ResetInv, Reset, Carries
<1>4. CASE Elsewhere /\ ~\E t \in ResetTokens : ResetTokenExpires(t)
  <2>1. UNCHANGED <<at, call, resets, changed>>
    BY <1>4
       DEF Elsewhere, RegisterCredential, RotateCredential, JwksExpires, GoogleRotates, Tick, vars, tables,
           outside
  <2> QED
    BY <2>1 DEF ResetInv
<1>5. ASSUME NEW w \in Workers, InsertResetToken(w)
      PROVE  ResetInv'
  <2>1. at'[w] = "idle" /\ changed' = changed
    BY <1>5, EndRequest DEF InsertResetToken
  <2>2. \A t \in ResetTokens : resets[t].state = "used" => resets'[t].state = "used"
    BY <1>5 DEF InsertResetToken, NoReset, Reset
  <2>3. \A v \in Workers \ {w} : at'[v] = at[v] /\ call'[v] = call[v]
    BY <1>5, OneRequestAtATime DEF Step
  <2> QED
    BY <2>1, <2>2, <2>3 DEF ResetInv, Carries
<1>6. ASSUME NEW w \in Workers, ConsumeResetToken(w)
      PROVE  ResetInv'
  <2> DEFINE t == call[w].reset
  <2>1. t \in ResetTokens /\ changed' = changed
    BY <1>6 DEF ConsumeResetToken, Carries
  <2>2. \A v \in Workers \ {w} : at'[v] = at[v] /\ call'[v] = call[v]
    BY <1>6, OneRequestAtATime DEF Step
  <2>3. CASE Redeemable(t)
    <3>1. resets'[t].state = "used" /\ \A u \in ResetTokens \ {t} : resets'[u] = resets[u]
      BY <1>6, <2>1, <2>3 DEF ConsumeResetToken, Reset
    <3>2. at'[w] = "update" => call'[w].reset = t
      BY <1>6, <2>3 DEF ConsumeResetToken, End, Goto, Locals
    <3>3. changed[t] = 0 /\ \A v \in Workers \ {w} : at[v] = "update" => call[v].reset # t
      BY <2>1, <2>3 DEF Redeemable, ResetInv
    <3> QED
      BY <2>1, <2>2, <3>1, <3>2, <3>3 DEF ResetInv, Carries
  <2>4. CASE ~Redeemable(t)
    <3>1. at'[w] = "idle" /\ resets' = resets
      BY <1>6, <2>4, EndRequest DEF ConsumeResetToken
    <3> QED
      BY <1>1, <1>6, <2>1, <3>1 DEF Step
  <2> QED
    BY <2>3, <2>4
<1>7. ASSUME NEW w \in Workers, UpdatePassword(w)
      PROVE  ResetInv'
  <2> DEFINE t == call[w].reset
  <2>1. t \in ResetTokens /\ changed[t] = 0 /\ resets[t].state = "used" /\ resets' = resets
    BY <1>7 DEF UpdatePassword, Carries, ResetInv
  <2>2. changed'[t] = 1 /\ \A u \in ResetTokens \ {t} : changed'[u] = changed[u]
    BY <1>7, <2>1 DEF UpdatePassword
  <2>3. /\ at'[w] = "idle"
        /\ \A v \in Workers \ {w} : at'[v] = at[v] /\ call'[v] = call[v]
    BY <1>7, EndRequest DEF UpdatePassword
  <2> QED
    BY <1>7, <2>1, <2>2, <2>3 DEF ResetInv, Carries, UpdatePassword
<1>8. ASSUME NEW w \in Workers, Step(w),
             ~InsertResetToken(w), ~ConsumeResetToken(w), ~UpdatePassword(w)
      PROVE  ResetInv'
  <2>1. UNCHANGED <<resets, changed>> /\ at'[w] # "update"
    BY <1>8
       DEF Step, InsertSigningKey, InsertOAuthProvider, InsertAccount, EmailAlreadyInUse, LookupAccount,
           Mint, MintFails, UseCachedJwks, FetchJwks, FetchFails, StoreJwks, VerifyGoogleToken,
           End, Goto, tables
  <2> QED
    BY <1>1, <1>8, <2>1
<1> QED
  BY <1>2, <1>3, <1>4, <1>5, <1>6, <1>7, <1>8 DEF Next, Elsewhere

(* A reset token changes a password once at most, however often it is      *)
(* presented and however the requests overlap: consume_reset_token marks   *)
(* it in the statement that finds it, before the password is written.      *)
THEOREM ResetsOnce == Spec => []ResetOnce
<1>1. Init => ResetInv
  BY DEF Init, ResetInv
<1>2. ResetInv => ResetOnce
  BY DEF ResetInv, ResetOnce
<1> QED
  BY <1>1, <1>2, ResetStep, RequestsSound, PTL DEF Spec
=============================================================================
