------------------------------- MODULE SignIn -------------------------------
(***************************************************************************)
(* Signing in with OpenID Connect (oidc.go): one rule whose routes ask for *)
(* one provider, a browser with several tabs and one cookie jar, and the   *)
(* provider itself (external).  Nothing about a sign-in is kept on the     *)
(* server: a state cookie carries it to the callback, a session cookie     *)
(* carries who signed in to every request, both sealed with a key made at  *)
(* start-up.  The state token stands for the nonce and the PKCE verifier   *)
(* made with it.  Issuer and client id are one value, bind.  A session's   *)
(* ghost fields said, sealed and signedAt are the provider's whole answer, *)
(* the configuration it was sealed under and when; no action reads them.   *)
(***************************************************************************)
EXTENDS Naturals, FiniteSets

CONSTANTS
  Tabs,          \* the browser's tabs
  Paths,         \* the rule's routes
  OidcGroups,    \* groups the provider may name
  OidcConfigs,   \* [bind, guard : [Paths -> [oidc, mfa, groups]]]
  StateTokens,   \* what oidcToken draws from
  CookieRoom,    \* groups that fit under oidcCookieMax
  SessionTTL, StateTTL, KeysMinAge, DiscoTTL, RetryAfter,
  NoCookie,
  MaxOidcClock, MaxVisits, MaxRestarts, MaxRotations, MaxOidcReloads \* bounds

ASSUME SignInAssumption ==
  /\ \A c \in OidcConfigs : c.guard \in [Paths -> [oidc : BOOLEAN, mfa : BOOLEAN, groups : SUBSET OidcGroups]]
  /\ {CookieRoom, KeysMinAge, DiscoTTL, RetryAfter, MaxOidcClock, MaxVisits} \subseteq Nat
  /\ {MaxRestarts, MaxRotations, MaxOidcReloads} \subseteq Nat
  /\ SessionTTL \in Nat \ {0} /\ StateTTL \in Nat \ {0}

VARIABLES
  oidcConf,  \* the running rule
  cookieKey, \* oidcAuth.aead, by the number of the restart that made it
  client,    \* oidcClient: [disco, discAt, failAt, keys, keysAt]
  jar,       \* the browser's cookies: [session, states]
  tabs,      \* [at, path, state, answer]
  signingKey,\* the provider's key id
  oidcClock, visits, oidcReloads

signInVars == <<oidcConf, cookieKey, client, jar, tabs, signingKey, oidcClock, visits, oidcReloads>>
browserless == <<oidcConf, cookieKey, signingKey, oidcClock, oidcReloads>>

Never == MaxOidcClock + StateTTL + SessionTTL + KeysMinAge + DiscoTTL + RetryAfter + 1 \* a time.Time that is zero
NewClient == [disco |-> FALSE, discAt |-> Never, failAt |-> Never, keys |-> {}, keysAt |-> Never]
IdleTab == [at |-> "idle", path |-> NoCookie, state |-> NoCookie, answer |-> NoCookie]
Answers == [bind : {c.bind : c \in OidcConfigs}, nonce : StateTokens, kid : 0..MaxRotations,
            mfa : BOOLEAN, groups : SUBSET OidcGroups]
Identities == [mfa : BOOLEAN, groups : SUBSET OidcGroups, asked : BOOLEAN, expires : Nat]

SignInTypeOK ==
  /\ oidcConf \in OidcConfigs /\ cookieKey \in 0..MaxRestarts /\ signingKey \in 0..MaxRotations
  /\ client \in [disco : BOOLEAN, discAt : Nat, failAt : Nat, keys : SUBSET (0..MaxRotations), keysAt : Nat]
  /\ jar.session = NoCookie \/ jar.session \in [key : 0..MaxRestarts, bind : {c.bind : c \in OidcConfigs},
                                               id : Identities, said : Answers, sealed : OidcConfigs, signedAt : Nat]
  /\ \A ck \in jar.states : ck.state \in StateTokens /\ ck.expires \in Nat
  /\ \A t \in Tabs : tabs[t].at \in {"idle", "asking", "provider", "callback", "error", "redeem"}

SignInInit ==
  /\ oidcConf \in OidcConfigs /\ cookieKey = 0 /\ client = NewClient /\ signingKey = 0
  /\ jar = [session |-> NoCookie, states |-> {}] /\ tabs = [t \in Tabs |-> IdleTab]
  /\ oidcClock = 0 /\ visits = 0 /\ oidcReloads = 0

-----------------------------------------------------------------------------
(* oidcClient: the discovery document and the keys, cached *)

within(at, ttl) == at # Never /\ oidcClock < at + ttl

\* discovery: what it leaves in the client when the provider answers or not.
discovered(c, up) ==
  IF (c.disco /\ within(c.discAt, DiscoTTL)) \/ within(c.failAt, RetryAfter) THEN c
  ELSE IF up THEN [c EXCEPT !.disco = TRUE, !.discAt = oidcClock, !.failAt = Never]
       ELSE [c EXCEPT !.failAt = oidcClock]

\* key: the JWKS again for a key not seen, not too often.
keysFor(c, kid) ==
  IF kid \in c.keys \/ within(c.keysAt, KeysMinAge) THEN c
  ELSE [c EXCEPT !.keys = {signingKey}, !.keysAt = oidcClock]

-----------------------------------------------------------------------------
(* The session cookie and what a route requires *)

sessionBindNone(c) == 0                     \* mutant: a session is good for any client
sessionBind(c) == c.bind
sessionGood(s) == s # NoCookie /\ s.key = cookieKey /\ s.bind = sessionBind(oidcConf) /\ oidcClock < s.id.expires
meets(id, g) == /\ g.mfa => id.mfa
                /\ g.groups # {} => g.groups \cap id.groups # {}

\* referenced (resolveOIDC): the groups some route of the provider requires.
referenced(c) == UNION {c.guard[p].groups : p \in {q \in Paths : c.guard[q].oidc}}
\* mutant: no group is kept
trimmedToNothing(gs, c) == IF Cardinality(gs) > CookieRoom THEN {} ELSE gs
trimmed(gs, c) == IF Cardinality(gs) > CookieRoom THEN gs \cap referenced(c) ELSE gs

-----------------------------------------------------------------------------
(* gate *)

toTab(t, rec) == tabs' = [tabs EXCEPT ![t] = rec]
\* A token nobody holds; StateTokens bounds how many are drawn.
unheld == StateTokens \ ({ck.state : ck \in jar.states} \cup {tabs[t].state : t \in Tabs})
oidcToken == CHOOSE s \in unheld : TRUE

Visit(t, p) ==
  /\ tabs[t].at = "idle" /\ visits < MaxVisits /\ visits' = visits + 1
  /\ toTab(t, [IdleTab EXCEPT !.at = "asking", !.path = p])
  /\ UNCHANGED <<browserless, client, jar>>

\* The request goes on with who signed in, or without a sign-in where none is asked for.
letsOn(g) == sessionGood(jar.session) /\ meets(jar.session.id, g)
GateLets(t) ==
  LET g == oidcConf.guard[tabs[t].path] IN
  /\ tabs[t].at = "asking" /\ (g.oidc => letsOn(g)) /\ toTab(t, IdleTab)
  /\ UNCHANGED <<browserless, client, jar, visits>>

\* A session that lacks a group, or MFA the provider was asked for: 403.
GateRefuses(t) ==
  LET g == oidcConf.guard[tabs[t].path]
      id == jar.session.id
  IN /\ tabs[t].at = "asking" /\ g.oidc /\ sessionGood(jar.session) /\ ~meets(id, g)
     /\ g.mfa /\ ~id.mfa => id.asked
     /\ toTab(t, IdleTab) /\ UNCHANGED <<browserless, client, jar, visits>>

\* No session, or one to step up to MFA: 401 for what is no navigation, 502
\* when the provider was never reached, else to the provider.
GateSends(t) ==
  LET g == oidcConf.guard[tabs[t].path] IN
  /\ tabs[t].at = "asking" /\ g.oidc
  /\ sessionGood(jar.session) => g.mfa /\ ~jar.session.id.mfa /\ ~jar.session.id.asked
  /\ \/ toTab(t, IdleTab) /\ UNCHANGED <<client, jar>>
     \/ \E up \in BOOLEAN :
          /\ client' = discovered(client, up)
          /\ \/ ~client'.disco /\ toTab(t, IdleTab) /\ UNCHANGED jar
             \/ /\ client'.disco /\ unheld # {}
                /\ LET s == oidcToken IN
                     /\ jar' = [jar EXCEPT !.states = @ \cup
                          {[state |-> s, key |-> cookieKey, mfa |-> g.mfa, path |-> tabs[t].path,
                            expires |-> oidcClock + StateTTL]}]
                     /\ toTab(t, [tabs[t] EXCEPT !.at = "provider", !.state = s,
                                                 !.answer = [bind |-> oidcConf.bind, nonce |-> s]])
  /\ UNCHANGED <<browserless, visits>>

-----------------------------------------------------------------------------
(* The provider (external): it signs the user in, with or without MFA *)

\* The user may also be refused, or close the tab.
ProviderAnswers(t) ==
  /\ tabs[t].at = "provider"
  /\ \/ \E mfa \in BOOLEAN, gs \in SUBSET OidcGroups :
          toTab(t, [tabs[t] EXCEPT !.at = "callback",
            !.answer = [bind |-> tabs[t].answer.bind, nonce |-> tabs[t].answer.nonce,
                        kid |-> signingKey, mfa |-> mfa, groups |-> gs]])
     \/ toTab(t, [tabs[t] EXCEPT !.at = "error"])
     \/ toTab(t, IdleTab)
  /\ UNCHANGED <<browserless, client, jar, visits>>

RotateKey ==
  /\ signingKey < MaxRotations /\ signingKey' = signingKey + 1
  /\ UNCHANGED <<oidcConf, cookieKey, client, jar, tabs, oidcClock, visits, oidcReloads>>

-----------------------------------------------------------------------------
(* callback and redeem *)

pendingOf(t) == {ck \in jar.states : /\ ck.state = tabs[t].state /\ ck.key = cookieKey
                                     /\ oidcClock <= ck.expires}

\* The state cookie must open and the rule still have the provider; the code
\* then goes to the token endpoint with the provider as it is now.
Callback(t) ==
  /\ tabs[t].at \in {"callback", "error"}
  /\ IF pendingOf(t) = {} \/ tabs[t].at = "error" \/ \A p \in Paths : ~oidcConf.guard[p].oidc
     THEN toTab(t, IdleTab) /\ jar' = [jar EXCEPT !.states = @ \ pendingOf(t)]
     ELSE /\ UNCHANGED jar
          /\ \E pending \in pendingOf(t) :
               toTab(t, [at |-> "redeem", path |-> pending.path, state |-> tabs[t].state, conf |-> oidcConf,
                         key |-> cookieKey, pending |-> pending, answer |-> tabs[t].answer])
  /\ UNCHANGED <<browserless, client, visits>>

\* mutant: that MFA was asked for is not noted
identityUnasked(answer, pending) ==
  [mfa |-> answer.mfa, groups |-> answer.groups, asked |-> FALSE, expires |-> oidcClock + SessionTTL]
identityFrom(answer, pending) ==
  [mfa |-> answer.mfa, groups |-> answer.groups, asked |-> pending.mfa /\ ~answer.mfa,
   expires |-> oidcClock + SessionTTL]
claimsOK(answer, conf, pending) == answer.bind = conf.bind /\ answer.nonce = pending.state

\* The token's signature and claims; then both cookies in one answer, and
\* the browser goes back where it was.
Redeem(t) ==
  LET tab == tabs[t]
      left == jar.states \ {tab.pending}
      id == identityFrom(tab.answer, tab.pending)
      kept == [id EXCEPT !.groups = trimmed(tab.answer.groups, tab.conf)]
  IN /\ tab.at = "redeem"
     /\ \E up \in BOOLEAN :
          LET known == keysFor(discovered(client, up), tab.answer.kid) IN
          \/ /\ up /\ client' = known
             /\ known.disco /\ tab.answer.kid \in known.keys /\ claimsOK(tab.answer, tab.conf, tab.pending)
             /\ jar' = [session |-> [key |-> tab.key, bind |-> sessionBind(tab.conf), id |-> kept,
                                     said |-> tab.answer, sealed |-> tab.conf, signedAt |-> oidcClock],
                        states |-> left]
             /\ toTab(t, [IdleTab EXCEPT !.at = "asking", !.path = tab.path])
          \/ /\ client' = discovered(client, up) \/ (up /\ client' = known)
             /\ jar' = [jar EXCEPT !.states = left] /\ toTab(t, IdleTab)
     /\ UNCHANGED <<browserless, visits>>

OidcLogout(t) ==
  /\ tabs[t].at = "idle" /\ visits < MaxVisits /\ visits' = visits + 1
  /\ jar.session # NoCookie /\ jar' = [jar EXCEPT !.session = NoCookie]
  /\ \E up \in BOOLEAN : client' = discovered(client, up)
  /\ UNCHANGED <<browserless, tabs>>

-----------------------------------------------------------------------------
(* Around it: reloads, restarts, time *)

OidcReload ==
  /\ oidcReloads < MaxOidcReloads /\ oidcReloads' = oidcReloads + 1
  /\ oidcConf' \in OidcConfigs \ {oidcConf}
  /\ UNCHANGED <<cookieKey, client, jar, tabs, signingKey, oidcClock, visits>>
\* A new cookie key and nothing cached; calls under way are cut.
OidcRestart ==
  /\ cookieKey < MaxRestarts /\ cookieKey' = cookieKey + 1 /\ client' = NewClient
  /\ tabs' = [t \in Tabs |-> IF tabs[t].at = "redeem" THEN IdleTab ELSE tabs[t]]
  /\ UNCHANGED <<oidcConf, jar, signingKey, oidcClock, visits, oidcReloads>>
\* The browser drops cookies past their Max-Age.
OidcTick ==
  /\ oidcClock < MaxOidcClock /\ oidcClock' = oidcClock + 1
  /\ jar' = [session |-> IF jar.session # NoCookie /\ jar.session.id.expires <= oidcClock'
                         THEN NoCookie ELSE jar.session,
             states |-> {ck \in jar.states : ck.expires > oidcClock'}]
  /\ UNCHANGED <<oidcConf, cookieKey, client, tabs, signingKey, visits, oidcReloads>>

TabRuns(t) == GateLets(t) \/ GateRefuses(t) \/ GateSends(t) \/ ProviderAnswers(t) \/ Callback(t) \/ Redeem(t)
SignInNext == \/ \E t \in Tabs : TabRuns(t) \/ OidcLogout(t) \/ \E p \in Paths : Visit(t, p)
              \/ RotateKey \/ OidcReload \/ OidcRestart \/ OidcTick

\* Requests are answered, the browser follows redirects, and the provider
\* answers: without that no sign-in need end.
SignInFairness == \A t \in Tabs : WF_signInVars(TabRuns(t))
SignInSpec == SignInInit /\ [][SignInNext]_signInVars /\ SignInFairness

-----------------------------------------------------------------------------
(* Properties *)

\* Who reaches a guarded page was signed in by the provider for the client the
\* page's rule has now, with the MFA and a group it requires in the provider's
\* own answer, no longer ago than a session lasts: whatever reloads, restarts,
\* other tabs and sign-ins for other pages came in between.
SignedInIsMeant ==
  \A p \in Paths :
    LET g == oidcConf.guard[p] IN
    g.oidc /\ letsOn(g) => /\ jar.session.said.bind = oidcConf.bind
                          /\ meets(jar.session.said, g)
                          /\ oidcClock < jar.session.signedAt + SessionTTL

\* Groups left out of a cookie that would be too large decide nothing: under
\* the configuration it was sealed for, every page treats the session as it
\* would the provider's whole answer.
TrimmingDecidesNothing ==
  jar.session # NoCookie =>
    \A p \in Paths : LET g == jar.session.sealed.guard[p]
                     IN g.oidc => (meets(jar.session.id, g) <=> meets(jar.session.said, g))

\* Both: what a session opens is what the provider's answer allows.
SessionIsTheAnswer == SignedInIsMeant /\ TrimmingDecidesNothing

\* A browser sent round is not sent round for ever: asked for a page, it is
\* let on, refused or told why not, also when the provider never gives the
\* MFA a page wants.
SignInEnds == \A t \in Tabs : tabs[t].at # "idle" ~> tabs[t].at = "idle"
=============================================================================
