---------------------------- MODULE ConsoleProofs ----------------------------
(***************************************************************************)
(* Proofs about the console and about what a browser may rely on: signing  *)
(* in with the provider (SignIn), a CA's settings (CaSettings), signing in *)
(* to the console and the pages it keeps up to date (ConsoleTabs), and     *)
(* saving the configuration (ConfigSaves).                                 *)
(*                                                                         *)
(* SessionIsTheAnswer is not inductive, since it reads the running         *)
(* configuration, which a reload replaces under a session that stays.      *)
(* What does not change is the session against its own ghosts (SessionOK): *)
(* it was sealed for the client the provider answered, with the answer's   *)
(* MFA, and with its groups, all of them or those some route of that       *)
(* configuration asked for.                                                *)
(*                                                                         *)
(* SettingsAreTheFiles rests on what loadConfig holds between its steps    *)
(* (LoadSeen); GuessesAreMetered on verifyMu letting one sign-in through   *)
(* (GateOK); the properties of the saves on configFileMu: who is past it   *)
(* holds it alone (SaversExclude), so that only another program can come   *)
(* between the check of a save and its rename (SavesBuild).                *)
(*                                                                         *)
(* The certificates of a local CA (LocalCA): a key on disk is newer than   *)
(* those of every CA that was deleted while somebody still used it         *)
(* (DeadOK), who holds the lock of a host knows what the table has for it  *)
(* (HoldsOK), and a certificate that is neither due nor removed is in the  *)
(* table, about to be, of an older key than the CA's, or of a CA that a    *)
(* crash took (KnownOK).                                                   *)
(***************************************************************************)
EXTENDS SignIn, LocalCA, CaSettings, ConsoleTabs, ConfigSaves, TLAPS, FiniteSetTheorems, SequenceTheorems

-----------------------------------------------------------------------------
(* Signing in *)

SessionOK ==
  /\ jar = [session |-> jar.session, states |-> jar.states]
  /\ jar.session # NoCookie =>
       LET s == jar.session IN
       /\ s.bind = s.sealed.bind /\ s.said.bind = s.sealed.bind
       /\ s.id.mfa = s.said.mfa
       /\ s.id.groups \in {s.said.groups, s.said.groups \cap referenced(s.sealed)}
       /\ s.id.expires = s.signedAt + SessionTTL

\* What is left of the groups in a cookie (resolveOIDC, oidcAuth.redeem).
LEMMA TrimmedGroups ==
  ASSUME NEW gs, NEW c
  PROVE  trimmed(gs, c) \in {gs, gs \cap referenced(c)}
  BY DEF trimmed

\* A group that a guarded route asks for is one the cookie keeps.
LEMMA GuardsAreReferenced ==
  ASSUME NEW c, NEW p \in Paths, c.guard[p].oidc
  PROVE  c.guard[p].groups \subseteq referenced(c)
  BY DEF referenced

LEMMA SessionImplies ==
  ASSUME SessionOK
  PROVE  SessionIsTheAnswer
<1>1. SignedInIsMeant
  <2>1. SUFFICES ASSUME NEW p \in Paths, oidcConf.guard[p].oidc, letsOn(oidcConf.guard[p])
                 PROVE  /\ jar.session.said.bind = oidcConf.bind
                        /\ meets(jar.session.said, oidcConf.guard[p])
                        /\ oidcClock < jar.session.signedAt + SessionTTL
    BY DEF SignedInIsMeant
  <2>2. /\ jar.session # NoCookie /\ jar.session.bind = oidcConf.bind
        /\ oidcClock < jar.session.id.expires /\ meets(jar.session.id, oidcConf.guard[p])
    BY <2>1 DEF letsOn, sessionGood, sessionBind
  <2>3. jar.session.id.groups \subseteq jar.session.said.groups
    BY <2>2 DEF SessionOK
  <2> QED
    BY <2>2, <2>3 DEF SessionOK, meets
<1>2. TrimmingDecidesNothing
  <2>1. SUFFICES ASSUME jar.session # NoCookie, NEW p \in Paths, jar.session.sealed.guard[p].oidc
                 PROVE  meets(jar.session.id, jar.session.sealed.guard[p])
                        <=> meets(jar.session.said, jar.session.sealed.guard[p])
    BY DEF TrimmingDecidesNothing
  <2>2. jar.session.sealed.guard[p].groups \subseteq referenced(jar.session.sealed)
    BY <2>1, GuardsAreReferenced
  <2>3. jar.session.sealed.guard[p].groups \cap jar.session.id.groups
          = jar.session.sealed.guard[p].groups \cap jar.session.said.groups
    BY <2>1, <2>2 DEF SessionOK
  <2> QED
    BY <2>1, <2>3 DEF SessionOK, meets
<1> QED
  BY <1>1, <1>2 DEF SessionIsTheAnswer

LEMMA InitSession ==
  ASSUME SignInInit
  PROVE  SessionOK
  BY DEF SignInInit, SessionOK

\* Only redeem makes a session, of the answer and the configuration it was
\* sent for; a logout and time can only end one.
LEMMA SessionStep ==
  ASSUME SessionOK, SignInNext
  PROVE  SessionOK'
<1>u. ASSUME jar' = [session |-> jar'.session, states |-> jar'.states], jar'.session \in {jar.session, NoCookie}
      PROVE  SessionOK'
  BY <1>u DEF SessionOK, referenced
<1>1. ASSUME NEW t \in Tabs, GateLets(t) \/ GateRefuses(t) \/ ProviderAnswers(t) PROVE SessionOK'
  <2>1. jar' = jar
    BY <1>1 DEF GateLets, GateRefuses, ProviderAnswers
  <2> QED
    BY <1>u, <2>1 DEF SessionOK
<1>2. ASSUME NEW t \in Tabs, GateSends(t) PROVE SessionOK'
  <2>1. jar' = jar \/ \E st : jar' = [jar EXCEPT !.states = st]
    BY <1>2 DEF GateSends
  <2> QED
    BY <1>u, <2>1 DEF SessionOK
<1>3. ASSUME NEW t \in Tabs, Callback(t) PROVE SessionOK'
  <2>1. jar' = jar \/ \E st : jar' = [jar EXCEPT !.states = st]
    BY <1>3 DEF Callback
  <2> QED
    BY <1>u, <2>1 DEF SessionOK
<1>4. ASSUME NEW t \in Tabs, Redeem(t) PROVE SessionOK'
  <2> DEFINE tab == tabs[t]
             left == jar.states \ {tab.pending}
             groups == trimmed(tab.answer.groups, tab.conf)
             kept == [identityFrom(tab.answer, tab.pending) EXCEPT !.groups = groups]
             sealed == [key |-> tab.key, bind |-> sessionBind(tab.conf), id |-> kept,
                        said |-> tab.answer, sealed |-> tab.conf, signedAt |-> oidcClock]
  <2>1. \/ jar' = [jar EXCEPT !.states = left]
        \/ claimsOK(tab.answer, tab.conf, tab.pending) /\ jar' = [session |-> sealed, states |-> left]
    BY <1>4 DEF Redeem
  <2>2. CASE jar' = [jar EXCEPT !.states = left]
    BY <1>u, <2>2 DEF SessionOK
  <2>3. CASE claimsOK(tab.answer, tab.conf, tab.pending) /\ jar' = [session |-> sealed, states |-> left]
    <3>1. kept = [mfa |-> tab.answer.mfa, groups |-> groups, asked |-> tab.pending.mfa /\ ~tab.answer.mfa,
                  expires |-> oidcClock + SessionTTL]
      BY DEF identityFrom
    <3>2. sealed.bind = tab.conf.bind /\ tab.answer.bind = tab.conf.bind
      BY <2>3 DEF sessionBind, claimsOK
    <3>3. groups \in {tab.answer.groups, tab.answer.groups \cap referenced(tab.conf)}
      BY TrimmedGroups
    <3> HIDE DEF kept, groups
    <3>4. jar' = [session |-> jar'.session, states |-> jar'.states] /\ jar'.session = sealed
      BY <2>3
    <3>5. sealed.sealed = tab.conf /\ sealed.said = tab.answer /\ sealed.id = kept /\ sealed.signedAt = oidcClock
      OBVIOUS
    <3> HIDE DEF sealed
    <3>6. /\ kept.mfa = tab.answer.mfa /\ kept.groups = groups
          /\ kept.expires = oidcClock + SessionTTL
      BY <3>1
    <3>7. /\ jar'.session.bind = jar'.session.sealed.bind
          /\ jar'.session.said.bind = jar'.session.sealed.bind
      BY <3>2, <3>4, <3>5
    <3>8. /\ jar'.session.id.mfa = jar'.session.said.mfa
          /\ jar'.session.id.expires = jar'.session.signedAt + SessionTTL
      BY <3>4, <3>5, <3>6
    <3>9. jar'.session.id.groups
            \in {jar'.session.said.groups, jar'.session.said.groups \cap referenced(jar'.session.sealed)}
      BY <3>3, <3>4, <3>5, <3>6
    <3> QED
      BY <3>4, <3>7, <3>8, <3>9 DEF SessionOK, referenced
  <2> QED
    BY <2>1, <2>2, <2>3
<1>5. ASSUME NEW t \in Tabs, OidcLogout(t) PROVE SessionOK'
  BY <1>u, <1>5 DEF OidcLogout, SessionOK
<1>6. ASSUME \E t \in Tabs, p \in Paths : Visit(t, p) PROVE SessionOK'
  BY <1>u, <1>6 DEF Visit, SessionOK
<1>7. ASSUME RotateKey \/ OidcReload \/ OidcRestart PROVE SessionOK'
  BY <1>u, <1>7 DEF RotateKey, OidcReload, OidcRestart, SessionOK
<1>8. ASSUME OidcTick PROVE SessionOK'
  BY <1>u, <1>8 DEF OidcTick
<1> QED
  BY <1>1, <1>2, <1>3, <1>4, <1>5, <1>6, <1>7, <1>8 DEF SignInNext, TabRuns

LEMMA SessionSafe ==
  SignInInit /\ [][SignInNext]_signInVars => []SessionIsTheAnswer
<1>1. SignInInit => SessionOK
  BY InitSession
<1>2. SessionOK /\ [SignInNext]_signInVars => SessionOK'
  <2>1. ASSUME SessionOK, UNCHANGED signInVars PROVE SessionOK'
    BY <2>1 DEF SessionOK, signInVars, referenced
  <2> QED
    BY <2>1, SessionStep
<1>3. SessionOK => SessionIsTheAnswer
  BY SessionImplies
<1> QED
  BY <1>1, <1>2, <1>3, PTL

\* What a session opens is what the provider's answer allows (oidcAuth.gate,
\* redeem, resolveOIDC), for every set of routes, groups and configurations,
\* however many tabs, reloads and restarts.
THEOREM SignInIsTheAnswer == SignInSpec => []SessionIsTheAnswer
  BY SessionSafe, PTL DEF SignInSpec

\* What a browser holds at each step of a sign-in (oidc.go): nothing, what the
\* provider is asked, what it answered, what the callback redeems.
Binds == {c.bind : c \in OidcConfigs}
StateCookies == [state : StateTokens, key : 0..MaxRestarts, mfa : BOOLEAN, path : Paths, expires : Nat]
Sessions == [key : 0..MaxRestarts, bind : Binds, id : Identities, said : Answers,
             sealed : OidcConfigs, signedAt : Nat]
TabAtRest == [at : {"idle", "asking"}, path : Paths \cup {NoCookie}, state : {NoCookie}, answer : {NoCookie}]
AtProvider == [at : {"provider", "error"}, path : Paths, state : StateTokens,
               answer : [bind : Binds, nonce : StateTokens]]
AtCallback == [at : {"callback"}, path : Paths, state : StateTokens, answer : Answers]
AtRedeem == [at : {"redeem"}, path : Paths, state : StateTokens, conf : OidcConfigs,
             key : 0..MaxRestarts, pending : StateCookies, answer : Answers]
TabTypes == TabAtRest \cup AtProvider \cup AtCallback \cup AtRedeem

Clients == [disco : BOOLEAN, discAt : Nat, failAt : Nat, keys : SUBSET (0..MaxRotations), keysAt : Nat]

SignInTyped ==
  /\ oidcConf \in OidcConfigs /\ cookieKey \in 0..MaxRestarts /\ signingKey \in 0..MaxRotations
  /\ client \in Clients /\ oidcClock \in Nat
  /\ jar \in [session : Sessions \cup {NoCookie}, states : SUBSET StateCookies]
  /\ tabs \in [Tabs -> TabTypes]
  /\ \A t \in Tabs : tabs[t].at = "asking" => tabs[t].path \in Paths

LEMMA SignInTypedImplies ==
  ASSUME SignInTyped
  PROVE  SignInTypeOK
<1>1. jar.session \in Sessions \cup {NoCookie} /\ jar.states \in SUBSET StateCookies
  BY DEF SignInTyped
<1>2. ASSUME NEW t \in Tabs PROVE tabs[t].at \in {"idle", "asking", "provider", "callback", "error", "redeem"}
  BY DEF SignInTyped, TabTypes, TabAtRest, AtProvider, AtCallback, AtRedeem
<1> QED
  BY <1>1, <1>2 DEF SignInTyped, SignInTypeOK, Clients, Sessions, Binds, StateCookies

LEMMA NeverIsTime == Never \in Nat
  BY SignInAssumption DEF Never

LEMMA InitSignIn ==
  ASSUME SignInInit
  PROVE  SignInTyped
<1>1. NewClient \in Clients
  BY NeverIsTime DEF NewClient, Clients
<1>2. IdleTab \in TabTypes /\ IdleTab.at = "idle"
  BY DEF IdleTab, TabTypes, TabAtRest
<1>3. 0 \in 0..MaxRestarts /\ 0 \in 0..MaxRotations
  BY SignInAssumption
<1> QED
  BY <1>1, <1>2, <1>3 DEF SignInInit, SignInTyped

LEMMA DiscoveredTyped ==
  ASSUME SignInTyped, NEW up \in BOOLEAN
  PROVE  discovered(client, up) \in Clients
  BY NeverIsTime DEF SignInTyped, discovered, Clients

LEMMA ClientKeysTyped ==
  ASSUME SignInTyped, NEW c \in Clients, NEW kid
  PROVE  keysFor(c, kid) \in Clients
  BY DEF SignInTyped, keysFor, Clients

\* A step of one tab that leaves the server as it is, but for its client.
LEMMA SignInTabTyped ==
  ASSUME SignInTyped, NEW t \in Tabs, NEW rec \in TabTypes, rec.at = "asking" => rec.path \in Paths,
         toTab(t, rec), UNCHANGED browserless, client' \in Clients,
         jar' \in [session : Sessions \cup {NoCookie}, states : SUBSET StateCookies]
  PROVE  SignInTyped'
  BY DEF SignInTyped, toTab, browserless, Clients, TabTypes, TabAtRest, AtProvider, AtCallback, AtRedeem,
         Sessions, StateCookies, Binds, Answers, Identities

LEMMA RestingTabTyped ==
  /\ IdleTab \in TabTypes /\ IdleTab.at = "idle"
  /\ \A p \in Paths : LET tab == [IdleTab EXCEPT !.at = "asking", !.path = p]
                      IN tab \in TabTypes /\ tab.path \in Paths
  BY DEF IdleTab, TabTypes, TabAtRest

\* What an asking tab's route requires.
LEMMA GuardTyped ==
  ASSUME SignInTyped, NEW t \in Tabs, tabs[t].at = "asking"
  PROVE  /\ tabs[t] \in TabAtRest /\ tabs[t].path \in Paths
         /\ oidcConf.guard[tabs[t].path] \in [oidc : BOOLEAN, mfa : BOOLEAN, groups : SUBSET OidcGroups]
<1>1. tabs[t].path \in Paths /\ tabs[t] \in TabTypes /\ oidcConf \in OidcConfigs
  BY DEF SignInTyped
<1>2. tabs[t] \in TabAtRest
  BY <1>1 DEF TabTypes, AtProvider, AtCallback, AtRedeem
<1> QED
  BY <1>1, <1>2, SignInAssumption

LEMMA TokenTyped ==
  ASSUME unheld # {}
  PROVE  oidcToken \in StateTokens
<1>1. oidcToken \in unheld
  BY DEF oidcToken
<1> QED
  BY <1>1 DEF unheld

\* What redeem seals is of the answer and the configuration it holds.
LEMMA SealedTyped ==
  ASSUME SignInTyped, NEW tab \in AtRedeem,
         NEW kept, kept = [identityFrom(tab.answer, tab.pending) EXCEPT !.groups = trimmed(tab.answer.groups, tab.conf)]
  PROVE  [key |-> tab.key, bind |-> sessionBind(tab.conf), id |-> kept,
          said |-> tab.answer, sealed |-> tab.conf, signedAt |-> oidcClock] \in Sessions
<1>1. /\ tab.answer \in Answers /\ tab.pending \in StateCookies /\ tab.conf \in OidcConfigs
      /\ tab.key \in 0..MaxRestarts /\ oidcClock \in Nat
  BY DEF AtRedeem, SignInTyped
<1>2. trimmed(tab.answer.groups, tab.conf) \in SUBSET OidcGroups
  BY <1>1 DEF trimmed, Answers
<1>3. (tab.pending.mfa /\ ~tab.answer.mfa) \in BOOLEAN /\ tab.answer.mfa \in BOOLEAN
  BY <1>1 DEF Answers
<1>4. oidcClock + SessionTTL \in Nat
  BY <1>1, SignInAssumption
<1>5. kept \in Identities
  BY <1>2, <1>3, <1>4 DEF identityFrom, Identities
<1>6. sessionBind(tab.conf) \in Binds
  BY <1>1 DEF sessionBind, Binds
<1> QED
  BY <1>1, <1>5, <1>6 DEF Sessions

LEMMA SignInTypedStep ==
  ASSUME SignInTyped, SignInNext
  PROVE  SignInTyped'
<1> DEFINE Jars == [session : Sessions \cup {NoCookie}, states : SUBSET StateCookies]
<1>j. client \in Clients /\ jar \in Jars /\ tabs \in [Tabs -> TabTypes]
  BY DEF SignInTyped
<1>1. ASSUME NEW t \in Tabs, GateLets(t) \/ GateRefuses(t) PROVE SignInTyped'
  BY <1>1, <1>j, RestingTabTyped, SignInTabTyped DEF GateLets, GateRefuses
<1>2. ASSUME NEW t \in Tabs, GateSends(t) PROVE SignInTyped'
  <2> DEFINE g == oidcConf.guard[tabs[t].path]
             cookie == [state |-> oidcToken, key |-> cookieKey, mfa |-> g.mfa, path |-> tabs[t].path,
                        expires |-> oidcClock + StateTTL]
             sent == [tabs[t] EXCEPT !.at = "provider", !.state = oidcToken,
                                     !.answer = [bind |-> oidcConf.bind, nonce |-> oidcToken]]
  <2>1. /\ tabs[t] \in TabAtRest /\ tabs[t].path \in Paths /\ g.mfa \in BOOLEAN /\ UNCHANGED browserless
    BY <1>2, GuardTyped DEF GateSends
  <2>2. CASE toTab(t, IdleTab) /\ UNCHANGED <<client, jar>>
    BY <2>1, <2>2, <1>j, RestingTabTyped, SignInTabTyped
  <2>3. ASSUME NEW up \in BOOLEAN, client' = discovered(client, up), toTab(t, IdleTab), UNCHANGED jar
        PROVE  SignInTyped'
    BY <2>1, <2>3, <1>j, RestingTabTyped, SignInTabTyped, DiscoveredTyped
  <2>4. ASSUME NEW up \in BOOLEAN, client' = discovered(client, up), unheld # {},
               jar' = [jar EXCEPT !.states = @ \cup {cookie}], toTab(t, sent)
        PROVE  SignInTyped'
    <3>1. oidcToken \in StateTokens
      BY <2>4, TokenTyped
    <3>2. cookie \in StateCookies
      BY <2>1, <3>1, SignInAssumption DEF SignInTyped, StateCookies
    <3>3. sent \in AtProvider /\ sent.at = "provider"
      BY <2>1, <3>1 DEF SignInTyped, TabAtRest, AtProvider, Binds
    <3>4. client' \in Clients
      BY <2>4, DiscoveredTyped
    <3> HIDE DEF cookie, sent
    <3>5. jar' \in Jars
      BY <1>j, <2>4, <3>2
    <3> QED
      BY <2>1, <2>4, <3>3, <3>4, <3>5, SignInTabTyped DEF TabTypes
  <2> QED
    BY <1>2, <2>2, <2>3, <2>4 DEF GateSends
<1>3. ASSUME NEW t \in Tabs, ProviderAnswers(t) PROVE SignInTyped'
  <2>1. tabs[t] \in AtProvider
    BY <1>3, <1>j DEF ProviderAnswers, TabTypes, TabAtRest, AtProvider, AtCallback, AtRedeem
  <2>2. ASSUME NEW mfa \in BOOLEAN, NEW gs \in SUBSET OidcGroups,
               toTab(t, [tabs[t] EXCEPT !.at = "callback",
                 !.answer = [bind |-> tabs[t].answer.bind, nonce |-> tabs[t].answer.nonce,
                             kid |-> signingKey, mfa |-> mfa, groups |-> gs]])
        PROVE  SignInTyped'
    <3> DEFINE answer == [bind |-> tabs[t].answer.bind, nonce |-> tabs[t].answer.nonce,
                          kid |-> signingKey, mfa |-> mfa, groups |-> gs]
               back == [tabs[t] EXCEPT !.at = "callback", !.answer = answer]
    <3>1. answer \in Answers
      BY <2>1, <2>2 DEF SignInTyped, AtProvider, Answers, Binds
    <3> HIDE DEF answer
    <3>2. back \in AtCallback /\ back.at = "callback"
      BY <2>1, <3>1 DEF AtProvider, AtCallback
    <3>3. toTab(t, back)
      BY <2>2 DEF answer
    <3> HIDE DEF back
    <3> QED
      BY <1>3, <1>j, <3>2, <3>3, SignInTabTyped DEF ProviderAnswers, TabTypes
  <2>3. ASSUME toTab(t, [tabs[t] EXCEPT !.at = "error"]) PROVE SignInTyped'
    <3> DEFINE failed == [tabs[t] EXCEPT !.at = "error"]
    <3>1. failed \in AtProvider /\ failed.at = "error"
      BY <2>1 DEF AtProvider
    <3> QED
      BY <1>3, <1>j, <2>3, <3>1, SignInTabTyped DEF ProviderAnswers, TabTypes
  <2> QED
    BY <1>3, <1>j, <2>2, <2>3, RestingTabTyped, SignInTabTyped DEF ProviderAnswers
<1>4. ASSUME NEW t \in Tabs, Callback(t) PROVE SignInTyped'
  <2>1. CASE toTab(t, IdleTab) /\ jar' = [jar EXCEPT !.states = @ \ pendingOf(t)]
    <3>1. jar' \in Jars
      BY <1>j, <2>1
    <3> QED
      BY <1>4, <1>j, <2>1, <3>1, RestingTabTyped, SignInTabTyped DEF Callback
  <2>2. ASSUME NEW pending \in pendingOf(t), tabs[t].at = "callback", UNCHANGED jar,
               toTab(t, [at |-> "redeem", path |-> pending.path, state |-> tabs[t].state, conf |-> oidcConf,
                         key |-> cookieKey, pending |-> pending, answer |-> tabs[t].answer])
        PROVE  SignInTyped'
    <3> DEFINE tab == [at |-> "redeem", path |-> pending.path, state |-> tabs[t].state, conf |-> oidcConf,
                       key |-> cookieKey, pending |-> pending, answer |-> tabs[t].answer]
    <3>1. tabs[t] \in AtCallback
      BY <1>j, <2>2 DEF TabTypes, TabAtRest, AtProvider, AtCallback, AtRedeem
    <3>2. pending \in StateCookies
      BY <1>j DEF pendingOf
    <3>3. tab \in AtRedeem /\ tab.at = "redeem"
      BY <3>1, <3>2 DEF SignInTyped, AtCallback, AtRedeem, StateCookies
    <3> QED
      BY <1>4, <1>j, <2>2, <3>3, SignInTabTyped DEF Callback, TabTypes
  <2> QED
    BY <1>4, <2>1, <2>2 DEF Callback
<1>5. ASSUME NEW t \in Tabs, Redeem(t) PROVE SignInTyped'
  <2> DEFINE tab == tabs[t]
             left == jar.states \ {tab.pending}
             kept == [identityFrom(tab.answer, tab.pending) EXCEPT !.groups = trimmed(tab.answer.groups, tab.conf)]
             sealed == [key |-> tab.key, bind |-> sessionBind(tab.conf), id |-> kept,
                        said |-> tab.answer, sealed |-> tab.conf, signedAt |-> oidcClock]
             again == [IdleTab EXCEPT !.at = "asking", !.path = tab.path]
  <2>1. tab \in AtRedeem
    BY <1>5, <1>j DEF Redeem, TabTypes, TabAtRest, AtProvider, AtCallback, AtRedeem
  <2>2. sealed \in Sessions
    <3> HIDE DEF kept
    <3> QED
      BY <2>1, SealedTyped DEF kept
  <2>3. PICK up \in BOOLEAN :
          LET known == keysFor(discovered(client, up), tab.answer.kid) IN
          /\ client' \in {known, discovered(client, up)}
          /\ \/ jar' = [session |-> sealed, states |-> left] /\ toTab(t, again)
             \/ jar' = [jar EXCEPT !.states = left] /\ toTab(t, IdleTab)
    BY <1>5 DEF Redeem
  <2>4. client' \in Clients
    BY <2>3, DiscoveredTyped, ClientKeysTyped
  <2>5. again \in TabTypes /\ again.path \in Paths
    BY <2>1, RestingTabTyped DEF AtRedeem
  <2>6. left \in SUBSET StateCookies /\ UNCHANGED browserless
    BY <1>5, <1>j DEF Redeem
  <2> HIDE DEF sealed, left, again
  <2>7. jar' \in Jars
    BY <1>j, <2>2, <2>3, <2>6
  <2> QED
    BY <2>3, <2>4, <2>5, <2>6, <2>7, RestingTabTyped, SignInTabTyped
<1>6. ASSUME NEW t \in Tabs, OidcLogout(t) PROVE SignInTyped'
  <2>1. client' \in Clients
    BY <1>6, DiscoveredTyped DEF OidcLogout
  <2>2. jar' \in Jars
    BY <1>6, <1>j DEF OidcLogout
  <2> QED
    BY <1>6, <2>1, <2>2 DEF OidcLogout, SignInTyped, browserless, Clients, TabTypes, TabAtRest, AtProvider,
       AtCallback, AtRedeem, Sessions, StateCookies, Binds, Answers, Identities
<1>7. ASSUME NEW t \in Tabs, NEW p \in Paths, Visit(t, p) PROVE SignInTyped'
  BY <1>7, <1>j, RestingTabTyped, SignInTabTyped DEF Visit
<1>8. ASSUME RotateKey \/ OidcReload PROVE SignInTyped'
  BY <1>8, SignInAssumption DEF RotateKey, OidcReload, SignInTyped, Clients, TabTypes, TabAtRest, AtProvider,
     AtCallback, AtRedeem, Sessions, StateCookies, Binds, Answers, Identities
<1>9. ASSUME OidcRestart PROVE SignInTyped'
  <2>1. NewClient \in Clients /\ cookieKey' \in 0..MaxRestarts
    BY <1>9, NeverIsTime, SignInAssumption DEF OidcRestart, NewClient, Clients, SignInTyped
  <2>2. tabs' \in [Tabs -> TabTypes] /\ \A t \in Tabs : tabs'[t].at = "asking" => tabs'[t].path \in Paths
    BY <1>9, <1>j, RestingTabTyped DEF OidcRestart, SignInTyped
  <2> QED
    BY <1>9, <2>1, <2>2 DEF OidcRestart, SignInTyped, Clients, TabTypes, TabAtRest, AtProvider,
       AtCallback, AtRedeem, Sessions, StateCookies, Binds, Answers, Identities
<1>10. ASSUME OidcTick PROVE SignInTyped'
  <2>1. oidcClock' \in Nat /\ jar' \in Jars
    BY <1>10, <1>j DEF OidcTick, SignInTyped
  <2> QED
    BY <1>10, <2>1 DEF OidcTick, SignInTyped, Clients, TabTypes, TabAtRest, AtProvider,
       AtCallback, AtRedeem, Sessions, StateCookies, Binds, Answers, Identities
<1> QED
  BY <1>1, <1>2, <1>3, <1>4, <1>5, <1>6, <1>7, <1>8, <1>9, <1>10 DEF SignInNext, TabRuns

LEMMA SignInSafe ==
  SignInInit /\ [][SignInNext]_signInVars => []SignInTypeOK
<1>1. SignInInit => SignInTyped
  BY InitSignIn
<1>2. SignInTyped /\ [SignInNext]_signInVars => SignInTyped'
  <2>1. ASSUME SignInTyped, UNCHANGED signInVars PROVE SignInTyped'
    BY <2>1 DEF SignInTyped, signInVars, Clients, TabTypes, TabAtRest, AtProvider,
       AtCallback, AtRedeem, Sessions, StateCookies, Binds, Answers, Identities
  <2> QED
    BY <2>1, SignInTypedStep
<1>3. SignInTyped => SignInTypeOK
  BY SignInTypedImplies
<1> QED
  BY <1>1, <1>2, <1>3, PTL

\* Every cookie, session, tab and cached key keeps its shape: a session only
\* ever holds what redeem sealed from an answer of the provider (oidc.go).
THEOREM SignInTypesHold == SignInSpec => []SignInTypeOK
  BY SignInSafe, PTL DEF SignInSpec

-----------------------------------------------------------------------------
(* A CA's settings *)

SetTexts == GoodTexts \cup BrokenTexts \cup {NoText}

\* What loadConfig holds between its steps: a time no later than the file's,
\* and under the file's own time the file's own text, if it could be read.
LoadSeen ==
  /\ setUse.mtime <= setFile.mtime /\ setLoad.mtime <= setFile.mtime
  /\ setFile.mtime = 0 => setFile.text = NoText
  /\ setLoad.at # "set" => setLoad.text = NoText /\ ~setLoad.unread
  /\ setLoad.unread => setLoad.text = NoText
  /\ setLoad.at = "set" /\ setLoad.mtime = setFile.mtime /\ ~setLoad.unread => setLoad.text = setFile.text

SettingsIInv == SettingsTypeOK /\ LoadSeen /\ SettingsAreTheFiles

LEMMA InitSettings ==
  ASSUME SettingsInit
  PROVE  SettingsIInv
<1>1. SettingsTypeOK
  BY CaSettingsAssumption DEF SettingsInit, SettingsTypeOK, NoLoad, defaults
<1>2. LoadSeen
  BY DEF SettingsInit, LoadSeen, NoLoad, defaults
<1>3. SettingsAreTheFiles
  BY CaSettingsAssumption DEF SettingsInit, SettingsAreTheFiles, fileInUse, defaults
<1> QED
  BY <1>1, <1>2, <1>3 DEF SettingsIInv

\* A newly written file is later than every time looked at before.
LEMMA WrittenSettings ==
  ASSUME SettingsIInv, NEW t \in SetTexts, setFile' = written(t)
  PROVE  /\ setFile' \in [text : SetTexts, mtime : Nat]
         /\ setFile'.text = t /\ setFile'.mtime = setFile.mtime + 1
         /\ setUse.mtime \in Nat /\ setUse.mtime < setFile'.mtime
         /\ setLoad.mtime \in Nat /\ setLoad.mtime < setFile'.mtime
  BY DEF SettingsIInv, SettingsTypeOK, LoadSeen, written, SetTexts

\* A file that is there is later than the time of settings nothing was read for.
LEMMA DefaultsInUse ==
  ASSUME SettingsIInv, UNCHANGED setFile, setUse'.mtime = 0
  PROVE  SettingsAreTheFiles'
  BY DEF SettingsIInv, LoadSeen, SettingsAreTheFiles, fileInUse

LEMMA SetFaultBound ==
  ASSUME SettingsIInv, setFault \/ UNCHANGED setFaults
  PROVE  setFaults' \in 0..MaxSetFaults
  BY CaSettingsAssumption DEF SettingsIInv, SettingsTypeOK, setFault

LEMMA SettingsStep ==
  ASSUME SettingsIInv, SettingsNext
  PROVE  SettingsIInv'
<1> USE DEF SettingsIInv
<1>1. ASSUME StatSettings PROVE SettingsIInv'
  <2>1. setFaults' \in 0..MaxSetFaults /\ UNCHANGED <<setFile, setOld, setSave, setEdits>>
    BY <1>1, SetFaultBound DEF StatSettings
  <2>2. CASE setUse' = defaults(TRUE) /\ UNCHANGED setLoad
    <3>1. setUse'.mtime = 0
      BY <2>2 DEF defaults
    <3> QED
      BY <1>1, <2>1, <2>2, <3>1, DefaultsInUse, CaSettingsAssumption DEF StatSettings, SettingsTypeOK, LoadSeen, defaults
  <2>3. CASE setLoad' = [NoLoad EXCEPT !.at = "absent"] /\ UNCHANGED setUse
    <3>1. setLoad' = [at |-> "absent", mtime |-> 0, text |-> NoText, unread |-> FALSE] /\ UNCHANGED setUse
      BY <2>3 DEF NoLoad
    <3>2. SettingsTypeOK'
      BY <2>1, <3>1 DEF SettingsTypeOK
    <3>3. LoadSeen'
      BY <2>1, <3>1 DEF SettingsTypeOK, LoadSeen
    <3> QED
      BY <2>1, <3>1, <3>2, <3>3 DEF SettingsAreTheFiles, fileInUse
  <2>4. CASE setLoad' = [NoLoad EXCEPT !.at = "read", !.mtime = setFile.mtime] /\ UNCHANGED setUse
    <3>1. setLoad' = [at |-> "read", mtime |-> setFile.mtime, text |-> NoText, unread |-> FALSE] /\ UNCHANGED setUse
      BY <2>4 DEF NoLoad
    <3>2. SettingsTypeOK'
      BY <2>1, <3>1 DEF SettingsTypeOK
    <3>3. LoadSeen'
      BY <2>1, <3>1 DEF SettingsTypeOK, LoadSeen
    <3> QED
      BY <2>1, <3>1, <3>2, <3>3 DEF SettingsAreTheFiles, fileInUse
  <2>5. CASE setUse' = [setUse EXCEPT !.broken = TRUE, !.mtime = 0] /\ UNCHANGED setLoad
    <3>1. setUse' \in [text : GoodTexts, broken : BOOLEAN, mtime : Nat, unread : BOOLEAN] /\ setUse'.mtime = 0
      BY <2>5 DEF SettingsTypeOK
    <3> QED
      BY <1>1, <2>1, <2>5, <3>1, DefaultsInUse DEF StatSettings, SettingsTypeOK, LoadSeen
  <2> QED
    BY <1>1, <2>2, <2>3, <2>4, <2>5 DEF StatSettings
<1>2. ASSUME WriteDefaults PROVE SettingsIInv'
  <2>1. setFaults' \in 0..MaxSetFaults
    BY <1>2, SetFaultBound DEF WriteDefaults
  <2>2. CASE setFile' = written(DefaultText) /\ setLoad' = [setLoad EXCEPT !.at = "made"] /\ UNCHANGED setUse
    <3>1. DefaultText \in SetTexts
      BY CaSettingsAssumption DEF SetTexts
    <3>2. /\ setFile' \in [text : SetTexts, mtime : Nat] /\ setUse.mtime < setFile'.mtime
          /\ setFile'.mtime = setFile.mtime + 1 /\ setLoad.mtime < setFile'.mtime
      BY <2>2, <3>1, WrittenSettings
    <3> QED
      BY <1>2, <2>1, <2>2, <3>2 DEF WriteDefaults, SettingsTypeOK, LoadSeen, SettingsAreTheFiles, SetTexts
  <2>3. CASE setUse' = defaults(TRUE) /\ setLoad' = NoLoad /\ UNCHANGED setFile
    <3>1. setUse'.mtime = 0
      BY <2>3 DEF defaults
    <3> QED
      BY <1>2, <2>1, <2>3, <3>1, DefaultsInUse, CaSettingsAssumption
         DEF WriteDefaults, SettingsTypeOK, LoadSeen, defaults, NoLoad
  <2> QED
    BY <1>2, <2>2, <2>3 DEF WriteDefaults
<1>3. ASSUME StatAgain PROVE SettingsIInv'
  <2>1. setFaults' \in 0..MaxSetFaults
    BY <1>3, SetFaultBound DEF StatAgain
  <2>2. setSave' \in GoodTexts \cup {NoText} /\ setLoad' = NoLoad /\ UNCHANGED <<setFile, setOld, setEdits>>
    BY <1>3 DEF StatAgain, SettingsTypeOK
  <2>3. CASE setUse' = [defaults(FALSE) EXCEPT !.mtime = setFile.mtime, !.unread = setFile.text # DefaultText]
    <3>1. /\ setUse' = [text |-> DefaultText, broken |-> FALSE, mtime |-> setFile.mtime,
                         unread |-> setFile.text # DefaultText]
          /\ setLoad' = [at |-> "idle", mtime |-> 0, text |-> NoText, unread |-> FALSE]
      BY <2>2, <2>3 DEF defaults, NoLoad
    <3>2. SettingsTypeOK'
      BY <2>1, <2>2, <3>1, CaSettingsAssumption DEF SettingsTypeOK
    <3>3. LoadSeen'
      BY <2>2, <3>1 DEF SettingsTypeOK, LoadSeen
    <3>4. SettingsAreTheFiles'
      BY <2>2, <3>1, CaSettingsAssumption DEF SettingsAreTheFiles, fileInUse
    <3> QED
      BY <3>2, <3>3, <3>4
  <2>4. CASE UNCHANGED setUse
    BY <2>1, <2>2, <2>4 DEF SettingsTypeOK, LoadSeen, SettingsAreTheFiles, fileInUse, NoLoad
  <2>5. CASE setUse' = defaults(FALSE)
    <3>1. setUse'.mtime = 0
      BY <2>5 DEF defaults
    <3> QED
      BY <2>1, <2>2, <2>5, <3>1, DefaultsInUse, CaSettingsAssumption DEF SettingsTypeOK, LoadSeen, defaults, NoLoad
  <2> QED
    BY <1>3, <2>3, <2>4, <2>5 DEF StatAgain
<1>4. ASSUME ReadSettings PROVE SettingsIInv'
  <2>1. setFaults' \in 0..MaxSetFaults
    BY <1>4, SetFaultBound DEF ReadSettings
  <2>2. /\ setLoad' \in [at : {"set"}, mtime : {setLoad.mtime}, text : SetTexts, unread : BOOLEAN]
        /\ IF setLoad'.unread THEN setLoad'.text = setLoad.text ELSE setLoad'.text = setFile.text
    BY <1>4 DEF ReadSettings, LoadSeen, SettingsTypeOK, SetTexts
  <2>3. UNCHANGED <<setFile, setOld, setUse, setSave, setEdits>> /\ setLoad.at = "read"
    BY <1>4 DEF ReadSettings
  <2>4. SettingsTypeOK'
    BY <2>1, <2>2, <2>3 DEF SettingsTypeOK, SetTexts
  <2>5. setLoad'.unread => setLoad'.text = NoText
    BY <2>2, <2>3 DEF LoadSeen
  <2>6. LoadSeen'
    BY <2>2, <2>3, <2>5 DEF LoadSeen, SettingsTypeOK
  <2> QED
    BY <2>3, <2>4, <2>6 DEF SettingsAreTheFiles, fileInUse
<1>5. ASSUME SetSettings PROVE SettingsIInv'
  <2>1. /\ setUse' \in [text : GoodTexts, broken : BOOLEAN, mtime : Nat, unread : BOOLEAN]
        /\ setUse'.mtime = setLoad.mtime
        /\ setLoad.text \in GoodTexts => setUse'.text = setLoad.text /\ ~setUse'.broken /\ ~setLoad.unread
        /\ setLoad.text \notin GoodTexts => setUse'.broken /\ setUse'.unread = setLoad.unread
    BY <1>5, CaSettingsAssumption DEF SetSettings, SettingsTypeOK, LoadSeen, timeOfLoad
  <2> QED
    BY <1>5, <2>1 DEF SetSettings, SettingsTypeOK, LoadSeen, SettingsAreTheFiles, fileInUse, NoLoad
<1>6. ASSUME NEW t \in GoodTexts, AskSave(t) PROVE SettingsIInv'
  BY <1>6, CaSettingsAssumption DEF AskSave, SettingsTypeOK, LoadSeen, SettingsAreTheFiles, fileInUse
<1>7. ASSUME WriteSave PROVE SettingsIInv'
  <2>1. setFaults' \in 0..MaxSetFaults
    BY <1>7, SetFaultBound DEF WriteSave
  <2>2. CASE setFile' = written(setSave)
    <3>1. setSave \in SetTexts
      BY DEF SettingsTypeOK, SetTexts
    <3>2. /\ setFile' \in [text : SetTexts, mtime : Nat] /\ setUse.mtime < setFile'.mtime
          /\ setFile'.mtime = setFile.mtime + 1 /\ setLoad.mtime < setFile'.mtime
      BY <2>2, <3>1, WrittenSettings
    <3> QED
      BY <1>7, <2>1, <3>2 DEF WriteSave, SettingsTypeOK, LoadSeen, SettingsAreTheFiles, SetTexts
  <2>3. CASE UNCHANGED setFile
    BY <1>7, <2>1, <2>3 DEF WriteSave, SettingsTypeOK, LoadSeen, SettingsAreTheFiles, fileInUse
  <2> QED
    BY <1>7, <2>2, <2>3 DEF WriteSave
<1>8. ASSUME NEW t \in SetTexts, EditByHand(t) PROVE SettingsIInv'
  <2>1. /\ setFile' \in [text : SetTexts, mtime : Nat] /\ setUse.mtime < setFile'.mtime
        /\ setFile'.mtime = setFile.mtime + 1 /\ setLoad.mtime < setFile'.mtime
    BY <1>8, WrittenSettings DEF EditByHand
  <2> QED
    BY <1>8, <2>1, CaSettingsAssumption DEF EditByHand, SettingsTypeOK, LoadSeen, SettingsAreTheFiles, SetTexts
<1> QED
  BY <1>1, <1>2, <1>3, <1>4, <1>5, <1>6, <1>7, <1>8 DEF SettingsNext, LoadSettings, SetTexts

LEMMA SettingsInductive ==
  SettingsInit /\ [][SettingsNext]_settingsVars => []SettingsIInv
<1>1. SettingsIInv /\ [SettingsNext]_settingsVars => SettingsIInv'
  <2>1. ASSUME SettingsIInv, UNCHANGED settingsVars PROVE SettingsIInv'
    BY <2>1 DEF SettingsIInv, settingsVars, SettingsTypeOK, LoadSeen, SettingsAreTheFiles, fileInUse
  <2> QED
    BY <2>1, SettingsStep
<1> QED
  BY <1>1, InitSettings, PTL

\* Settings under a time at which loadConfig read the file are the file's, for
\* every text it may hold, however it is edited while it is read and whichever
\* calls fail; the defaults written a moment before an edit, and a read that
\* failed, are marked unread (localCA.loadConfig).
THEOREM SettingsFollowTheFile == SettingsSpec => [](SettingsTypeOK /\ SettingsAreTheFiles)
  BY SettingsInductive, PTL DEF SettingsIInv, SettingsSpec

-----------------------------------------------------------------------------
(* Signing in to the console *)

\* The gate: at most one sign-in is at work, one the lock-out let in.
GateOK ==
  /\ gate = [failures |-> gate.failures, until |-> gate.until, verifying |-> gate.verifying,
             since |-> gate.since, guesses |-> gate.guesses]
  /\ gate.verifying = {} \/ \E p \in Pages : gate.verifying = {p}
  /\ gate.verifying # {} => gate.since >= gate.until

LEMMA GateStep ==
  ASSUME GateOK, ConsoleTabsNext
  PROVE  GateOK'
<1>1. ASSUME NEW p \in Pages, LoginBegin(p) PROVE GateOK'
  <2>1. /\ gate' = [failures |-> gate.failures, until |-> gate.until, verifying |-> {p},
                    since |-> now, guesses |-> gate.guesses + 1]
        /\ now >= gate.until
    BY <1>1 DEF LoginBegin, verifyFree, GateOK
  <2> QED
    BY <2>1 DEF GateOK
<1>2. ASSUME NEW p \in Pages, LoginEnd(p) PROVE GateOK'
  <2>1. gate.verifying = {p}
    BY <1>2 DEF LoginEnd, GateOK
  <2>2. \E n, u : gate' = [failures |-> n, until |-> u, verifying |-> gate.verifying \ {p},
                           since |-> gate.since, guesses |-> gate.guesses]
    BY <1>2 DEF LoginEnd, GateOK
  <2> QED
    BY <2>1, <2>2 DEF GateOK
<1>3. ASSUME gate' = gate PROVE GateOK'
  BY <1>3 DEF GateOK
<1> QED
  BY <1>1, <1>2, <1>3 DEF ConsoleTabsNext, SocketRuns, Broadcasts, ConsoleLogout, Toggle, OpenSocket, Subscribe, FirstFrame,
       RecvFrame, Unsubscribe, CutOff, PageLeft, ConsoleTick, Traffic, Wakes, BuildFrame, SendFrame

LEMMA GateImplies ==
  ASSUME GateOK
  PROVE  GuessesAreMetered
<1>1. Cardinality({}) = 0
  BY FS_EmptySet
<1>2. Cardinality(gate.verifying) \in {0, 1}
  BY <1>1, FS_Singleton DEF GateOK
<1> QED
  BY <1>2 DEF GateOK, GuessesAreMetered

LEMMA GuessesSafe ==
  ConsoleTabsInit /\ [][ConsoleTabsNext]_tabVars => []GuessesAreMetered
<1>1. ConsoleTabsInit => GateOK
  BY DEF ConsoleTabsInit, GateOK
<1>2. GateOK /\ [ConsoleTabsNext]_tabVars => GateOK'
  <2>1. ASSUME GateOK, UNCHANGED tabVars PROVE GateOK'
    BY <2>1 DEF GateOK, tabVars
  <2> QED
    BY <2>1, GateStep
<1>3. GateOK => GuessesAreMetered
  BY GateImplies
<1> QED
  BY <1>1, <1>2, <1>3, PTL

\* However many pages sign in at once, passwords are checked one at a time
\* and none while the lock-out runs (console.login, verifyMu), for every
\* lockAfter and every time.
THEOREM GuessesStayMetered == ConsoleTabsSpec => []GuessesAreMetered
  BY GuessesSafe, PTL DEF ConsoleTabsSpec
-----------------------------------------------------------------------------
(* The pages that follow the state *)

Frames == [traffic : Nat, rule : {"unknown", "running", "stopped"}]
Sockets == [at : {"none", "receiver", "counted", "open", "closing"}, queue : Seq(Frames), shown : Frames]
CountedAt == {"counted", "open", "closing"}
counted == {p \in Pages : socket[p].at \in CountedAt}

TabsTyped ==
  /\ now \in 1..MaxConsoleClock
  /\ world \in Frames /\ caster \in [at : {"sleep", "build", "send"}, last : Frames, frame : Frames]
  /\ socket \in [Pages -> Sockets]
  /\ \A p \in Pages : Len(socket[p].queue) <= stateQueueCapacity

\* The frames are built as long as the count of viewers is not 0.
Counted == stateViewers = Cardinality(counted)

TabsIInv == TabsTyped /\ Counted

LEMMA CountedIsFinite == IsFiniteSet(counted) /\ Cardinality(counted) \in Nat
<1>1. IsFiniteSet(counted)
  BY ConsoleTabsAssumption, FS_Subset DEF counted
<1> QED
  BY <1>1, FS_CardinalityType

\* A step of one page's socket between two of its places.
LEMMA SocketMoves ==
  ASSUME TabsIInv, NEW p \in Pages, NEW s \in Sockets, Len(s.queue) <= stateQueueCapacity,
         socket' = [socket EXCEPT ![p] = s], UNCHANGED <<now, world, caster>>,
         stateViewers' = IF socket[p].at \in CountedAt
                         THEN IF s.at \in CountedAt THEN stateViewers ELSE stateViewers - 1
                         ELSE IF s.at \in CountedAt THEN stateViewers + 1 ELSE stateViewers
  PROVE  TabsIInv'
<1>1. TabsTyped'
  BY DEF TabsIInv, TabsTyped
<1>2. counted' = {q \in Pages : IF q = p THEN s.at \in CountedAt ELSE socket[q].at \in CountedAt}
  BY DEF counted, TabsIInv, TabsTyped
<1>3. IsFiniteSet(counted) /\ Cardinality(counted) \in Nat
  BY CountedIsFinite
<1>4. Counted'
  <2>1. CASE socket[p].at \in CountedAt /\ s.at \notin CountedAt
    <3>1. counted' = counted \ {p} /\ p \in counted
      BY <1>2, <2>1 DEF counted
    <3>2. Cardinality(counted') = Cardinality(counted) - 1
      BY <1>3, <3>1, FS_RemoveElement
    <3> QED
      BY <2>1, <3>2 DEF TabsIInv, Counted
  <2>2. CASE socket[p].at \notin CountedAt /\ s.at \in CountedAt
    <3>1. counted' = counted \cup {p} /\ p \notin counted
      BY <1>2, <2>2 DEF counted
    <3>2. Cardinality(counted') = Cardinality(counted) + 1
      BY <1>3, <3>1, FS_AddElement
    <3> QED
      BY <2>2, <3>2 DEF TabsIInv, Counted
  <2>3. CASE socket[p].at \in CountedAt <=> s.at \in CountedAt
    <3>1. counted' = counted
      BY <1>2, <2>3 DEF counted
    <3> QED
      BY <2>3, <3>1 DEF TabsIInv, Counted
  <2> QED
    BY <2>1, <2>2, <2>3
<1> QED
  BY <1>1, <1>4 DEF TabsIInv

\* A full queue loses its oldest frame.
LEMMA EnqueueBounded ==
  ASSUME NEW q \in Seq(Frames), NEW f \in Frames, Len(q) <= stateQueueCapacity
  PROVE  enqueue(q, f) \in Seq(Frames) /\ Len(enqueue(q, f)) <= stateQueueCapacity
<1>1. CASE Len(q) < stateQueueCapacity
  BY <1>1, ConsoleTabsAssumption DEF enqueue
<1>2. CASE Len(q) >= stateQueueCapacity
  <2>1. q # <<>>
    BY <1>2, ConsoleTabsAssumption
  <2>2. Tail(q) \in Seq(Frames) /\ Len(Tail(q)) = Len(q) - 1
    BY <2>1
  <2>3. Append(Tail(q), f) \in Seq(Frames) /\ Len(Append(Tail(q), f)) = Len(q)
    BY <2>2
  <2> QED
    BY <1>2, <2>3, ConsoleTabsAssumption DEF enqueue
<1> QED
  BY <1>1, <1>2, ConsoleTabsAssumption

\* A page shows a frame and has the rest of its queue left.
LEMMA FrameShown ==
  ASSUME NEW s \in Sockets, NEW f \in Frames, NEW q \in Seq(Frames)
  PROVE  [[s EXCEPT !.shown = f] EXCEPT !.queue = q] = [at |-> s.at, queue |-> q, shown |-> f]
<1>1. PICK t \in Sockets : t = [s EXCEPT !.shown = f]
  BY DEF Sockets
<1>2. t = [at |-> s.at, queue |-> s.queue, shown |-> f]
  BY <1>1 DEF Sockets
<1>3. [t EXCEPT !.queue = q] = [at |-> s.at, queue |-> q, shown |-> f]
  BY <1>2
<1> QED
  BY <1>1, <1>3

LEMMA SocketSteps ==
  ASSUME TabsIInv, NEW p \in Pages,
         OpenSocket(p) \/ Subscribe(p) \/ FirstFrame(p) \/ RecvFrame(p) \/ CutOff(p) \/ PageLeft(p) \/ Unsubscribe(p)
  PROVE  TabsIInv'
<1> DEFINE s == socket[p]
<1>0. /\ s \in Sockets /\ Len(s.queue) <= stateQueueCapacity /\ s.queue \in Seq(Frames)
      /\ s = [at |-> s.at, queue |-> s.queue, shown |-> s.shown] /\ s.shown \in Frames
      /\ world \in Frames /\ NoFrame \in Frames
      /\ noSocket = [at |-> "none", queue |-> <<>>, shown |-> NoFrame]
  BY DEF TabsIInv, TabsTyped, Sockets, NoFrame, Frames, noSocket
<1> DEFINE at(a) == [at |-> a, queue |-> s.queue, shown |-> s.shown]
<1>a. ASSUME NEW a \in {"counted", "open", "closing"} PROVE at(a) \in Sockets /\ [s EXCEPT !.at = a] = at(a)
  BY <1>0, <1>a DEF Sockets
<1>e. <<>> \in Seq(Frames) /\ Len(<<>>) <= stateQueueCapacity
  BY ConsoleTabsAssumption
<1>1. CASE OpenSocket(p)
  <2>1. socket' = [socket EXCEPT ![p] = [at |-> "receiver", queue |-> <<>>, shown |-> NoFrame]]
    <3>1. [noSocket EXCEPT !.at = "receiver"] = [at |-> "receiver", queue |-> <<>>, shown |-> NoFrame]
      BY <1>0
    <3> QED
      BY <1>1, <3>1 DEF OpenSocket
  <2>2. [at |-> "receiver", queue |-> <<>>, shown |-> NoFrame] \in Sockets
    BY <1>0, <1>e DEF Sockets
  <2> QED
    BY <1>1, <1>e, <2>1, <2>2, SocketMoves DEF OpenSocket, CountedAt
<1>2. CASE Subscribe(p)
  <2>1. socket' = [socket EXCEPT ![p] = at("counted")]
    BY <1>2, <1>a DEF Subscribe, TabsIInv, TabsTyped
  <2> QED
    BY <1>0, <1>2, <1>a, <2>1, SocketMoves DEF Subscribe, CountedAt
<1>3. CASE FirstFrame(p)
  <2> DEFINE shown == [at |-> "open", queue |-> s.queue, shown |-> world]
  <2>1. [[s EXCEPT !.at = "open"] EXCEPT !.shown = world] = shown
    <3>1. [s EXCEPT !.at = "open"] = at("open")
      BY <1>a
    <3>2. [at("open") EXCEPT !.shown = world] = shown
      OBVIOUS
    <3> QED
      BY <3>1, <3>2
  <2>0. shown \in Sockets
    BY <1>0 DEF Sockets
  <2>2. socket' = [q \in Pages |-> IF q = p THEN [[s EXCEPT !.at = "open"] EXCEPT !.shown = world] ELSE socket[q]]
    BY <1>3 DEF FirstFrame, TabsIInv, TabsTyped, Sockets
  <2>3. socket' = [socket EXCEPT ![p] = shown]
    BY <2>1, <2>2 DEF TabsIInv, TabsTyped
  <2> QED
    BY <1>0, <1>3, <2>0, <2>3, SocketMoves DEF FirstFrame, CountedAt
<1>4. CASE RecvFrame(p)
  <2> DEFINE shown == [at |-> s.at, queue |-> Tail(s.queue), shown |-> Head(s.queue)]
  <2>1. s.queue # <<>>
    BY <1>4 DEF RecvFrame
  <2>2. Tail(s.queue) \in Seq(Frames) /\ Len(Tail(s.queue)) = Len(s.queue) - 1 /\ Head(s.queue) \in Frames
    BY <1>0, <2>1
  <2>3. socket' = [socket EXCEPT ![p] = shown]
    <3>1. [[s EXCEPT !.shown = Head(s.queue)] EXCEPT !.queue = Tail(s.queue)] = shown
      BY <1>0, <2>2, FrameShown
    <3>2. socket' = [q \in Pages |-> IF q = p THEN [[s EXCEPT !.shown = Head(s.queue)] EXCEPT !.queue = Tail(s.queue)]
                                     ELSE socket[q]]
      BY <1>4 DEF RecvFrame, TabsIInv, TabsTyped, Sockets
    <3> QED
      BY <3>1, <3>2 DEF TabsIInv, TabsTyped
  <2>4. shown \in Sockets
    BY <1>0, <2>2 DEF Sockets
  <2>5. Len(shown.queue) <= stateQueueCapacity
    BY <1>0, <2>2, ConsoleTabsAssumption
  <2> QED
    BY <1>0, <1>4, <2>3, <2>4, <2>5, SocketMoves DEF RecvFrame, CountedAt
<1>5. CASE CutOff(p) \/ PageLeft(p)
  <2>1. socket' = [socket EXCEPT ![p] = at("closing")]
    BY <1>5, <1>a DEF CutOff, PageLeft, TabsIInv, TabsTyped
  <2> QED
    BY <1>0, <1>5, <1>a, <2>1, SocketMoves DEF CutOff, PageLeft, CountedAt
<1>6. CASE Unsubscribe(p)
  <2>2. noSocket \in Sockets /\ Len(noSocket.queue) <= stateQueueCapacity /\ noSocket.at = "none"
    BY <1>0, <1>e DEF Sockets
  <2> QED
    BY <1>6, <2>2, SocketMoves DEF Unsubscribe, CountedAt
<1> QED
  BY <1>1, <1>2, <1>3, <1>4, <1>5, <1>6

LEMMA TabsStep ==
  ASSUME TabsIInv, ConsoleTabsNext
  PROVE  TabsIInv'
<1>s. ASSUME UNCHANGED <<socket, stateViewers>>, TabsTyped' PROVE TabsIInv'
  BY <1>s DEF TabsIInv, Counted, counted
<1>1. ASSUME NEW p \in Pages, LoginBegin(p) \/ LoginEnd(p) \/ ConsoleLogout(p) PROVE TabsIInv'
  BY <1>s, <1>1 DEF LoginBegin, LoginEnd, ConsoleLogout, TabsIInv, TabsTyped
<1>2. ASSUME NEW p \in Pages, Toggle(p) PROVE TabsIInv'
  <2>1. world' \in Frames
    BY <1>2 DEF Toggle, TabsIInv, TabsTyped, Frames
  <2> QED
    BY <1>s, <1>2, <2>1 DEF Toggle, TabsIInv, TabsTyped
<1>3. ASSUME NEW p \in Pages, OpenSocket(p) \/ SocketRuns(p) \/ CutOff(p) \/ PageLeft(p) PROVE TabsIInv'
  BY <1>3, SocketSteps DEF SocketRuns
<1>4. ASSUME ConsoleTick PROVE TabsIInv'
  BY <1>s, <1>4, ConsoleTabsAssumption DEF ConsoleTick, TabsIInv, TabsTyped
<1>5. ASSUME Traffic PROVE TabsIInv'
  <2>1. world' \in Frames
    BY <1>5 DEF Traffic, TabsIInv, TabsTyped, Frames
  <2> QED
    BY <1>s, <1>5, <2>1 DEF Traffic, TabsIInv, TabsTyped
<1>6. ASSUME Wakes \/ BuildFrame PROVE TabsIInv'
  <2>1. NoFrame \in Frames
    BY DEF NoFrame, Frames
  <2>2. caster' \in [at : {"sleep", "build", "send"}, last : Frames, frame : Frames]
    BY <1>6, <2>1 DEF Wakes, BuildFrame, TabsIInv, TabsTyped
  <2> QED
    BY <1>s, <1>6, <2>2 DEF Wakes, BuildFrame, TabsIInv, TabsTyped
<1>7. ASSUME SendFrame PROVE TabsIInv'
  <2> DEFINE fed(p) == [socket[p] EXCEPT !.queue = enqueue(@, caster.frame)]
  <2>1. ASSUME NEW p \in Pages
        PROVE  fed(p) \in Sockets /\ fed(p).at = socket[p].at /\ Len(fed(p).queue) <= stateQueueCapacity
    <3>1. /\ socket[p] \in Sockets /\ socket[p].queue \in Seq(Frames) /\ caster.frame \in Frames
          /\ Len(socket[p].queue) <= stateQueueCapacity
      BY DEF TabsIInv, TabsTyped, Sockets
    <3>2. enqueue(socket[p].queue, caster.frame) \in Seq(Frames) /\ Len(enqueue(socket[p].queue, caster.frame)) <= stateQueueCapacity
      BY <3>1, EnqueueBounded
    <3> QED
      BY <3>1, <3>2 DEF Sockets
  <2>2. socket' = [p \in Pages |-> IF socket[p].at \in {"receiver", "counted", "open"} THEN fed(p) ELSE socket[p]]
    BY <1>7 DEF SendFrame
  <2> HIDE DEF fed
  <2>3. \A p \in Pages : socket'[p] \in Sockets /\ socket'[p].at = socket[p].at /\ Len(socket'[p].queue) <= stateQueueCapacity
    BY <2>1, <2>2 DEF TabsIInv, TabsTyped
  <2>4. counted' = counted
    BY <2>3 DEF counted
  <2>5. caster' \in [at : {"sleep", "build", "send"}, last : Frames, frame : Frames]
    BY <1>7 DEF SendFrame, TabsIInv, TabsTyped
  <2>6. TabsTyped'
    BY <1>7, <2>2, <2>3, <2>5 DEF SendFrame, TabsIInv, TabsTyped
  <2> QED
    BY <1>7, <2>4, <2>6 DEF SendFrame, TabsIInv, Counted
<1> QED
  BY <1>1, <1>2, <1>3, <1>4, <1>5, <1>6, <1>7 DEF ConsoleTabsNext, Broadcasts

LEMMA InitTabs ==
  ASSUME ConsoleTabsInit
  PROVE  TabsIInv
<1>1. NoFrame \in Frames /\ [traffic |-> 0, rule |-> "running"] \in Frames
  BY DEF NoFrame, Frames
<1>2. TabsTyped
  BY <1>1, ConsoleTabsAssumption DEF ConsoleTabsInit, TabsTyped, Sockets, noSocket
<1>3. counted = {} /\ stateViewers = 0
  BY DEF ConsoleTabsInit, counted, noSocket, CountedAt
<1>4. Cardinality({}) = 0
  BY FS_EmptySet
<1> QED
  BY <1>2, <1>3, <1>4 DEF TabsIInv, Counted

LEMMA TabsImply ==
  ASSUME TabsIInv
  PROVE  ConsoleTabsTypeOK
  BY DEF TabsIInv, TabsTyped, Counted, counted, CountedAt, ConsoleTabsTypeOK

LEMMA ViewersSafe ==
  ConsoleTabsInit /\ [][ConsoleTabsNext]_tabVars => []ConsoleTabsTypeOK
<1>1. TabsIInv /\ [ConsoleTabsNext]_tabVars => TabsIInv'
  <2>1. ASSUME TabsIInv, UNCHANGED tabVars PROVE TabsIInv'
    BY <2>1 DEF TabsIInv, tabVars, TabsTyped, Counted, counted
  <2> QED
    BY <2>1, TabsStep
<1> QED
  BY <1>1, InitTabs, TabsImply, PTL

\* The count the broadcast looks at is the pages that follow the state
\* (subscribe, unsubscribe), and no page's queue outgrows its capacity, for
\* every number of pages and every capacity.
THEOREM ViewersAreCounted == ConsoleTabsSpec => []ConsoleTabsTypeOK
  BY ViewersSafe, PTL DEF ConsoleTabsSpec

-----------------------------------------------------------------------------
(* Saving the configuration *)

SaveTexts == [changes : SUBSET ((SavingPages \cup {"outside"}) \X Nat), loads : BOOLEAN, cred : Nat]
Versions == {<<>>} \cup (SaveTexts \X Nat)
Places == {"idle", "locked", "checked", "commit", "kept", "written", "waiting", "replied"}
Requests == [at : Places, old : SaveTexts, new : SaveTexts, made : Nat, obsolete : Nat]

SavesTyped ==
  /\ disk \in [text : SaveTexts, mtime : Nat, by : {"outside", "console"}]
  /\ loaded \in [SavingPages -> Versions]
  /\ req \in [SavingPages -> Requests]
  /\ fileMu \in SavingPages \cup {NoTab}
  /\ backups \in Seq(SaveTexts)
  /\ spent \in [writes : Nat, outside : Nat, faults : Nat] /\ disk.mtime = spent.writes
  /\ reloadNow \in Seq(SavingPages) /\ Len(reloadNow) <= 1

\* configFileMu: who is past it holds it.
SaversExclude == \A t \in SavingPages : req[t].at # "idle" => fileMu = t

\* A save that passed the check has the file's text under what it adds, and
\* only another program can have replaced the file since.
SavesBuild ==
  \A t \in SavingPages : req[t].at \in {"checked", "commit", "kept"} =>
    /\ req[t].old.changes \subseteq req[t].new.changes
    /\ disk.by = "console" => disk.text = req[t].old

SavesKept == \A t \in SavingPages : req[t].at = "kept" => backups # <<>> /\ Last(backups) = req[t].old

\* One too many until the rename prunes, and one more for each rename that
\* failed before it pruned.
BackupsBounded ==
  /\ Len(backups) <= maxBackups + 1 + spent.faults
  /\ (\A t \in SavingPages : req[t].at # "kept") => Len(backups) <= maxBackups + spent.faults

there(cred) == cred = NoFile \/ cred \in creds

\* Without a failed write the file named by the text to come is there from
\* the check on, and the one the present text names until Forget.
CredsThere ==
  spent.faults = 0 =>
    /\ \A t \in SavingPages :
         /\ req[t].at \in {"checked", "commit", "kept"} => there(req[t].new.cred)
         /\ req[t].at = "checked" => req[t].obsolete = NoFile \/ req[t].obsolete # req[t].new.cred
    /\ (\A t \in SavingPages : req[t].at \notin {"commit", "kept"}) => there(disk.text.cred)

SavesIInv == SavesTyped /\ SaversExclude /\ SavesBuild /\ SavesKept /\ BackupsBounded /\ CredsThere

LEMMA NoReqTyped ==
  /\ noReq \in Requests /\ noReq.at = "idle" /\ Text({}, TRUE, NoFile) \in SaveTexts
  /\ \A f \in Nat : Text({}, TRUE, f) \in SaveTexts /\ Text({}, TRUE, f).cred = f
  BY DEF noReq, Requests, Places, Text, SaveTexts, NoFile

LEMMA InitSaves ==
  ASSUME ConfigSavesInit
  PROVE  SavesIInv
<1>1. PICK f \in {NoFile, 1} : /\ disk = [text |-> Text({}, TRUE, f), mtime |-> 1, by |-> "outside"]
                               /\ creds = {f} \ {NoFile}
  BY DEF ConfigSavesInit
<1>2. f \in Nat
  BY DEF NoFile
<1>3. disk.text \in SaveTexts /\ disk.text.cred = f
  BY <1>1, <1>2, NoReqTyped
<1>4. \A t \in SavingPages : req[t].at = "idle"
  BY NoReqTyped DEF ConfigSavesInit
<1>5. <<>> \in Seq(SaveTexts) /\ <<>> \in Seq(SavingPages) /\ Len(<<>>) = 0
  OBVIOUS
<1>6. SavesTyped
  <2>1. disk \in [text : SaveTexts, mtime : Nat, by : {"outside", "console"}] /\ disk.mtime = 1
    BY <1>1, <1>3
  <2>2. req \in [SavingPages -> Requests] /\ loaded \in [SavingPages -> Versions]
    BY NoReqTyped DEF ConfigSavesInit, Versions
  <2>3. spent \in [writes : Nat, outside : Nat, faults : Nat] /\ spent.writes = 1
    BY DEF ConfigSavesInit
  <2> QED
    <3>1. fileMu = NoTab /\ backups = <<>> /\ reloadNow = <<>>
      BY DEF ConfigSavesInit
    <3> QED
      BY <1>5, <2>1, <2>2, <2>3, <3>1 DEF SavesTyped
<1>7. BackupsBounded
  BY <1>5, ConfigSavesAssumption DEF ConfigSavesInit, BackupsBounded
<1>8. CredsThere
  BY <1>1, <1>3, <1>4 DEF CredsThere, there
<1> QED
  BY <1>4, <1>6, <1>7, <1>8 DEF SavesIInv, SaversExclude, SavesBuild, SavesKept

-----------------------------------------------------------------------------
(* A request's steps *)

\* The request of t comes to another place; the other pages stay as they are.
LEMMA RequestMoves ==
  ASSUME SavesTyped, NEW t \in SavingPages, NEW a \in Places, req' = [req EXCEPT ![t].at = a]
  PROVE  /\ req' \in [SavingPages -> Requests] /\ req'[t].at = a
         /\ req'[t].old = req[t].old /\ req'[t].new = req[t].new /\ req'[t].obsolete = req[t].obsolete
         /\ \A u \in SavingPages \ {t} : req'[u] = req[u]
  BY DEF SavesTyped, Requests

LEMMA RequestEnds ==
  ASSUME SavesTyped, NEW t \in SavingPages, NEW v \in Versions, answered(t, v)
  PROVE  /\ req' \in [SavingPages -> Requests] /\ req'[t].at = "idle" /\ fileMu' = NoTab
         /\ loaded' \in [SavingPages -> Versions]
         /\ \A u \in SavingPages \ {t} : req'[u] = req[u]
  BY NoReqTyped DEF SavesTyped, answered

\* Who is past the lock is alone.
LEMMA OthersIdle ==
  ASSUME SavesIInv, NEW t \in SavingPages, req[t].at # "idle"
  PROVE  fileMu = t /\ \A u \in SavingPages \ {t} : req[u].at = "idle"
  BY DEF SavesIInv, SaversExclude

LEMMA LastOfAppend ==
  ASSUME NEW S, NEW s \in Seq(S), NEW e \in S
  PROVE  /\ Append(s, e) \in Seq(S) /\ Len(Append(s, e)) = Len(s) + 1
         /\ Append(s, e) # <<>> /\ Last(Append(s, e)) = e
<1>1. /\ Append(s, e) \in Seq(S) /\ Len(Append(s, e)) = Len(s) + 1
      /\ Append(s, e)[Len(s) + 1] = e
  OBVIOUS
<1> QED
  BY <1>1 DEF Last

\* What pruneBackups leaves: at most maxBackups, the newest among them.
LEMMA PrunedKeepsNewest ==
  ASSUME NEW S, NEW s \in Seq(S), s # <<>>
  PROVE  /\ pruned(s) \in Seq(S) /\ Len(pruned(s)) <= maxBackups
         /\ pruned(s) # <<>> /\ Last(pruned(s)) = Last(s)
<1>1. CASE Len(s) <= maxBackups
  <2>1. pruned(s) = s
    BY <1>1, ConfigSavesAssumption DEF pruned
  <2> QED
    BY <1>1, <2>1
<1>2. CASE Len(s) > maxBackups
  <2> DEFINE m == Len(s) - maxBackups + 1
             p == SubSeq(s, m, Len(s))
  <2>1. m \in 1..Len(s) /\ Len(s) \in Nat
    BY <1>2, ConfigSavesAssumption
  <2>2. /\ p \in Seq(S) /\ Len(p) = Len(s) - m + 1
        /\ \A i \in 1..(Len(s) - m + 1) : p[i] = s[m + i - 1]
    BY <2>1, SubSeqProperties
  <2>3. Len(p) = maxBackups /\ pruned(s) = p
    BY <1>2, <2>1, <2>2, ConfigSavesAssumption DEF pruned
  <2>4. p[maxBackups] = s[Len(s)]
    BY <2>1, <2>2, ConfigSavesAssumption
  <2>5. p # <<>>
    BY <2>3, ConfigSavesAssumption
  <2> QED
    BY <2>2, <2>3, <2>4, <2>5, ConfigSavesAssumption DEF Last
<1> QED
  BY <1>1, <1>2, ConfigSavesAssumption
-----------------------------------------------------------------------------
(* The steps of a request *)

LEMMA LockStep ==
  ASSUME SavesIInv, NEW t \in SavingPages, Lock(t)
  PROVE  SavesIInv'
<1>1. /\ fileMu' = t /\ req' = [req EXCEPT ![t].at = "locked"] /\ fileMu = NoTab
      /\ UNCHANGED <<disk, loaded, backups, creds, reloadNow, spent>>
  BY DEF Lock
<1>2. \A u \in SavingPages : req[u].at = "idle"
  BY <1>1, ConfigSavesAssumption DEF SavesIInv, SaversExclude
<1>3. /\ req' \in [SavingPages -> Requests] /\ req'[t].at = "locked"
      /\ \A u \in SavingPages \ {t} : req'[u] = req[u]
  BY <1>1, RequestMoves DEF SavesIInv, Places
<1>4. \A u \in SavingPages : req'[u].at \in {"idle", "locked"} /\ (u # t => req'[u].at = "idle")
  BY <1>2, <1>3
<1>5. SavesTyped'
  BY <1>1, <1>3 DEF SavesIInv, SavesTyped
<1>6. BackupsBounded'
  BY <1>1, <1>2 DEF SavesIInv, BackupsBounded
<1>7. CredsThere'
  BY <1>1, <1>2, <1>4 DEF SavesIInv, CredsThere, there
<1> QED
  BY <1>1, <1>4, <1>5, <1>6, <1>7 DEF SavesIInv, SaversExclude, SavesBuild, SavesKept

\* A request ends with its text written, or before Forget, or after a write
\* that failed.
LEMMA EndStep ==
  ASSUME SavesIInv, NEW t \in SavingPages, req[t].at # "idle", NEW v \in Versions, answered(t, v),
         UNCHANGED <<disk, creds, reloadNow>>,
         backups' \in Seq(SaveTexts), Len(backups') <= maxBackups + spent'.faults,
         spent' \in [writes : Nat, outside : Nat, faults : Nat], spent'.writes = spent.writes,
         spent'.faults >= spent.faults,
         req[t].at \in {"commit", "kept"} => spent'.faults # 0
  PROVE  SavesIInv'
<1>1. \A u \in SavingPages \ {t} : req[u].at = "idle"
  BY OthersIdle
<1>2. /\ req' \in [SavingPages -> Requests] /\ req'[t].at = "idle" /\ fileMu' = NoTab
      /\ loaded' \in [SavingPages -> Versions]
      /\ \A u \in SavingPages \ {t} : req'[u] = req[u]
  BY RequestEnds DEF SavesIInv
<1>3. \A u \in SavingPages : req'[u].at = "idle"
  BY <1>1, <1>2
<1>4. SavesTyped'
  BY <1>2 DEF SavesIInv, SavesTyped
<1>5. BackupsBounded'
  <2>1. Len(backups') \in Nat /\ spent'.faults \in Nat
    BY <1>4 DEF SavesTyped
  <2> QED
    BY <2>1, ConfigSavesAssumption DEF BackupsBounded
<1>6. CredsThere'
  <2>1. SUFFICES ASSUME spent'.faults = 0 PROVE there(disk.text.cred)
    BY <1>3 DEF CredsThere, there
  <2>2. spent.faults = 0
    BY <2>1 DEF SavesIInv, SavesTyped
  <2>3. \A u \in SavingPages : req[u].at \notin {"commit", "kept"}
    BY <1>1, <2>1
  <2> QED
    BY <2>2, <2>3 DEF SavesIInv, CredsThere
<1> QED
  BY <1>3, <1>4, <1>5, <1>6 DEF SavesIInv, SaversExclude, SavesBuild, SavesKept

\* What EndStep asks of a request that has written nothing.
LEMMA NothingWritten ==
  ASSUME SavesIInv, NEW t \in SavingPages, req[t].at \notin {"idle", "kept"}
  PROVE  /\ backups \in Seq(SaveTexts) /\ Len(backups) <= maxBackups + spent.faults
         /\ spent \in [writes : Nat, outside : Nat, faults : Nat] /\ spent.faults >= spent.faults
<1>1. \A u \in SavingPages : req[u].at # "kept"
  BY OthersIdle
<1> QED
  BY <1>1 DEF SavesIInv, BackupsBounded, SavesTyped

LEMMA EditStep ==
  ASSUME SavesIInv, NEW t \in SavingPages, Edit(t)
  PROVE  SavesIInv'
<1>0. req[t].at = "locked" /\ UNCHANGED <<disk, backups, reloadNow, spent>>
  BY DEF Edit, onPath
<1>1. \A u \in SavingPages \ {t} : req[u].at = "idle"
  BY <1>0, OthersIdle
<1>2. CASE \E v \in {<<>>, loaded[t]} : answered(t, v) /\ UNCHANGED creds
  <2>1. PICK v \in Versions : answered(t, v) /\ UNCHANGED creds
    BY <1>2 DEF SavesIInv, SavesTyped, Versions
  <2> QED
    BY <1>0, <2>1, NothingWritten, EndStep
<1>3. CASE /\ isBase(t, Version(disk))
           /\ \E e \in edits(t, loaded[t][1]) :
                LET files == creds \cup ({e.made} \ {NoFile})
                IN /\ loadConfig(e.new, files)
                   /\ creds' = files
                   /\ req' = [req EXCEPT ![t] = [at |-> "checked", old |-> disk.text, new |-> e.new,
                                                 made |-> e.made, obsolete |-> e.obsolete]]
                   /\ UNCHANGED <<fileMu, loaded>>
  <2>1. PICK e \in edits(t, loaded[t][1]) :
          /\ loadConfig(e.new, creds \cup ({e.made} \ {NoFile}))
          /\ creds' = creds \cup ({e.made} \ {NoFile})
          /\ req' = [req EXCEPT ![t] = [at |-> "checked", old |-> disk.text, new |-> e.new,
                                        made |-> e.made, obsolete |-> e.obsolete]]
          /\ UNCHANGED <<fileMu, loaded>>
    BY <1>3
  <2> DEFINE r == [at |-> "checked", old |-> disk.text, new |-> e.new, made |-> e.made, obsolete |-> e.obsolete]
  <2>2. loaded[t][1] = disk.text
    BY <1>3 DEF isBase, Version
  <2>3. disk.text \in SaveTexts /\ spent.writes \in Nat
    BY DEF SavesIInv, SavesTyped
  <2> DEFINE saved(l, c) == [new |-> Text(disk.text.changes \cup {<<t, spent.writes>>}, l, c),
                            made |-> IF c = spent.writes + 1 THEN spent.writes + 1 ELSE NoFile,
                            obsolete |-> IF c # disk.text.cred THEN disk.text.cred ELSE NoFile]
  <2>4. PICK l \in BOOLEAN, c \in {disk.text.cred, NoFile, spent.writes + 1} : e = saved(l, c)
    <3>1. edits(t, disk.text) = {saved(l, c) : l \in BOOLEAN, c \in {disk.text.cred, NoFile, spent.writes + 1}}
      BY DEF edits
    <3>2. e \in edits(t, disk.text)
      BY <2>1, <2>2
    <3> HIDE DEF saved
    <3> QED
      BY <3>1, <3>2
  <2>5. c \in Nat /\ disk.text.cred \in Nat
    BY <2>3, <2>4 DEF SaveTexts, NoFile
  <2>6. /\ e.new = [changes |-> disk.text.changes \cup {<<t, spent.writes>>}, loads |-> l, cred |-> c]
        /\ e.made \in Nat /\ e.obsolete \in Nat
        /\ e.obsolete = NoFile \/ e.obsolete # c
    BY <2>4, <2>5 DEF Text, NoFile
  <2>7. e.new \in SaveTexts /\ e.new.cred = c /\ disk.text.changes \subseteq e.new.changes
    <3>1. disk.text.changes \cup {<<t, spent.writes>>} \in SUBSET ((SavingPages \cup {"outside"}) \X Nat)
      BY <2>3 DEF SaveTexts
    <3> QED
      BY <2>5, <2>6, <3>1 DEF SaveTexts
  <2>8. r \in Requests
    BY <2>3, <2>6, <2>7 DEF Requests, Places
  <2>9. /\ req' \in [SavingPages -> Requests] /\ req'[t] = r
        /\ \A u \in SavingPages \ {t} : req'[u].at = "idle"
    BY <1>1, <2>1, <2>8 DEF SavesIInv, SavesTyped
  <2>10. there(c)' /\ (there(disk.text.cred) => there(disk.text.cred)')
    BY <1>0, <2>1, <2>7 DEF there, loadConfig
  <2>11. SavesTyped'
    BY <1>0, <2>1, <2>9 DEF SavesIInv, SavesTyped
  <2>12. SaversExclude' /\ SavesBuild' /\ SavesKept'
    <3>1. fileMu = t
      BY <1>0, OthersIdle
    <3> QED
      BY <1>0, <2>1, <2>7, <2>9, <3>1 DEF SaversExclude, SavesBuild, SavesKept
  <2>13. BackupsBounded'
    BY <1>0, <1>1, <2>9 DEF SavesIInv, BackupsBounded
  <2>14. CredsThere'
    <3>1. spent.faults = 0 => there(disk.text.cred)
      BY <1>0, <1>1 DEF SavesIInv, CredsThere
    <3> QED
      BY <1>0, <2>6, <2>7, <2>9, <2>10, <3>1 DEF CredsThere, there
  <2> QED
    BY <2>11, <2>12, <2>13, <2>14 DEF SavesIInv
<1> QED
  BY <1>2, <1>3 DEF Edit

LEMMA ForgetStep ==
  ASSUME SavesIInv, NEW t \in SavingPages, Forget(t)
  PROVE  SavesIInv'
<1>0. /\ req[t].at = "checked" /\ creds' = creds \ {req[t].obsolete}
      /\ req' = [req EXCEPT ![t].at = "commit"]
      /\ UNCHANGED <<disk, loaded, fileMu, backups, reloadNow, spent>>
  BY DEF Forget, onPath
<1>1. fileMu = t /\ \A u \in SavingPages \ {t} : req[u].at = "idle"
  BY <1>0, OthersIdle
<1>2. /\ req' \in [SavingPages -> Requests] /\ req'[t].at = "commit"
      /\ req'[t].old = req[t].old /\ req'[t].new = req[t].new
      /\ \A u \in SavingPages \ {t} : req'[u].at = "idle"
  BY <1>0, <1>1, RequestMoves DEF SavesIInv, Places
<1>3. SavesTyped'
  BY <1>0, <1>2 DEF SavesIInv, SavesTyped
<1>4. SaversExclude' /\ SavesBuild' /\ SavesKept'
  BY <1>0, <1>1, <1>2 DEF SavesIInv, SaversExclude, SavesBuild, SavesKept
<1>5. BackupsBounded'
  BY <1>0, <1>1, <1>2 DEF SavesIInv, BackupsBounded
<1>6. CredsThere'
  BY <1>0, <1>1, <1>2 DEF SavesIInv, CredsThere, there
<1> QED
  BY <1>3, <1>4, <1>5, <1>6 DEF SavesIInv

\* A write that fails is counted.
LEMMA FailsCounts ==
  ASSUME SavesTyped, fails
  PROVE  /\ spent' \in [writes : Nat, outside : Nat, faults : Nat] /\ spent'.writes = spent.writes
         /\ spent'.faults = spent.faults + 1 /\ spent.faults \in Nat
  BY DEF SavesTyped, fails

LEMMA BackupStep ==
  ASSUME SavesIInv, NEW t \in SavingPages, Backup(t)
  PROVE  SavesIInv'
<1>0. req[t].at = "commit" /\ UNCHANGED <<disk, creds, reloadNow>>
  BY DEF Backup, onPath
<1>1. fileMu = t /\ \A u \in SavingPages \ {t} : req[u].at = "idle"
  BY <1>0, OthersIdle
<1>2. CASE /\ backups' = Append(backups, req[t].old) /\ req' = [req EXCEPT ![t].at = "kept"]
           /\ UNCHANGED <<fileMu, loaded, spent>>
  <2>1. /\ req' \in [SavingPages -> Requests] /\ req'[t].at = "kept"
        /\ req'[t].old = req[t].old /\ req'[t].new = req[t].new
        /\ \A u \in SavingPages \ {t} : req'[u].at = "idle"
    BY <1>1, <1>2, RequestMoves DEF SavesIInv, Places
  <2>2. backups \in Seq(SaveTexts) /\ req[t].old \in SaveTexts
    BY DEF SavesIInv, SavesTyped, Requests
  <2>3. /\ backups' \in Seq(SaveTexts) /\ Len(backups') = Len(backups) + 1
        /\ backups' # <<>> /\ Last(backups') = req[t].old
    BY <1>2, <2>2, LastOfAppend
  <2>4. SavesTyped'
    BY <1>0, <1>2, <2>1, <2>3 DEF SavesIInv, SavesTyped
  <2>5. SaversExclude' /\ SavesBuild' /\ SavesKept'
    BY <1>0, <1>1, <1>2, <2>1, <2>3 DEF SavesIInv, SaversExclude, SavesBuild, SavesKept
  <2>6. BackupsBounded'
    <3>1. Len(backups) <= maxBackups + spent.faults
      BY <1>0, NothingWritten
    <3>2. Len(backups) \in Nat /\ spent.faults \in Nat /\ spent'.faults = spent.faults
      BY <1>2, <2>2 DEF SavesIInv, SavesTyped
    <3>3. Len(backups') <= maxBackups + 1 + spent'.faults
      BY <2>3, <3>1, <3>2, ConfigSavesAssumption
    <3> QED
      BY <2>1, <3>3 DEF BackupsBounded
  <2>7. CredsThere'
    BY <1>0, <1>1, <1>2, <2>1 DEF SavesIInv, CredsThere, there
  <2> QED
    BY <2>4, <2>5, <2>6, <2>7 DEF SavesIInv
<1>3. CASE fails /\ answered(t, loaded[t]) /\ UNCHANGED backups
  <2>1. /\ spent' \in [writes : Nat, outside : Nat, faults : Nat] /\ spent'.writes = spent.writes
        /\ spent'.faults = spent.faults + 1 /\ spent.faults \in Nat
    BY <1>3, FailsCounts DEF SavesIInv
  <2>2. loaded[t] \in Versions
    BY DEF SavesIInv, SavesTyped
  <2>3. backups' \in Seq(SaveTexts) /\ Len(backups') <= maxBackups + spent'.faults
    <3>1. backups \in Seq(SaveTexts) /\ Len(backups) <= maxBackups + spent.faults
      BY <1>0, NothingWritten
    <3>2. Len(backups) \in Nat
      BY <3>1
    <3> QED
      BY <1>3, <2>1, <3>1, <3>2, ConfigSavesAssumption
  <2>4. spent'.faults # 0 /\ spent'.faults >= spent.faults
    BY <2>1
  <2> QED
    BY <1>0, <1>3, <2>1, <2>2, <2>3, <2>4, EndStep
<1> QED
  BY <1>2, <1>3 DEF Backup

LEMMA WriteStep ==
  ASSUME SavesIInv, NEW t \in SavingPages, WriteFile(t)
  PROVE  SavesIInv'
<1>0. req[t].at = "kept" /\ UNCHANGED <<creds, reloadNow>>
  BY DEF WriteFile, onPath
<1>1. fileMu = t /\ \A u \in SavingPages \ {t} : req[u].at = "idle"
  BY <1>0, OthersIdle
<1>2. backups \in Seq(SaveTexts) /\ backups # <<>> /\ Len(backups) \in Nat
  BY <1>0 DEF SavesIInv, SavesTyped, SavesKept
<1>3. CASE /\ disk' = [text |-> req[t].new, mtime |-> spent.writes + 1, by |-> "console"]
           /\ backups' = pruned(backups)
           /\ req' = [req EXCEPT ![t].at = "written"]
           /\ spent' = [spent EXCEPT !.writes = @ + 1]
           /\ loaded' = [loaded EXCEPT ![t] = Version(disk')]
           /\ UNCHANGED fileMu
  <2>1. /\ req' \in [SavingPages -> Requests] /\ req'[t].at = "written"
        /\ \A u \in SavingPages \ {t} : req'[u].at = "idle"
    BY <1>1, <1>3, RequestMoves DEF SavesIInv, Places
  <2>2. /\ backups' \in Seq(SaveTexts) /\ Len(backups') <= maxBackups
    BY <1>2, <1>3, PrunedKeepsNewest
  <2>3. /\ spent' \in [writes : Nat, outside : Nat, faults : Nat] /\ spent'.writes = spent.writes + 1
        /\ spent'.faults = spent.faults /\ spent.faults \in Nat /\ spent.writes \in Nat
    BY <1>3 DEF SavesIInv, SavesTyped
  <2>4. disk' \in [text : SaveTexts, mtime : Nat, by : {"outside", "console"}] /\ disk'.mtime = spent'.writes
    BY <1>3, <2>3 DEF SavesIInv, SavesTyped, Requests
  <2>5. loaded' \in [SavingPages -> Versions]
    BY <1>3, <2>4 DEF SavesIInv, SavesTyped, Versions, Version
  <2>6. SavesTyped'
    BY <1>0, <1>3, <2>1, <2>2, <2>3, <2>4, <2>5 DEF SavesIInv, SavesTyped
  <2>7. SaversExclude' /\ SavesBuild' /\ SavesKept'
    BY <1>1, <1>3, <2>1 DEF SaversExclude, SavesBuild, SavesKept
  <2>8. BackupsBounded'
    <3>1. Len(backups') \in Nat
      BY <2>2
    <3> QED
      BY <2>2, <2>3, <3>1, ConfigSavesAssumption DEF BackupsBounded
  <2>9. CredsThere'
    <3>1. spent.faults = 0 => there(req[t].new.cred)
      BY <1>0 DEF SavesIInv, CredsThere
    <3>2. disk'.text = req[t].new
      BY <1>3
    <3> QED
      BY <1>0, <2>1, <2>3, <3>1, <3>2 DEF CredsThere, there
  <2> QED
    BY <2>6, <2>7, <2>8, <2>9 DEF SavesIInv
<1>4. CASE fails /\ answered(t, loaded[t]) /\ UNCHANGED <<disk, backups>>
  <2>1. /\ spent' \in [writes : Nat, outside : Nat, faults : Nat] /\ spent'.writes = spent.writes
        /\ spent'.faults = spent.faults + 1 /\ spent.faults \in Nat
    BY <1>4, FailsCounts DEF SavesIInv
  <2>2. loaded[t] \in Versions
    BY DEF SavesIInv, SavesTyped
  <2>3. backups' \in Seq(SaveTexts) /\ Len(backups') <= maxBackups + spent'.faults
    <3>1. Len(backups) <= maxBackups + 1 + spent.faults
      BY DEF SavesIInv, BackupsBounded
    <3> QED
      BY <1>2, <1>4, <2>1, <3>1, ConfigSavesAssumption
  <2>4. spent'.faults # 0 /\ spent'.faults >= spent.faults
    BY <2>1
  <2> QED
    BY <1>0, <1>4, <2>1, <2>2, <2>3, <2>4, EndStep
<1> QED
  BY <1>3, <1>4 DEF WriteFile

\* A request that only comes from one place after its write to the next.
LEMMA AfterWriteStep ==
  ASSUME SavesIInv, UNCHANGED <<disk, loaded, fileMu, backups, creds, spent>>,
         reloadNow' \in Seq(SavingPages), Len(reloadNow') <= 1,
         req' \in [SavingPages -> Requests],
         \A u \in SavingPages : \/ req'[u] = req[u]
                                \/ req[u].at \in {"written", "waiting"} /\ req'[u].at \in {"waiting", "replied"}
  PROVE  SavesIInv'
<1>1. \A u \in SavingPages : /\ (req'[u].at # "idle" => req[u].at # "idle")
                             /\ (req'[u].at \in {"checked", "commit", "kept"} \/ req[u].at \in {"checked", "commit", "kept"}
                                   => req'[u] = req[u])
  OBVIOUS
<1>2. SavesTyped'
  BY DEF SavesIInv, SavesTyped
<1>3. SaversExclude' /\ SavesBuild' /\ SavesKept'
  BY <1>1 DEF SavesIInv, SaversExclude, SavesBuild, SavesKept
<1>4. BackupsBounded'
  BY <1>1 DEF SavesIInv, BackupsBounded
<1>5. CredsThere'
  BY <1>1 DEF SavesIInv, CredsThere, there
<1> QED
  BY <1>2, <1>3, <1>4, <1>5 DEF SavesIInv

LEMMA AnswerStep ==
  ASSUME SavesIInv, NEW t \in SavingPages, Answer(t)
  PROVE  SavesIInv'
<1>1. /\ req[t].at \in {"written", "waiting", "replied"} /\ answered(t, loaded[t])
      /\ UNCHANGED <<disk, backups, creds, reloadNow, spent>>
  BY DEF Answer
<1>2. loaded[t] \in Versions
  BY DEF SavesIInv, SavesTyped
<1> QED
  BY <1>1, <1>2, NothingWritten, EndStep

LEMMA AskReloadStep ==
  ASSUME SavesIInv, NEW t \in SavingPages, AskReload(t)
  PROVE  SavesIInv'
<1>1. /\ req[t].at = "written" /\ reloadNow' = <<t>> /\ req' = [req EXCEPT ![t].at = "waiting"]
      /\ UNCHANGED <<disk, loaded, fileMu, backups, creds, spent>>
  BY DEF AskReload, onPath
<1>2. /\ req' \in [SavingPages -> Requests] /\ req'[t].at = "waiting"
      /\ \A u \in SavingPages \ {t} : req'[u] = req[u]
  BY <1>1, RequestMoves DEF SavesIInv, Places
<1>3. reloadNow' \in Seq(SavingPages) /\ Len(reloadNow') <= 1
  BY <1>1
<1> QED
  BY <1>1, <1>2, <1>3, AfterWriteStep

-----------------------------------------------------------------------------
(* The others *)

LEMMA OutsideStep ==
  ASSUME SavesIInv, EditOutside
  PROVE  SavesIInv'
<1>1. PICK l \in BOOLEAN :
        disk' = [text |-> Text(disk.text.changes \cup {<<"outside", spent.writes>>}, l, disk.text.cred),
                 mtime |-> spent.writes + 1, by |-> "outside"]
  BY DEF EditOutside
<1>2. UNCHANGED <<loaded, req, fileMu, backups, creds, reloadNow>>
  BY DEF EditOutside
<1>3. /\ spent' \in [writes : Nat, outside : Nat, faults : Nat] /\ spent'.writes = spent.writes + 1
      /\ spent'.faults = spent.faults /\ spent.writes \in Nat
  <2>1. spent' = [spent EXCEPT !.writes = @ + 1, !.outside = @ + 1]
    BY DEF EditOutside
  <2>2. spent \in [writes : Nat, outside : Nat, faults : Nat]
    BY DEF SavesIInv, SavesTyped
  <2>3. PICK w \in Nat, o \in Nat, f \in Nat : spent = [writes |-> w, outside |-> o, faults |-> f]
    BY <2>2
  <2>4. spent' = [writes |-> w + 1, outside |-> o + 1, faults |-> f]
    BY <2>1, <2>3
  <2> QED
    BY <2>3, <2>4
<1>4. /\ disk'.text = [changes |-> disk.text.changes \cup {<<"outside", spent.writes>>}, loads |-> l, cred |-> disk.text.cred]
      /\ disk'.by = "outside" /\ disk'.mtime = spent'.writes
  BY <1>1, <1>3 DEF Text
<1>5. disk'.text \in SaveTexts /\ disk'.text.cred = disk.text.cred
  <2>1. disk.text \in SaveTexts
    BY DEF SavesIInv, SavesTyped
  <2>2. disk.text.changes \cup {<<"outside", spent.writes>>} \in SUBSET ((SavingPages \cup {"outside"}) \X Nat)
    BY <1>3, <2>1 DEF SaveTexts
  <2> QED
    BY <1>4, <2>1, <2>2 DEF SaveTexts
<1>6. SavesTyped'
  BY <1>1, <1>2, <1>3, <1>4, <1>5 DEF SavesIInv, SavesTyped
<1>7. SaversExclude' /\ SavesBuild' /\ SavesKept'
  BY <1>2, <1>4 DEF SavesIInv, SaversExclude, SavesBuild, SavesKept
<1>8. BackupsBounded' /\ CredsThere'
  BY <1>2, <1>3, <1>5 DEF SavesIInv, BackupsBounded, CredsThere, there
<1> QED
  BY <1>6, <1>7, <1>8 DEF SavesIInv

LEMMA SavesStep ==
  ASSUME SavesIInv, ConfigSavesNext
  PROVE  SavesIInv'
<1>1. ASSUME NEW t \in SavingPages, ConfigGet(t) PROVE SavesIInv'
  <2>1. loaded' \in [SavingPages -> Versions]
    BY <1>1 DEF ConfigGet, SavesIInv, SavesTyped, Versions, Version
  <2> QED
    BY <1>1, <2>1 DEF ConfigGet, SavesIInv, SavesTyped, SaversExclude, SavesBuild, SavesKept, BackupsBounded, CredsThere, there
<1>2. ASSUME NEW t \in SavingPages, Lock(t) \/ Saving(t) PROVE SavesIInv'
  BY <1>2, LockStep, EditStep, ForgetStep, BackupStep, WriteStep, AskReloadStep, AnswerStep DEF Saving
<1>3. ASSUME EditOutside PROVE SavesIInv'
  BY <1>3, OutsideStep
<1>4. ASSUME WatchWake PROVE SavesIInv'
  <2>1. reloadNow' \in Seq(SavingPages) /\ Len(reloadNow') <= 1
    <3>1. reloadNow \in Seq(SavingPages) /\ Len(reloadNow) <= 1
      BY DEF SavesIInv, SavesTyped
    <3>2. reloadNow # <<>> => Tail(reloadNow) \in Seq(SavingPages) /\ Len(Tail(reloadNow)) = Len(reloadNow) - 1
      BY <3>1
    <3>3. reloadNow' = reloadNow \/ (reloadNow # <<>> /\ reloadNow' = Tail(reloadNow))
      BY <1>4 DEF WatchWake
    <3> QED
      BY <3>1, <3>2, <3>3
  <2> QED
    BY <1>4, <2>1, AfterWriteStep DEF WatchWake, SavesIInv, SavesTyped
<1>5. ASSUME ReadFile \/ ApplyFile PROVE SavesIInv'
  BY <1>5, AfterWriteStep DEF ReadFile, ApplyFile, SavesIInv, SavesTyped
<1>6. ASSUME Reply PROVE SavesIInv'
  <2>1. req' = [t \in SavingPages |-> IF t = watcher.reply /\ onPath(t, "waiting") THEN [req[t] EXCEPT !.at = "replied"] ELSE req[t]]
    BY <1>6 DEF Reply
  <2>2. ASSUME NEW t \in SavingPages
        PROVE  /\ req'[t] \in Requests
               /\ req'[t] = req[t] \/ (req[t].at = "waiting" /\ req'[t].at = "replied")
    <3>1. req[t] \in Requests /\ [req[t] EXCEPT !.at = "replied"] \in Requests
          /\ [req[t] EXCEPT !.at = "replied"].at = "replied"
      BY DEF SavesIInv, SavesTyped, Requests, Places
    <3>2. req'[t] = req[t] \/ (req[t].at = "waiting" /\ req'[t] = [req[t] EXCEPT !.at = "replied"])
      BY <2>1 DEF onPath
    <3> QED
      BY <3>1, <3>2
  <2>3. req' \in [SavingPages -> Requests]
    BY <2>1, <2>2
  <2>4. reloadNow' \in Seq(SavingPages) /\ Len(reloadNow') <= 1 /\ UNCHANGED <<disk, loaded, fileMu, backups, creds, spent>>
    BY <1>6 DEF Reply, SavesIInv, SavesTyped
  <2> QED
    BY <2>2, <2>3, <2>4, AfterWriteStep
<1> QED
  BY <1>1, <1>2, <1>3, <1>4, <1>5, <1>6 DEF ConfigSavesNext, Watch

LEMMA SavesInductive ==
  ConfigSavesInit /\ [][ConfigSavesNext]_saveVars => []SavesIInv
<1>1. SavesIInv /\ [ConfigSavesNext]_saveVars => SavesIInv'
  <2>1. ASSUME SavesIInv, UNCHANGED saveVars PROVE SavesIInv'
    BY <2>1 DEF SavesIInv, saveVars, SavesTyped, SaversExclude, SavesBuild, SavesKept, BackupsBounded, CredsThere, there
  <2> QED
    BY <2>1, SavesStep
<1> QED
  BY <1>1, InitSaves, PTL

\* The console writes the file in WriteFile alone.
LEMMA WritesByConsole ==
  ASSUME SavesIInv, ConfigSavesNext, disk'.by = "console", disk' # disk
  PROVE  \E t \in SavingPages : /\ req[t].at = "kept" /\ disk'.text = req[t].new
                                /\ Last(backups') = req[t].old /\ req[t].old.changes \subseteq req[t].new.changes
                                /\ disk.by = "console" => disk.text = req[t].old
<1>1. PICK t \in SavingPages : WriteFile(t) /\ disk' # disk
  BY DEF ConfigSavesNext, ConfigGet, Lock, Saving, Edit, Forget, Backup, AskReload, Answer, EditOutside, Watch, WatchWake,
         ReadFile, ApplyFile, Reply
<1>2. req[t].at = "kept" /\ disk'.text = req[t].new /\ backups' = pruned(backups)
  BY <1>1 DEF WriteFile, onPath
<1>3. backups \in Seq(SaveTexts) /\ backups # <<>> /\ Last(backups) = req[t].old
  BY <1>2 DEF SavesIInv, SavesTyped, SavesKept
<1>4. Last(backups') = req[t].old
  BY <1>2, <1>3, PrunedKeepsNewest
<1> QED
  BY <1>2, <1>4 DEF SavesIInv, SavesBuild

LEMMA SavesBuildSafe ==
  ConfigSavesInit /\ [][ConfigSavesNext]_saveVars => SavesBuildOnSaves
<1>1. SavesIInv /\ [ConfigSavesNext]_saveVars =>
        [disk'.by = "console" /\ disk' # disk /\ disk.by = "console" => disk.text.changes \subseteq disk'.text.changes]_saveVars
  BY WritesByConsole DEF saveVars
<1> QED
  BY <1>1, SavesInductive, PTL DEF SavesBuildOnSaves

\* A console save never undoes what another page saved (configFileMu and the
\* version check), for every number of pages, writes, edits from outside and
\* failures.
THEOREM SavesNeverUndo == ConfigSavesSpec => SavesBuildOnSaves
  BY SavesBuildSafe, PTL DEF ConfigSavesSpec

LEMMA BackupsSafe ==
  ConfigSavesInit /\ [][ConfigSavesNext]_saveVars => ReplacedIsKept
<1>1. SavesIInv /\ [ConfigSavesNext]_saveVars =>
        [disk'.by = "console" /\ disk' # disk
           => \E t \in SavingPages : req[t].at = "kept" /\ Last(backups') = req[t].old]_saveVars
  BY WritesByConsole DEF saveVars
<1> QED
  BY <1>1, SavesInductive, PTL DEF ReplacedIsKept

\* The text a console save overwrites is the newest backup (commitWith,
\* pruneBackups), for every maxBackups above 0.
THEOREM OverwrittenIsKept == ConfigSavesSpec => ReplacedIsKept
  BY BackupsSafe, PTL DEF ConfigSavesSpec

LEMMA SavesSafe ==
  ConfigSavesInit /\ [][ConfigSavesNext]_saveVars => [](ConfigSavesTypeOK /\ CredentialIsThere)
<1>1. SavesIInv => ConfigSavesTypeOK
  BY DEF SavesIInv, SavesTyped, BackupsBounded, ConfigSavesTypeOK, Requests, Places
<1>2. SavesIInv => CredentialIsThere
  <2>1. SUFFICES ASSUME SavesIInv, fileMu = NoTab, spent.faults = 0 PROVE there(disk.text.cred)
    BY DEF CredentialIsThere, there
  <2>2. \A t \in SavingPages : req[t].at = "idle"
    BY <2>1, ConfigSavesAssumption DEF SavesIInv, SaversExclude
  <2> QED
    BY <2>1, <2>2 DEF SavesIInv, CredsThere
<1> QED
  BY <1>1, <1>2, SavesInductive, PTL

\* The credential file the configuration names is there while no write
\* failed (oidcSave), and the backups stay few (pruneBackups).
THEOREM SavedCredentialIsThere == ConfigSavesSpec => [](ConfigSavesTypeOK /\ CredentialIsThere)
  BY SavesSafe, PTL DEF ConfigSavesSpec

-----------------------------------------------------------------------------
(* A local CA's certificates: the inductive invariant *)

SavingSteps == {"savekey", "savecert", "publish"}
Locked == {"disk", "issue"} \cup SavingSteps
Steps == {"idle", "look", "lock", "done"} \cup Locked

\* LocalCATypeOK, and what a call carries.
CASteppings == [at : {"free", "made", "read", "fits", "deleting"}, key : {NoneYet} \cup 1..MaxCAKeys,
                cert : {NoneYet} \cup CACerts]
FilesType ==
  /\ caFiles \in [key : {NoneYet} \cup 1..MaxCAKeys, cert : {NoneYet} \cup CACerts]
  /\ caKeys \in 0..MaxCAKeys /\ caInUse \in BOOLEAN
  /\ caStep \in CASteppings
  /\ opens \in [last : 0..MaxOpens, now : 0..MaxOpens] /\ caStates \in [Opens -> {NoneYet} \cup CACerts]
MemType == leafMem \in [Opens -> [Hosts -> {NoneYet} \cup [leaf : Leaves, ca : CACerts]]]
DiskType == leafDisk \in [Hosts -> [key : {NoneYet} \cup 1..MaxLeaves, cert : {NoneYet} \cup Leaves]]
LocksType == leafLock \in [Opens -> [Hosts -> {NoneYet} \cup Askers]]
IssuedType ==
  /\ issued \subseteq Leaves /\ IsFiniteSet(issued) /\ \A l \in issued : l.serial <= Cardinality(issued)
  /\ dueLeaves \subseteq issued /\ goneLeaves \subseteq issued
Call == [at : Steps, host : {NoneYet} \cup Hosts, obj : {NoneYet} \cup Opens, ca : {NoneYet} \cup CACerts,
         cur : {NoneYet} \cup Leaves, new : {NoneYet} \cup Leaves, gone : SUBSET Leaves]
Under(c) == c.at # "idle" => c.host \in Hosts /\ c.obj \in Opens /\ c.ca \in CACerts
Saves(c) == c.at \in SavingSteps \cup {"done"} => c.new \in Leaves
CACallersType ==
  /\ callers \in [Askers -> Call]
  /\ \A p \in Askers : Under(callers[p]) /\ Saves(callers[p]) /\ callers[p].gone \subseteq goneLeaves

\* The keys on disk and in use, in the order they were made.
FilesOK ==
  /\ caFiles.key # NoneYet => caFiles.key <= caKeys
  /\ caFiles.cert # NoneYet => caFiles.key # NoneYet /\ caFiles.cert.key <= caFiles.key
  /\ caStep.at = "made" => opens.now = 0 /\ caFiles.key # NoneYet /\ caStep.key = caFiles.key
  /\ caStep.at \in {"read", "fits"} => opens.now # 0
  /\ caStep.at = "fits" => /\ caStep.cert # NoneYet /\ caStates[opens.now].key <= caStep.cert.key
                          /\ caStep.cert.key <= caFiles.cert.key
  /\ opens.now <= opens.last
  /\ opens.now # 0 => /\ caStates[opens.now] # NoneYet /\ caFiles.cert # NoneYet
                      /\ caStates[opens.now].key <= caFiles.cert.key
  /\ \A o \in Opens : caStates[o] # NoneYet => caStates[o].key <= caKeys

\* An open CA that has certificates in memory or calls under way, and what
\* those are of.
Asks(p, o) == callers[p].at # "idle" /\ callers[p].obj = o
Held(o) == (\E h \in Hosts : leafMem[o][h] # NoneYet) \/ \E p \in Askers : Asks(p, o)
HeldOK ==
  \A o \in Opens : Held(o) =>
    /\ o <= opens.last /\ caStates[o] # NoneYet
    /\ \A h \in Hosts : leafMem[o][h] # NoneYet => leafMem[o][h].leaf.signer <= caStates[o].key
    /\ \A p \in Askers : Asks(p, o) => callers[p].ca.key <= caStates[o].key

\* One that was deleted meanwhile has an older key than whatever came after it.
Older(o) ==
  /\ caFiles.key # NoneYet => caStates[o].key < caFiles.key
  /\ caFiles.cert # NoneYet => caStates[o].key < caFiles.cert.key
  /\ caStep.at = "fits" => caStates[o].key < caStep.cert.key
  /\ opens.now # 0 => caStates[o].key < caStates[opens.now].key
  /\ opens.now # 0 =>
       \A h \in Hosts : leafMem[opens.now][h] # NoneYet => caStates[o].key < leafMem[opens.now][h].leaf.signer
  /\ \A p \in Askers : Asks(p, opens.now) => caStates[o].key < callers[p].ca.key
DeadOK == \A o \in Opens : o # opens.now /\ Held(o) => Older(o)

\* What is in memory and on disk for a host is for it, was issued, and was not removed.
CATableOK ==
  /\ \A o \in Opens, h \in Hosts : LET st == leafMem[o][h] IN st # NoneYet =>
       st.leaf.host = h /\ st.leaf.signer = st.ca.key /\ st.leaf \in issued \ goneLeaves
  /\ \A h \in Hosts : LET l == leafDisk[h].cert IN l # NoneYet => l.host = h /\ l \in issued \ goneLeaves

\* The lock, and what its holder knows.
LocksOK == \A p \in Askers : callers[p].at \in Locked => leafLock[callers[p].obj][callers[p].host] = p
HoldsOK ==
  \A p \in Askers : LET c == callers[p] IN
    /\ c.at = "disk" => mem(p) = NoneYet /\ c.cur = NoneYet
    /\ c.at = "issue" => IF c.cur = NoneYet THEN mem(p) = NoneYet
                         ELSE mem(p) # NoneYet /\ mem(p).leaf = c.cur /\ c.cur.signer = c.ca.key
    /\ c.at \in {"issue"} \cup SavingSteps /\ mem(p) # NoneYet => isDue(mem(p).leaf)
    /\ c.at \in SavingSteps => /\ c.new \in issued \ goneLeaves
                          /\ c.new.host = c.host /\ c.new.signer = c.ca.key

\* Where a certificate that is neither due nor removed is.
Lost(l) == l.obj # opens.now /\ \A p \in Askers : ~Asks(p, l.obj)
InTable(l) == leafMem[l.obj][l.host] # NoneYet /\ leafMem[l.obj][l.host].leaf = l
OnItsWay(l) == \E p \in Askers : callers[p].at \in SavingSteps /\ callers[p].obj = l.obj /\ callers[p].new = l
Outdated(l) ==
  /\ caStates[l.obj] # NoneYet /\ l.signer < caStates[l.obj].key
  /\ \A p \in Askers : callers[p].at \in {"disk", "issue"} /\ callers[p].obj = l.obj /\ callers[p].host = l.host
                         => l.signer < callers[p].ca.key
KnownOK ==
  \A l \in issued : /\ l.obj <= opens.last
                    /\ l \in dueLeaves \cup goneLeaves \/ Lost(l) \/ InTable(l) \/ OnItsWay(l) \/ Outdated(l)

Types == FilesType /\ MemType /\ DiskType /\ LocksType /\ IssuedType /\ CACallersType
CAIInv == Types /\ FilesOK /\ HeldOK /\ DeadOK /\ CATableOK /\ LocksOK /\ HoldsOK /\ KnownOK /\ LeavesAreRight

-----------------------------------------------------------------------------
(* Facts about the values *)

LEMMA Nothing ==
  /\ NoneYet \notin Nat /\ NoneYet \notin CACerts /\ NoneYet \notin Leaves
  /\ NoneYet \notin [leaf : Leaves, ca : CACerts] /\ NoneYet \notin Askers
  /\ Opens \subseteq Nat /\ 0 \notin Opens /\ MaxCAKeys \in Nat /\ MaxOpens \in Nat /\ MaxLeaves \in Nat
  /\ \A k \in 1..MaxCAKeys : k \in Nat /\ k > 0
  /\ \A x \in CACerts : x.key \in 1..MaxCAKeys /\ x.n \in 0..MaxCARenewals
  /\ \A l \in Leaves : l.serial \in Nat /\ l.serial > 0 /\ l.signer \in 1..MaxCAKeys /\ l.host \in Hosts /\ l.obj \in Opens
BY LocalCAAssumption, NoneYetAssumption DEF Opens, CACerts, Leaves

LEMMA Rests ==
  /\ NoCall \in Call /\ Under(NoCall) /\ Saves(NoCall) /\ NoCall.gone = {} /\ NoCall.at = "idle" /\ NoCall.cur = NoneYet
  /\ NoFolder \in [key : {NoneYet}, cert : {NoneYet}]
  /\ AtRest \in [at : {"free"}, key : {NoneYet}, cert : {NoneYet}] /\ AtRest \in CASteppings
BY DEF CASteppings, NoCall, Call, Under, Saves, NoFolder, AtRest, Steps, SavingSteps, Locked

\* The steps, one by one.
LEMMA CANextCases ==
  ASSUME LocalCANext
  PROVE  \/ \E p \in Askers : \/ LookInTable(p) \/ LookAgain(p) \/ FromDisk(p) \/ Issue(p) \/ SaveLeafKey(p)
                              \/ SaveLeafCert(p) \/ Publish(p) \/ Answered(p)
                              \/ \E h \in Hosts : CallCertificate(p, h)
         \/ MakeCAKey \/ MakeCACert \/ OpenCA \/ RenewReadKey \/ RenewReadCert \/ RenewCA \/ ReplaceCAKey \/ ReplaceCACert
         \/ UseCA \/ CheckDelete \/ DeleteCA \/ CACrash
         \/ (\E h \in Hosts : RemoveLeaf(h)) \/ (\E l \in Leaves : LeafDue(l))
BY DEF LocalCANext, CallerRuns, CAChanges

\* A call that goes on.
LEMMA CallSet ==
  ASSUME CACallersType, NEW p \in Askers, NEW rec \in Call, Under(rec), Saves(rec), rec.gone \subseteq goneLeaves,
         goneLeaves \subseteq goneLeaves', callers' = [callers EXCEPT ![p] = rec]
  PROVE  CACallersType'
<1>1. callers' \in [Askers -> Call]
  BY DEF CACallersType
<1>2. \A q \in Askers : callers'[q] = IF q = p THEN rec ELSE callers[q]
  BY DEF CACallersType
<1>3. ASSUME NEW q \in Askers
      PROVE  Under(callers'[q]) /\ Saves(callers'[q]) /\ callers'[q].gone \subseteq goneLeaves'
  <2>1. CASE q = p
    BY <1>2, <2>1
  <2>2. CASE q # p
    BY <1>2, <2>2 DEF CACallersType
  <2> QED
    BY <2>1, <2>2
<1> QED
  BY <1>1, <1>3 DEF CACallersType, Call, Steps, SavingSteps, Locked, Opens, CACerts, Leaves, Under, Saves

-----------------------------------------------------------------------------
(* Types *)

LEMMA FilesTypeStep ==
  ASSUME FilesType, FilesOK, LocalCANext
  PROVE  FilesType'
<1>h. FilesType /\ FilesOK
  OBVIOUS
<1>c. /\ Opens' = Opens /\ CACerts' = CACerts
      /\ \A k \in 1..MaxCAKeys, n \in 0..MaxCARenewals : [key |-> k, n |-> n] \in CACerts
      /\ 0 \in 0..MaxCARenewals /\ MaxCARenewals \in Nat
  BY LocalCAAssumption DEF Opens, CACerts
<1>t. /\ caKeys \in Nat /\ caKeys <= MaxCAKeys /\ opens.last \in Nat /\ opens.now \in Nat
      /\ opens.last <= MaxOpens /\ opens.now <= MaxOpens
      /\ caFiles.key \in {NoneYet} \cup 1..MaxCAKeys /\ caFiles.cert \in {NoneYet} \cup CACerts
  <2>1. caKeys \in 0..MaxCAKeys /\ opens.last \in 0..MaxOpens /\ opens.now \in 0..MaxOpens
    BY <1>h DEF FilesType
  <2>2. caFiles.key \in {NoneYet} \cup 1..MaxCAKeys /\ caFiles.cert \in {NoneYet} \cup CACerts
    BY <1>h DEF FilesType
  <2> QED
    BY <2>1, <2>2, Nothing
<1>a. AtRest \in CASteppings
      /\ NoFolder \in [key : {NoneYet} \cup 1..MaxCAKeys, cert : {NoneYet} \cup CACerts]
  BY Rests
<1>u. ASSUME UNCHANGED <<caFiles, caKeys, caStep, caInUse, opens, caStates>> PROVE FilesType'
  BY <1>h, <1>c, <1>u DEF FilesType
<1>1. ASSUME NEW p \in Askers,
             \/ LookInTable(p) \/ LookAgain(p) \/ FromDisk(p) \/ Issue(p) \/ SaveLeafKey(p)
             \/ SaveLeafCert(p) \/ Publish(p) \/ Answered(p)
             \/ \E h \in Hosts : CallCertificate(p, h)
      PROVE  UNCHANGED <<caFiles, caKeys, caStep, caInUse, opens, caStates>>
  BY <1>1 DEF LookInTable, LookAgain, FromDisk, Issue, SaveLeafKey, SaveLeafCert, Publish, Answered, CallCertificate,
     authority
<1>2. ASSUME (\E h \in Hosts : RemoveLeaf(h)) \/ (\E l \in Leaves : LeafDue(l))
      PROVE  UNCHANGED <<caFiles, caKeys, caStep, caInUse, opens, caStates>>
  BY <1>2 DEF RemoveLeaf, LeafDue, authority
<1>3. ASSUME MakeCAKey \/ ReplaceCAKey PROVE FilesType'
  <2>1. caKeys + 1 \in 1..MaxCAKeys /\ caKeys' = caKeys + 1
    <3>1. caKeys < MaxCAKeys /\ caKeys' = caKeys + 1
      BY <1>3 DEF MakeCAKey, ReplaceCAKey
    <3> QED
      BY <1>t, <3>1, LocalCAAssumption
  <2>2. caFiles' \in [key : {NoneYet} \cup 1..MaxCAKeys, cert : {NoneYet} \cup CACerts]
    BY <1>h, <1>3, <2>1 DEF MakeCAKey, ReplaceCAKey, FilesType
  <2>3. caStep' \in CASteppings
    <3>1. caStep \in CASteppings
      BY <1>h DEF FilesType
    <3>2. caStep' = caStep \/ caStep' = [AtRest EXCEPT !.at = "made", !.key = caKeys + 1]
      BY <1>3 DEF MakeCAKey, ReplaceCAKey
    <3>3. \A k \in 1..MaxCAKeys : [AtRest EXCEPT !.at = "made", !.key = k] \in CASteppings
      BY DEF AtRest, CASteppings
    <3> QED
      BY <2>1, <3>1, <3>2, <3>3, Zenon
  <2>4. caKeys' \in 0..MaxCAKeys
    BY <2>1, Nothing
  <2>5. UNCHANGED <<caInUse, opens, caStates>>
    BY <1>3 DEF MakeCAKey, ReplaceCAKey
  <2> QED
    BY <1>h, <1>c, <2>2, <2>3, <2>4, <2>5 DEF FilesType
<1>4. ASSUME MakeCACert PROVE FilesType'
  <2>1. caStep.key \in 1..MaxCAKeys /\ [key |-> caStep.key, n |-> 0] \in CACerts
    <3>1. caStep.key = caFiles.key /\ caFiles.key # NoneYet
      <4>1. caStep.at = "made"
        BY <1>4 DEF MakeCACert
      <4> QED
        BY <1>h, <4>1 DEF FilesOK
    <3>2. caStep.key \in 1..MaxCAKeys
      BY <1>t, <3>1
    <3> QED
      BY <1>c, <3>2
  <2>2. caFiles' \in [key : {NoneYet} \cup 1..MaxCAKeys, cert : {NoneYet} \cup CACerts]
    BY <1>h, <1>4, <2>1 DEF MakeCACert, FilesType
  <2> QED
    BY <1>h, <1>c, <1>a, <1>4, <2>2 DEF MakeCACert, FilesType
<1>5. ASSUME OpenCA PROVE FilesType'
  <2>1. opens.last + 1 \in Opens /\ opens.last + 1 \in 0..MaxOpens
    <3>1. opens.last < MaxOpens
      BY <1>5 DEF OpenCA
    <3> QED
      BY <1>t, <3>1, LocalCAAssumption DEF Opens
  <2> QED
    BY <1>h, <1>c, <1>5, <2>1 DEF OpenCA, FilesType
<1>6. ASSUME RenewReadKey PROVE FilesType'
  <2>1. [AtRest EXCEPT !.at = "read", !.key = caFiles.key] \in CASteppings
    BY <1>t DEF AtRest, CASteppings
  <2> QED
    BY <1>h, <1>c, <1>6, <2>1 DEF RenewReadKey, FilesType
<1>6a. ASSUME RenewReadCert PROVE FilesType'
  <2>1. [caStep EXCEPT !.at = "fits", !.cert = caFiles.cert] \in CASteppings
    BY <1>h, <1>t DEF FilesType, CASteppings
  <2> QED
    BY <1>h, <1>c, <1>a, <1>6a, <2>1 DEF RenewReadCert, FilesType
<1>7. ASSUME RenewCA PROVE FilesType'
  <2>1. caStep.cert \in CACerts /\ opens.now \in Opens
    <3>1. caStep.at = "fits"
      BY <1>7 DEF RenewCA
    <3>2. caStep.cert # NoneYet /\ opens.now # 0
      BY <1>h, <3>1 DEF FilesOK
    <3> QED
      BY <1>h, <1>t, <3>2, LocalCAAssumption DEF FilesType, CASteppings, Opens
  <2>2. PICK cert \in CACerts :
          /\ UNCHANGED caFiles \/ caFiles' = [caFiles EXCEPT !.cert = cert]
          /\ UNCHANGED caStates \/ caStates' = [caStates EXCEPT ![opens.now] = cert]
    <3>1. caStep.cert.n < MaxCARenewals => renewed(caStep.cert) \in CACerts
      BY <2>1, LocalCAAssumption DEF renewed, CACerts
    <3> QED
      BY <1>7, <2>1, <3>1 DEF RenewCA
  <2>3. caFiles' \in [key : {NoneYet} \cup 1..MaxCAKeys, cert : {NoneYet} \cup CACerts]
    BY <1>h, <2>2 DEF FilesType
  <2>4. caStates' \in [Opens -> {NoneYet} \cup CACerts]
    BY <1>h, <2>1, <2>2 DEF FilesType
  <2> QED
    BY <1>h, <1>c, <1>a, <1>7, <2>3, <2>4 DEF RenewCA, FilesType
<1>8. ASSUME ReplaceCACert PROVE FilesType'
  BY <1>h, <1>c, <1>8, Nothing DEF ReplaceCACert, FilesType
<1>9. ASSUME UseCA \/ CheckDelete PROVE FilesType'
  <2>1. [AtRest EXCEPT !.at = "deleting"] \in CASteppings
    BY DEF AtRest, CASteppings
  <2> QED
    BY <1>h, <1>c, <1>9, <2>1 DEF UseCA, CheckDelete, FilesType
<1>10. ASSUME DeleteCA \/ CACrash PROVE FilesType'
  <2>1. [opens EXCEPT !.now = 0] \in [last : 0..MaxOpens, now : 0..MaxOpens]
    <3>1. 0 \in 0..MaxOpens
      BY LocalCAAssumption
    <3> QED
      BY <1>h, <3>1 DEF FilesType
  <2> QED
    BY <1>h, <1>c, <1>10, <1>a, <2>1 DEF DeleteCA, CACrash, FilesType
<1> QED
  BY <1>u, <1>1, <1>2, <1>3, <1>4, <1>5, <1>6, <1>6a, <1>7, <1>8, <1>9, <1>10, CANextCases

-----------------------------------------------------------------------------
(* What the steps of a call do, one by one *)

\* A call goes on; the cell of the table, and of the locks, it is about.
Entry(c, at, ca, cur, new) ==
  [at |-> at, host |-> c.host, obj |-> c.obj, ca |-> ca, cur |-> cur, new |-> new, gone |-> c.gone]
CAGoes(p, at, ca, cur, new) == callers' = [callers EXCEPT ![p] = Entry(callers[p], at, ca, cur, new)]
TablePut(p, v) == leafMem' = [leafMem EXCEPT ![callers[p].obj][callers[p].host] = v]
LockOf(p, v) == leafLock' = [leafLock EXCEPT ![callers[p].obj][callers[p].host] = v]
rest == <<issued, dueLeaves, goneLeaves>>

Found(p) ==
  LET c == callers[p] IN
  /\ c.at = "look" /\ mem(p) # NoneYet /\ mem(p).ca = c.ca /\ CAGoes(p, "done", c.ca, c.cur, mem(p).leaf)
  /\ UNCHANGED <<authority, leafMem, leafLock, leafDisk, rest>>
NotFound(p) ==
  LET c == callers[p] IN
  c.at = "look" /\ CAGoes(p, "lock", c.ca, c.cur, c.new) /\ UNCHANGED <<authority, leafMem, leafLock, leafDisk, rest>>
CAKept(p) ==
  LET c == callers[p]
      ca == caStates[c.obj] IN
  /\ c.at = "lock" /\ leafLock[c.obj][c.host] = NoneYet /\ mem(p) # NoneYet /\ mem(p).leaf.signer = ca.key
  /\ TablePut(p, [leaf |-> mem(p).leaf, ca |-> ca]) /\ CAGoes(p, "done", ca, c.cur, mem(p).leaf)
  /\ UNCHANGED <<authority, leafLock, leafDisk, rest>>
FoundDue(p) ==
  LET c == callers[p]
      ca == caStates[c.obj] IN
  /\ c.at = "lock" /\ leafLock[c.obj][c.host] = NoneYet
  /\ mem(p) # NoneYet /\ mem(p).leaf.signer = ca.key /\ isDue(mem(p).leaf)
  /\ TablePut(p, [leaf |-> mem(p).leaf, ca |-> ca]) /\ LockOf(p, p) /\ CAGoes(p, "issue", ca, mem(p).leaf, c.new)
  /\ UNCHANGED <<authority, leafDisk, rest>>
Forgotten(p) ==
  LET c == callers[p]
      ca == caStates[c.obj] IN
  /\ c.at = "lock" /\ leafLock[c.obj][c.host] = NoneYet
  /\ mem(p) = NoneYet \/ mem(p).leaf.signer # ca.key
  /\ TablePut(p, NoneYet) /\ LockOf(p, p) /\ CAGoes(p, "disk", ca, NoneYet, c.new)
  /\ leafDisk' = leafDisk \/ leafDisk' = [leafDisk EXCEPT ![c.host] = NoFolder]
  /\ UNCHANGED <<authority, rest>>
Loaded(p) ==
  LET c == callers[p]
      l == leafDisk[c.host].cert IN
  /\ c.at = "disk" /\ l # NoneYet /\ l.signer = c.ca.key /\ l.host = c.host
  /\ TablePut(p, [leaf |-> l, ca |-> c.ca]) /\ LockOf(p, NoneYet) /\ CAGoes(p, "done", c.ca, c.cur, l)
  /\ UNCHANGED <<authority, leafDisk, rest>>
NotLoaded(p) ==
  LET c == callers[p] IN
  /\ c.at = "disk" /\ CAGoes(p, "issue", c.ca, c.cur, c.new)
  /\ leafDisk' = leafDisk \/ leafDisk' = [leafDisk EXCEPT ![c.host] = NoFolder]
  /\ UNCHANGED <<authority, leafMem, leafLock, rest>>
Issues(p) ==
  LET c == callers[p]
      leaf == [serial |-> Cardinality(issued) + 1, signer |-> c.ca.key, host |-> c.host, obj |-> c.obj] IN
  /\ c.at = "issue" /\ Cardinality(issued) < MaxLeaves /\ issued' = issued \cup {leaf}
  /\ CAGoes(p, "savekey", c.ca, c.cur, leaf)
  /\ UNCHANGED <<authority, leafMem, leafLock, leafDisk, dueLeaves, goneLeaves>>
IssueRefused(p) ==
  LET c == callers[p] IN
  /\ c.at = "issue" /\ c.cur = NoneYet /\ callers' = [callers EXCEPT ![p] = NoCall] /\ LockOf(p, NoneYet)
  /\ UNCHANGED <<authority, leafMem, leafDisk, rest>>
CAStays(p) ==
  LET c == callers[p] IN
  /\ c.at = "issue" /\ c.cur # NoneYet /\ CAGoes(p, "done", c.ca, c.cur, c.cur) /\ LockOf(p, NoneYet)
  /\ UNCHANGED <<authority, leafMem, leafDisk, rest>>
Saved(p) ==
  LET c == callers[p] IN
  /\ c.at \in {"savekey", "savecert"} /\ \E at \in {"savecert", "publish"} : CAGoes(p, at, c.ca, c.cur, c.new)
  /\ \/ leafDisk' = leafDisk
     \/ leafDisk' = [leafDisk EXCEPT ![c.host].key = c.new.serial]
     \/ leafDisk' = [leafDisk EXCEPT ![c.host].cert = c.new]
  /\ UNCHANGED <<authority, leafMem, leafLock, rest>>
CAPublished(p) ==
  LET c == callers[p] IN
  /\ c.at = "publish" /\ TablePut(p, [leaf |-> c.new, ca |-> c.ca]) /\ LockOf(p, NoneYet)
  /\ CAGoes(p, "done", c.ca, c.cur, c.new) /\ UNCHANGED <<authority, leafDisk, rest>>
CAAnswers(p) ==
  /\ callers[p].at = "done" /\ callers' = [callers EXCEPT ![p] = NoCall]
  /\ UNCHANGED <<authority, leafMem, leafLock, leafDisk, rest>>
Called(p, h) ==
  /\ callers[p].at = "idle" /\ opens.now # 0
  /\ callers' = [callers EXCEPT ![p] = [at |-> "look", host |-> h, obj |-> opens.now, ca |-> caStates[opens.now],
                                        cur |-> NoneYet, new |-> NoneYet, gone |-> goneLeaves]]
  /\ UNCHANGED <<authority, leafMem, leafLock, leafDisk, rest>>

CAQuiet(p) == Found(p) \/ NotFound(p) \/ CAAnswers(p)
CallSteps(p) == CAQuiet(p) \/ CAKept(p) \/ FoundDue(p) \/ Forgotten(p) \/ Loaded(p) \/ NotLoaded(p) \/ Issues(p)
                \/ IssueRefused(p) \/ CAStays(p) \/ Saved(p) \/ CAPublished(p)

LEMMA Entries ==
  ASSUME NEW c \in Call, NEW at, NEW ca
  PROVE  [c EXCEPT !.at = at] = Entry(c, at, c.ca, c.cur, c.new) /\ [c EXCEPT !.ca = ca] = Entry(c, c.at, ca, c.cur, c.new)
BY DEF Call, Entry

\* Who asks, and where.
LEMMA CallFacts ==
  ASSUME Types, HeldOK, NEW p \in Askers, callers[p].at # "idle"
  PROVE  /\ callers[p] \in Call /\ callers[p].host \in Hosts /\ callers[p].obj \in Opens /\ callers[p].ca \in CACerts
         /\ Held(callers[p].obj) /\ caStates[callers[p].obj] \in CACerts
         /\ mem(p) \in {NoneYet} \cup [leaf : Leaves, ca : CACerts]
         /\ mem(p) # NoneYet => mem(p).leaf \in Leaves
<1>1. callers[p] \in Call /\ callers[p].host \in Hosts /\ callers[p].obj \in Opens /\ callers[p].ca \in CACerts
  BY DEF Types, CACallersType, Under
<1>2. Held(callers[p].obj)
  BY <1>1 DEF Held, Asks
<1>3. caStates[callers[p].obj] \in CACerts
  BY <1>1, <1>2 DEF Types, FilesType, HeldOK
<1>4. mem(p) \in {NoneYet} \cup [leaf : Leaves, ca : CACerts]
  BY <1>1 DEF Types, MemType, mem
<1> QED
  BY <1>1, <1>2, <1>3, <1>4

LEMMA CallCases ==
  ASSUME Types, HeldOK, NEW p \in Askers, CallerRuns(p)
  PROVE  CallSteps(p)
<1> DEFINE c == callers[p]
           ca_ == caStates[c.obj]
           h == c.host
<1>c. c \in Call
  BY DEF CACallersType, Types
<1>d. ASSUME NEW leaf PROVE done(p, leaf) = Entry(c, "done", c.ca, c.cur, leaf)
  <2>1. [c EXCEPT !.at = "done"] = Entry(c, "done", c.ca, c.cur, c.new)
    BY <1>c, Entries
  <2>2. [Entry(c, "done", c.ca, c.cur, c.new) EXCEPT !.new = leaf] = Entry(c, "done", c.ca, c.cur, leaf)
    BY DEF Entry
  <2> QED
    BY <2>1, <2>2 DEF done
<1>1. CASE LookInTable(p)
  <2>1. [c EXCEPT !.at = "lock"] = Entry(c, "lock", c.ca, c.cur, c.new)
    BY <1>c, Entries
  <2>2. done(p, mem(p).leaf) = Entry(c, "done", c.ca, c.cur, mem(p).leaf)
    BY <1>d
  <2>3. CASE usable(mem(p), c.ca)
    BY <1>1, <2>2, <2>3 DEF LookInTable, callTo, usable, Found, CAGoes, CAQuiet, CallSteps, rest
  <2>4. CASE ~usable(mem(p), c.ca)
    BY <1>1, <2>1, <2>4 DEF LookInTable, callTo, NotFound, CAGoes, CAQuiet, CallSteps, rest
  <2> QED
    BY <2>3, <2>4
<1>2. CASE LookAgain(p)
  <2> DEFINE st == rechecked(mem(p), ca_)
             foreign == mem(p) # NoneYet /\ st = NoneYet
             c_ == [c EXCEPT !.ca = ca_, !.cur = IF st = NoneYet THEN NoneYet ELSE st.leaf]
  <2>0. /\ c.at = "lock" /\ leafLock[c.obj][c.host] = NoneYet
        /\ setMem(p, st)
        /\ IF foreign THEN archive(h) ELSE UNCHANGED leafDisk
        /\ IF st # NoneYet /\ ~isDue(st.leaf)
           THEN callTo(p, [done(p, st.leaf) EXCEPT !.ca = ca_]) /\ UNCHANGED leafLock
           ELSE callTo(p, [c_ EXCEPT !.at = IF st = NoneYet THEN "disk" ELSE "issue"]) /\ setLock(p, p)
        /\ UNCHANGED <<authority, rest>>
    BY <1>2 DEF LookAgain, rest
  <2>1. CASE mem(p) = NoneYet \/ mem(p).leaf.signer # ca_.key
    <3>1. st = NoneYet
      BY <2>1 DEF rechecked
    <3>2. callTo(p, Entry(c, "disk", ca_, NoneYet, c.new))
      <4>1. [c EXCEPT !.ca = ca_] = Entry(c, c.at, ca_, c.cur, c.new)
        BY <1>c, Entries
      <4>2. [Entry(c, c.at, ca_, c.cur, c.new) EXCEPT !.cur = NoneYet] = Entry(c, c.at, ca_, NoneYet, c.new)
        BY DEF Entry
      <4>3. [Entry(c, c.at, ca_, NoneYet, c.new) EXCEPT !.at = "disk"] = Entry(c, "disk", ca_, NoneYet, c.new)
        BY DEF Entry
      <4>4. [[c EXCEPT !.ca = ca_, !.cur = NoneYet] EXCEPT !.at = "disk"] = Entry(c, "disk", ca_, NoneYet, c.new)
        BY <4>1, <4>2, <4>3
      <4>5. callTo(p, [[c EXCEPT !.ca = ca_, !.cur = NoneYet] EXCEPT !.at = "disk"])
        BY <2>0, <3>1
      <4> QED
        BY <4>4, <4>5
    <3> QED
      BY <2>0, <2>1, <3>1, <3>2 DEF archive, callTo, setMem, setLock, Forgotten, TablePut, LockOf, CAGoes, CallSteps
  <2>2. CASE ~(mem(p) = NoneYet \/ mem(p).leaf.signer # ca_.key)
    <3>1. st = [leaf |-> mem(p).leaf, ca |-> ca_] /\ st.leaf = mem(p).leaf
      BY <2>2 DEF rechecked
    <3>2. st # NoneYet /\ ~foreign
      <4>1. mem(p).leaf \in Leaves /\ ca_ \in CACerts
        <5>1. c.at # "idle"
          BY <2>0
        <5>2. mem(p) # NoneYet /\ mem(p).leaf \in Leaves /\ ca_ \in CACerts
          BY <2>2, <5>1, CallFacts
        <5> QED
          BY <5>2
      <4> QED
        BY <3>1, <4>1, Nothing
    <3>3. CASE isDue(mem(p).leaf)
      <4>1. callTo(p, [[c EXCEPT !.ca = ca_, !.cur = mem(p).leaf] EXCEPT !.at = "issue"])
        BY <2>0, <3>1, <3>2, <3>3
      <4>2. [[c EXCEPT !.ca = ca_, !.cur = mem(p).leaf] EXCEPT !.at = "issue"]
              = Entry(c, "issue", ca_, mem(p).leaf, c.new)
        <5>1. [c EXCEPT !.ca = ca_] = Entry(c, c.at, ca_, c.cur, c.new)
          BY <1>c, Entries
        <5>2. [Entry(c, c.at, ca_, c.cur, c.new) EXCEPT !.cur = mem(p).leaf] = Entry(c, c.at, ca_, mem(p).leaf, c.new)
          BY DEF Entry
        <5>3. [Entry(c, c.at, ca_, mem(p).leaf, c.new) EXCEPT !.at = "issue"]
                = Entry(c, "issue", ca_, mem(p).leaf, c.new)
          BY DEF Entry
        <5>4. [c EXCEPT !.ca = ca_, !.cur = mem(p).leaf] = Entry(c, c.at, ca_, mem(p).leaf, c.new)
          BY <5>1, <5>2
        <5> QED
          BY <5>3, <5>4
      <4> QED
        BY <2>0, <2>2, <3>1, <3>2, <3>3, <4>1, <4>2 DEF callTo, setMem, setLock, FoundDue, TablePut, LockOf, CAGoes, CallSteps
    <3>4. CASE ~isDue(mem(p).leaf)
      <4>1. [done(p, mem(p).leaf) EXCEPT !.ca = ca_] = Entry(c, "done", ca_, c.cur, mem(p).leaf)
        <5>1. done(p, mem(p).leaf) = Entry(c, "done", c.ca, c.cur, mem(p).leaf)
          BY <1>d
        <5>2. [Entry(c, "done", c.ca, c.cur, mem(p).leaf) EXCEPT !.ca = ca_] = Entry(c, "done", ca_, c.cur, mem(p).leaf)
          BY DEF Entry
        <5> QED
          BY <5>1, <5>2
      <4> QED
        BY <2>0, <2>2, <3>1, <3>2, <3>4, <4>1 DEF callTo, setMem, CAKept, TablePut, CAGoes, CallSteps
    <3> QED
      BY <3>3, <3>4
  <2> QED
    BY <2>1, <2>2
<1>3. CASE FromDisk(p)
  <2> DEFINE f == leafDisk[h]
             ours == pairOf(f, c.ca, h)
  <2>1. [c EXCEPT !.at = "issue"] = Entry(c, "issue", c.ca, c.cur, c.new)
    BY <1>c, Entries
  <2>2. CASE ours /\ ~isDue(f.cert)
    BY <1>3, <1>d, <2>2 DEF FromDisk, pairOf, callTo, setMem, setLock, Loaded, TablePut, LockOf, CAGoes, CallSteps, rest
  <2>3. CASE ~(ours /\ ~isDue(f.cert))
    BY <1>3, <2>1, <2>3 DEF FromDisk, archive, callTo, NotLoaded, CAGoes, CallSteps, rest
  <2> QED
    BY <2>2, <2>3
<1>4. CASE Issue(p)
  <2> DEFINE leaf == [serial |-> Cardinality(issued) + 1, signer |-> c.ca.key, host |-> c.host, obj |-> c.obj]
  <2>1. [c EXCEPT !.at = "savekey", !.new = leaf] = Entry(c, "savekey", c.ca, c.cur, leaf)
    <3>1. [c EXCEPT !.at = "savekey"] = Entry(c, "savekey", c.ca, c.cur, c.new)
      BY <1>c, Entries
    <3>2. ASSUME NEW l
          PROVE  [Entry(c, "savekey", c.ca, c.cur, c.new) EXCEPT !.new = l] = Entry(c, "savekey", c.ca, c.cur, l)
      BY DEF Entry
    <3> QED
      BY <3>1, <3>2
  <2>2. done(p, c.cur) = Entry(c, "done", c.ca, c.cur, c.cur)
    BY <1>d
  <2>3. CASE Cardinality(issued) < MaxLeaves /\ issued' = issued \cup {leaf}
             /\ callTo(p, [c EXCEPT !.at = "savekey", !.new = leaf]) /\ UNCHANGED leafLock
    BY <1>4, <2>1, <2>3 DEF Issue, callTo, Issues, CAGoes, CallSteps, rest
  <2>4. CASE setLock(p, NoneYet) /\ UNCHANGED issued /\ callTo(p, IF c.cur = NoneYet THEN NoCall ELSE done(p, c.cur))
    BY <1>4, <2>2, <2>4 DEF Issue, callTo, setLock, IssueRefused, CAStays, LockOf, CAGoes, CallSteps, rest
  <2> QED
    BY <1>4, <2>3, <2>4 DEF Issue
<1>5. CASE SaveLeafKey(p) \/ SaveLeafCert(p)
  <2>1. \A at : [c EXCEPT !.at = at] = Entry(c, at, c.ca, c.cur, c.new)
    BY <1>c, Entries
  <2>2. c.at \in {"savekey", "savecert"} /\ \E at \in {"savecert", "publish"} : callTo(p, [c EXCEPT !.at = at])
    BY <1>5 DEF SaveLeafKey, SaveLeafCert
  <2>3. \/ leafDisk' = leafDisk
        \/ leafDisk' = [leafDisk EXCEPT ![c.host].key = c.new.serial]
        \/ leafDisk' = [leafDisk EXCEPT ![c.host].cert = c.new]
    BY <1>5 DEF SaveLeafKey, SaveLeafCert
  <2>4. UNCHANGED <<authority, leafMem, leafLock, rest>>
    BY <1>5 DEF SaveLeafKey, SaveLeafCert, rest
  <2> QED
    BY <2>1, <2>2, <2>3, <2>4 DEF callTo, CAGoes, Saved, CallSteps
<1>6. CASE Publish(p)
  BY <1>6, <1>d DEF Publish, callTo, setMem, setLock, CAPublished, TablePut, LockOf, CAGoes, CallSteps, rest
<1>7. CASE Answered(p)
  BY <1>7 DEF Answered, callTo, CAAnswers, CAQuiet, CallSteps, rest
<1> QED
  BY <1>1, <1>2, <1>3, <1>4, <1>5, <1>6, <1>7 DEF CallerRuns

LEMMA CalledCases ==
  ASSUME NEW p \in Askers, NEW h \in Hosts, CallCertificate(p, h)
  PROVE  Called(p, h)
<1>1. [NoCall EXCEPT !.at = "look", !.host = h, !.obj = opens.now, !.ca = caStates[opens.now], !.gone = goneLeaves]
        = [at |-> "look", host |-> h, obj |-> opens.now, ca |-> caStates[opens.now], cur |-> NoneYet, new |-> NoneYet,
           gone |-> goneLeaves]
  <2> DEFINE R(at, host, obj, ca, gone) ==
               [at |-> at, host |-> host, obj |-> obj, ca |-> ca, cur |-> NoneYet, new |-> NoneYet, gone |-> gone]
  <2>1. NoCall = R("idle", NoneYet, NoneYet, NoneYet, {})
    BY DEF NoCall
  <2>2. [R("idle", NoneYet, NoneYet, NoneYet, {}) EXCEPT !.at = "look"] = R("look", NoneYet, NoneYet, NoneYet, {})
    OBVIOUS
  <2>3. [R("look", NoneYet, NoneYet, NoneYet, {}) EXCEPT !.host = h] = R("look", h, NoneYet, NoneYet, {})
    OBVIOUS
  <2>4. PICK present, ca, gone : present = opens.now /\ ca = caStates[opens.now] /\ gone = goneLeaves
    OBVIOUS
  <2>5. [R("look", h, NoneYet, NoneYet, {}) EXCEPT !.obj = present] = R("look", h, present, NoneYet, {})
    OBVIOUS
  <2>6. [R("look", h, present, NoneYet, {}) EXCEPT !.ca = ca] = R("look", h, present, ca, {})
    OBVIOUS
  <2>7. [R("look", h, present, ca, {}) EXCEPT !.gone = gone] = R("look", h, present, ca, gone)
    OBVIOUS
  <2> HIDE DEF R
  <2>8. [NoCall EXCEPT !.at = "look", !.host = h] = R("look", h, NoneYet, NoneYet, {})
    BY <2>1, <2>2, <2>3
  <2>9. [NoCall EXCEPT !.at = "look", !.host = h, !.obj = present, !.ca = ca] = R("look", h, present, ca, {})
    BY <2>5, <2>6, <2>8
  <2>10. [NoCall EXCEPT !.at = "look", !.host = h, !.obj = present, !.ca = ca, !.gone = gone] = R("look", h, present, ca, gone)
    BY <2>7, <2>9
  <2> QED
    BY <2>4, <2>10 DEF R
<1> QED
  BY <1>1 DEF CallCertificate, callTo, Called, rest

\* The steps of the system, those of a call by what they do.
CASteps == MakeCAKey \/ MakeCACert \/ OpenCA \/ RenewReadKey \/ RenewReadCert \/ RenewCA \/ ReplaceCAKey \/ ReplaceCACert
           \/ UseCA \/ CheckDelete

LEMMA Cases ==
  ASSUME Types, HeldOK, LocalCANext
  PROVE  \/ \E p \in Askers : CallSteps(p) \/ \E h \in Hosts : Called(p, h)
         \/ CASteps \/ DeleteCA \/ CACrash
         \/ (\E h \in Hosts : RemoveLeaf(h)) \/ (\E l \in Leaves : LeafDue(l))
BY CallCases, CalledCases DEF LocalCANext, CAChanges, CASteps

\* What a step puts in its cells, and nowhere else.
LEMMA PutOne ==
  ASSUME Types, HeldOK, NEW p \in Askers, callers[p].at # "idle", NEW v, TablePut(p, v)
  PROVE  /\ leafMem'[callers[p].obj][callers[p].host] = v
         /\ \A o \in Opens, h \in Hosts : ~(o = callers[p].obj /\ h = callers[p].host) => leafMem'[o][h] = leafMem[o][h]
BY CallFacts DEF TablePut, Types, MemType

LEMMA LockOne ==
  ASSUME Types, HeldOK, NEW p \in Askers, callers[p].at # "idle", NEW v, LockOf(p, v)
  PROVE  /\ leafLock'[callers[p].obj][callers[p].host] = v
         /\ \A o \in Opens, h \in Hosts : ~(o = callers[p].obj /\ h = callers[p].host) => leafLock'[o][h] = leafLock[o][h]
BY CallFacts DEF LockOf, Types, LocksType

LEMMA GoesOne ==
  ASSUME Types, NEW p \in Askers, NEW at, NEW ca, NEW cur, NEW new, CAGoes(p, at, ca, cur, new)
  PROVE  /\ callers'[p].at = at /\ callers'[p].host = callers[p].host /\ callers'[p].obj = callers[p].obj
         /\ callers'[p].ca = ca /\ callers'[p].cur = cur /\ callers'[p].new = new /\ callers'[p].gone = callers[p].gone
         /\ \A q \in Askers : q # p => callers'[q] = callers[q]
BY DEF CAGoes, Entry, Types, CACallersType

LEMMA EndsOne ==
  ASSUME Types, NEW p \in Askers, callers' = [callers EXCEPT ![p] = NoCall]
  PROVE  /\ callers'[p] = NoCall /\ callers'[p].at = "idle"
         /\ \A q \in Askers : q # p => callers'[q] = callers[q]
BY Rests DEF Types, CACallersType

LEMMA CalledOne ==
  ASSUME Types, NEW p \in Askers, NEW h \in Hosts, Called(p, h)
  PROVE  /\ callers'[p].at = "look" /\ callers'[p].host = h /\ callers'[p].obj = opens.now
         /\ callers'[p].ca = caStates[opens.now] /\ callers'[p].cur = NoneYet /\ callers'[p].new = NoneYet
         /\ callers'[p].gone = goneLeaves
         /\ \A q \in Askers : q # p => callers'[q] = callers[q]
BY DEF Called, Types, CACallersType

\* What every step of a call leaves alone.
LEMMA CallLeaves ==
  ASSUME Types, HeldOK, NEW p \in Askers, CallSteps(p)
  PROVE  /\ callers[p].at # "idle" /\ UNCHANGED <<authority, dueLeaves, goneLeaves>>
         /\ \A q \in Askers : q # p => callers'[q] = callers[q]
         /\ \A o \in Opens, h \in Hosts : ~(o = callers[p].obj /\ h = callers[p].host) =>
              leafMem'[o][h] = leafMem[o][h] /\ leafLock'[o][h] = leafLock[o][h]
         /\ \A h \in Hosts : h # callers[p].host => leafDisk'[h] = leafDisk[h]
         /\ callers'[p].at = "idle" \/ (/\ callers'[p].obj = callers[p].obj /\ callers'[p].host = callers[p].host
                                        /\ callers'[p].gone = callers[p].gone
                                        /\ callers'[p].ca \in {callers[p].ca, caStates[callers[p].obj]})
<1>1. callers[p].at # "idle" /\ UNCHANGED <<authority, dueLeaves, goneLeaves>>
  BY DEF CallSteps, CAQuiet, Found, NotFound, CAKept, FoundDue, Forgotten, Loaded, NotLoaded, Issues, IssueRefused, CAStays, Saved,
     CAPublished, CAAnswers, rest
<1>2. /\ \A q \in Askers : q # p => callers'[q] = callers[q]
      /\ callers'[p].at = "idle" \/ (/\ callers'[p].obj = callers[p].obj /\ callers'[p].host = callers[p].host
                                     /\ callers'[p].gone = callers[p].gone
                                     /\ callers'[p].ca \in {callers[p].ca, caStates[callers[p].obj]})
  <2>1. \/ callers' = [callers EXCEPT ![p] = NoCall]
        \/ \E at, cur, new : CAGoes(p, at, callers[p].ca, cur, new) \/ CAGoes(p, at, caStates[callers[p].obj], cur, new)
    BY DEF CallSteps, CAQuiet, Found, NotFound, CAKept, FoundDue, Forgotten, Loaded, NotLoaded, Issues, IssueRefused, CAStays, Saved,
       CAPublished, CAAnswers
  <2> QED
    BY <2>1, GoesOne, EndsOne
<1>3. \A o \in Opens, h \in Hosts : ~(o = callers[p].obj /\ h = callers[p].host) => leafMem'[o][h] = leafMem[o][h]
  <2>1. leafMem' = leafMem \/ \E v : TablePut(p, v)
    BY DEF CallSteps, CAQuiet, Found, NotFound, CAKept, FoundDue, Forgotten, Loaded, NotLoaded, Issues, IssueRefused, CAStays, Saved,
       CAPublished, CAAnswers
  <2> QED
    BY <1>1, <2>1, PutOne
<1>4. \A o \in Opens, h \in Hosts : ~(o = callers[p].obj /\ h = callers[p].host) => leafLock'[o][h] = leafLock[o][h]
  <2>1. leafLock' = leafLock \/ \E v : LockOf(p, v)
    BY DEF CallSteps, CAQuiet, Found, NotFound, CAKept, FoundDue, Forgotten, Loaded, NotLoaded, Issues, IssueRefused, CAStays, Saved,
       CAPublished, CAAnswers
  <2> QED
    BY <1>1, <2>1, LockOne
<1>5. \A h \in Hosts : h # callers[p].host => leafDisk'[h] = leafDisk[h]
  <2>1. \/ leafDisk' = leafDisk
        \/ leafDisk' = [leafDisk EXCEPT ![callers[p].host] = NoFolder]
        \/ leafDisk' = [leafDisk EXCEPT ![callers[p].host].key = callers[p].new.serial]
        \/ leafDisk' = [leafDisk EXCEPT ![callers[p].host].cert = callers[p].new]
    BY DEF CallSteps, CAQuiet, Found, NotFound, CAKept, FoundDue, Forgotten, Loaded, NotLoaded, Issues, IssueRefused, CAStays, Saved,
       CAPublished, CAAnswers
  <2> QED
    BY <2>1 DEF Types, DiskType
<1> QED
  BY <1>1, <1>2, <1>3, <1>4, <1>5

-----------------------------------------------------------------------------
(* The types of the certificates, locks and calls *)

LEMMA MemTypeStep ==
  ASSUME Types, HeldOK, HoldsOK, LocalCANext
  PROVE  MemType'
<1>h. Types /\ HeldOK /\ HoldsOK
  OBVIOUS
<1>c. Opens' = Opens /\ CACerts' = CACerts /\ Leaves' = Leaves
  BY DEF Opens, CACerts, Leaves
<1>u. ASSUME UNCHANGED leafMem PROVE MemType'
  BY <1>h, <1>c, <1>u DEF Types, MemType
<1>1. ASSUME NEW p \in Askers,
             CAQuiet(p) \/ NotLoaded(p) \/ Issues(p) \/ IssueRefused(p) \/ CAStays(p) \/ Saved(p) \/ \E h \in Hosts : Called(p, h)
      PROVE  UNCHANGED leafMem
  BY <1>1 DEF CAQuiet, Found, NotFound, CAAnswers, NotLoaded, Issues, IssueRefused, CAStays, Saved, Called
<1>2. ASSUME CASteps \/ DeleteCA \/ \E l \in Leaves : LeafDue(l) PROVE UNCHANGED leafMem
  BY <1>2 DEF CASteps, MakeCAKey, MakeCACert, OpenCA, RenewReadKey, RenewReadCert, RenewCA, ReplaceCAKey, ReplaceCACert, UseCA,
     CheckDelete, leavesAlone, DeleteCA, LeafDue
<1>3. ASSUME NEW p \in Askers, CAKept(p) \/ FoundDue(p) \/ Forgotten(p) \/ Loaded(p) \/ CAPublished(p) PROVE MemType'
  <2>1. callers[p].at # "idle"
    BY <1>3 DEF CAKept, FoundDue, Forgotten, Loaded, CAPublished
  <2>2. PICK v \in {NoneYet} \cup [leaf : Leaves, ca : CACerts] : TablePut(p, v)
    <3>1. CASE CAKept(p) \/ FoundDue(p)
      <4>1. mem(p).leaf \in Leaves /\ caStates[callers[p].obj] \in CACerts
        BY <1>h, <2>1, <3>1, CallFacts DEF CAKept, FoundDue
      <4> QED
        BY <3>1, <4>1 DEF CAKept, FoundDue
    <3>2. CASE Forgotten(p)
      BY <3>2 DEF Forgotten
    <3>3. CASE Loaded(p)
      <4>1. callers[p].ca \in CACerts /\ leafDisk[callers[p].host].cert \in Leaves
        BY <1>h, <2>1, <3>3, CallFacts DEF Loaded, Types, DiskType
      <4> QED
        BY <3>3, <4>1 DEF Loaded
    <3>4. CASE CAPublished(p)
      <4>1. callers[p].ca \in CACerts /\ callers[p].new \in Leaves
        BY <1>h, <2>1, <3>4, CallFacts DEF CAPublished, Types, CACallersType, Saves, SavingSteps
      <4> QED
        BY <3>4, <4>1 DEF CAPublished
    <3> QED
      BY <1>3, <3>1, <3>2, <3>3, <3>4
  <2>3. callers[p].obj \in Opens /\ callers[p].host \in Hosts
    BY <1>h, <2>1, CallFacts
  <2> QED
    BY <1>h, <1>c, <2>2, <2>3 DEF TablePut, Types, MemType
<1>4. ASSUME NEW h \in Hosts, RemoveLeaf(h) PROVE MemType'
  <2>1. opens.now \in Opens
    <3>1. opens.now \in 0..MaxOpens /\ opens.now # 0
      BY <1>h, <1>4 DEF RemoveLeaf, Types, FilesType
    <3> QED
      BY <3>1, LocalCAAssumption DEF Opens
  <2> QED
    BY <1>h, <1>c, <1>4, <2>1 DEF RemoveLeaf, Types, MemType
<1>5. ASSUME CACrash PROVE MemType'
  BY <1>h, <1>c, <1>5 DEF CACrash, Types, MemType
<1> QED
  BY <1>u, <1>1, <1>2, <1>3, <1>4, <1>5, Cases DEF CallSteps

LEMMA DiskTypeStep ==
  ASSUME Types, HeldOK, LocalCANext
  PROVE  DiskType'
<1>h. Types /\ HeldOK
  OBVIOUS
<1>c. Leaves' = Leaves /\ NoFolder \in [key : {NoneYet} \cup 1..MaxLeaves, cert : {NoneYet} \cup Leaves]
  BY Rests DEF Opens, Leaves
<1>u. ASSUME UNCHANGED leafDisk PROVE DiskType'
  BY <1>h, <1>c, <1>u DEF Types, DiskType
<1>1. ASSUME NEW p \in Askers,
             CAQuiet(p) \/ CAKept(p) \/ FoundDue(p) \/ Loaded(p) \/ Issues(p) \/ IssueRefused(p) \/ CAStays(p) \/ CAPublished(p)
             \/ \E h \in Hosts : Called(p, h)
      PROVE  UNCHANGED leafDisk
  BY <1>1 DEF CAQuiet, Found, NotFound, CAAnswers, CAKept, FoundDue, Loaded, Issues, IssueRefused, CAStays, CAPublished, Called
<1>2. ASSUME CASteps \/ CACrash \/ \E l \in Leaves : LeafDue(l) PROVE UNCHANGED leafDisk
  BY <1>2 DEF CASteps, MakeCAKey, MakeCACert, OpenCA, RenewReadKey, RenewReadCert, RenewCA, ReplaceCAKey, ReplaceCACert, UseCA,
     CheckDelete, leavesAlone, CACrash, LeafDue
<1>3. ASSUME NEW p \in Askers, Forgotten(p) \/ NotLoaded(p) \/ Saved(p) PROVE DiskType'
  <2>1. callers[p].at # "idle" /\ (Saved(p) => callers[p].at \in SavingSteps)
    BY <1>3 DEF Forgotten, NotLoaded, Saved, SavingSteps
  <2>2. callers[p].host \in Hosts /\ (Saved(p) => callers[p].new \in Leaves)
    BY <1>h, <2>1, CallFacts DEF Types, CACallersType, Saves
  <2>3. \/ leafDisk' = leafDisk
        \/ leafDisk' = [leafDisk EXCEPT ![callers[p].host] = NoFolder]
        \/ Saved(p) /\ leafDisk' = [leafDisk EXCEPT ![callers[p].host].key = callers[p].new.serial]
        \/ Saved(p) /\ leafDisk' = [leafDisk EXCEPT ![callers[p].host].cert = callers[p].new]
    BY <1>3 DEF Forgotten, NotLoaded, Saved
  <2>4. Saved(p) => callers[p].new.serial \in 1..MaxLeaves
    BY <2>2 DEF Leaves
  <2> QED
    BY <1>h, <1>c, <2>2, <2>3, <2>4 DEF Types, DiskType
<1>4. ASSUME DeleteCA \/ \E h \in Hosts : RemoveLeaf(h) PROVE DiskType'
  BY <1>h, <1>c, <1>4 DEF DeleteCA, RemoveLeaf, Types, DiskType
<1> QED
  BY <1>u, <1>1, <1>2, <1>3, <1>4, Cases DEF CallSteps

LEMMA LocksTypeStep ==
  ASSUME Types, HeldOK, LocalCANext
  PROVE  LocksType'
<1>h. Types /\ HeldOK
  OBVIOUS
<1>c. Opens' = Opens
  BY DEF Opens
<1>u. ASSUME UNCHANGED leafLock PROVE LocksType'
  BY <1>h, <1>c, <1>u DEF Types, LocksType
<1>1. ASSUME NEW p \in Askers,
             CAQuiet(p) \/ CAKept(p) \/ NotLoaded(p) \/ Issues(p) \/ Saved(p) \/ \E h \in Hosts : Called(p, h)
      PROVE  UNCHANGED leafLock
  BY <1>1 DEF CAQuiet, Found, NotFound, CAAnswers, CAKept, NotLoaded, Issues, Saved, Called
<1>2. ASSUME CASteps \/ DeleteCA \/ (\E h \in Hosts : RemoveLeaf(h)) \/ \E l \in Leaves : LeafDue(l)
      PROVE  UNCHANGED leafLock
  BY <1>2 DEF CASteps, MakeCAKey, MakeCACert, OpenCA, RenewReadKey, RenewReadCert, RenewCA, ReplaceCAKey, ReplaceCACert, UseCA,
     CheckDelete, leavesAlone, DeleteCA, RemoveLeaf, LeafDue
<1>3. ASSUME NEW p \in Askers, FoundDue(p) \/ Forgotten(p) \/ Loaded(p) \/ IssueRefused(p) \/ CAStays(p) \/ CAPublished(p)
      PROVE  LocksType'
  <2>1. callers[p].at # "idle" /\ \E v \in {NoneYet} \cup Askers : LockOf(p, v)
    BY <1>3 DEF FoundDue, Forgotten, Loaded, IssueRefused, CAStays, CAPublished
  <2>2. callers[p].obj \in Opens /\ callers[p].host \in Hosts
    BY <1>h, <2>1, CallFacts
  <2> QED
    BY <1>h, <1>c, <2>1, <2>2 DEF LockOf, Types, LocksType
<1>4. ASSUME CACrash PROVE LocksType'
  BY <1>h, <1>c, <1>4 DEF CACrash, Types, LocksType
<1> QED
  BY <1>u, <1>1, <1>2, <1>3, <1>4, Cases DEF CallSteps

\* A new certificate has a serial that no other has.
LEMMA Fresh ==
  ASSUME Types, HeldOK, NEW p \in Askers, Issues(p)
  PROVE  LET leaf == [serial |-> Cardinality(issued) + 1, signer |-> callers[p].ca.key, host |-> callers[p].host,
                      obj |-> callers[p].obj]
         IN leaf \in Leaves /\ leaf \notin issued /\ issued' = issued \cup {leaf}
<1> DEFINE leaf == [serial |-> Cardinality(issued) + 1, signer |-> callers[p].ca.key, host |-> callers[p].host,
                    obj |-> callers[p].obj]
<1>1. Cardinality(issued) \in Nat /\ Cardinality(issued) < MaxLeaves /\ MaxLeaves \in Nat
  BY FS_CardinalityType, LocalCAAssumption DEF Types, IssuedType, Issues
<1>2. callers[p].ca.key \in 1..MaxCAKeys /\ callers[p].host \in Hosts /\ callers[p].obj \in Opens
  BY CallFacts, Nothing DEF Issues
<1>3. Cardinality(issued) + 1 \in 1..MaxLeaves
  BY <1>1
<1>4. leaf \in Leaves
  BY <1>2, <1>3 DEF Leaves
<1>5. leaf.serial = Cardinality(issued) + 1
  OBVIOUS
<1>6. leaf \notin issued
  <2>1. SUFFICES ASSUME leaf \in issued PROVE FALSE
    OBVIOUS
  <2>2. leaf.serial <= Cardinality(issued)
    BY <2>1 DEF Types, IssuedType
  <2> QED
    BY <1>1, <1>5, <2>2
<1> QED
  BY <1>4, <1>6 DEF Issues

LEMMA IssuedTypeStep ==
  ASSUME Types, HeldOK, CATableOK, LocalCANext
  PROVE  IssuedType'
<1>h. Types /\ HeldOK /\ CATableOK
  OBVIOUS
<1>c. Leaves' = Leaves
  BY DEF Opens, Leaves
<1>u. ASSUME UNCHANGED <<issued, dueLeaves, goneLeaves>> PROVE IssuedType'
  BY <1>h, <1>c, <1>u DEF Types, IssuedType
<1>1. ASSUME NEW p \in Askers,
             \/ CAQuiet(p) \/ CAKept(p) \/ FoundDue(p) \/ Forgotten(p) \/ Loaded(p) \/ NotLoaded(p) \/ IssueRefused(p)
             \/ CAStays(p) \/ Saved(p) \/ CAPublished(p) \/ \E h \in Hosts : Called(p, h)
      PROVE  UNCHANGED <<issued, dueLeaves, goneLeaves>>
  BY <1>1 DEF CAQuiet, Found, NotFound, CAAnswers, CAKept, FoundDue, Forgotten, Loaded, NotLoaded, IssueRefused, CAStays, Saved,
     CAPublished, Called, rest
<1>2. ASSUME CASteps \/ DeleteCA \/ CACrash PROVE UNCHANGED <<issued, dueLeaves, goneLeaves>>
  BY <1>2 DEF CASteps, MakeCAKey, MakeCACert, OpenCA, RenewReadKey, RenewReadCert, RenewCA, ReplaceCAKey, ReplaceCACert, UseCA,
     CheckDelete, leavesAlone, DeleteCA, CACrash
<1>3. ASSUME NEW p \in Askers, Issues(p) PROVE IssuedType'
  <2> DEFINE leaf == [serial |-> Cardinality(issued) + 1, signer |-> callers[p].ca.key, host |-> callers[p].host,
                      obj |-> callers[p].obj]
  <2>1. leaf \in Leaves /\ leaf \notin issued /\ issued' = issued \cup {leaf}
    BY <1>h, <1>3, Fresh
  <2>2. leaf.serial = Cardinality(issued) + 1
    OBVIOUS
  <2> HIDE DEF leaf
  <2>3. IsFiniteSet(issued) /\ Cardinality(issued) \in Nat
    BY <1>h, FS_CardinalityType DEF Types, IssuedType
  <2>4. IsFiniteSet(issued') /\ Cardinality(issued') = Cardinality(issued) + 1
    BY <2>1, <2>3, FS_AddElement
  <2>5. \A l \in issued : l.serial \in Nat /\ l.serial <= Cardinality(issued)
    BY <1>h, Nothing DEF Types, IssuedType
  <2>6. \A l \in issued' : l.serial <= Cardinality(issued')
    <3>1. \A l \in issued : l.serial <= Cardinality(issued')
      BY <2>3, <2>4, <2>5
    <3>2. leaf.serial <= Cardinality(issued')
      BY <2>2, <2>3, <2>4
    <3> QED
      BY <2>1, <3>1, <3>2
  <2>7. dueLeaves' = dueLeaves /\ goneLeaves' = goneLeaves
    BY <1>3 DEF Issues
  <2> QED
    BY <1>h, <1>c, <2>1, <2>4, <2>6, <2>7 DEF Types, IssuedType
<1>4. ASSUME NEW h \in Hosts, RemoveLeaf(h) PROVE IssuedType'
  <2>1. opens.now \in Opens /\ leafMem[opens.now][h] # NoneYet
    <3>1. opens.now \in 0..MaxOpens /\ opens.now # 0 /\ leafMem[opens.now][h] # NoneYet
      BY <1>h, <1>4 DEF RemoveLeaf, Types, FilesType
    <3> QED
      BY <3>1, LocalCAAssumption DEF Opens
  <2>2. leafMem[opens.now][h].leaf \in issued
    BY <1>h, <2>1 DEF CATableOK
  <2> QED
    BY <1>h, <1>c, <1>4, <2>2 DEF RemoveLeaf, Types, IssuedType
<1>5. ASSUME NEW l \in Leaves, LeafDue(l) PROVE IssuedType'
  BY <1>h, <1>c, <1>5 DEF LeafDue, Types, IssuedType
<1> QED
  BY <1>u, <1>1, <1>2, <1>3, <1>4, <1>5, Cases DEF CallSteps

LEMMA CallersTypeStep ==
  ASSUME Types, HeldOK, FilesOK, LocalCANext
  PROVE  CACallersType'
<1>h. Types /\ HeldOK /\ FilesOK
  OBVIOUS
<1>u. ASSUME UNCHANGED callers, goneLeaves \subseteq goneLeaves' PROVE CACallersType'
  BY <1>h, <1>u DEF Types, CACallersType, Call, Steps, Locked, SavingSteps, Under, Saves, Opens, CACerts, Leaves
<1>1. ASSUME CASteps \/ DeleteCA \/ (\E h \in Hosts : RemoveLeaf(h)) \/ \E l \in Leaves : LeafDue(l)
      PROVE  UNCHANGED callers /\ goneLeaves \subseteq goneLeaves'
  BY <1>1 DEF CASteps, MakeCAKey, MakeCACert, OpenCA, RenewReadKey, RenewReadCert, RenewCA, ReplaceCAKey, ReplaceCACert, UseCA,
     CheckDelete, leavesAlone, DeleteCA, RemoveLeaf, LeafDue
<1>2. ASSUME CACrash PROVE CACallersType'
  <2>1. callers' = [p \in Askers |-> NoCall] /\ goneLeaves' = goneLeaves
    BY <1>2 DEF CACrash
  <2> QED
    BY <2>1, Rests DEF CACallersType, Call, Steps, Locked, SavingSteps, Under, Saves, Opens, CACerts, Leaves
<1>3. ASSUME NEW p \in Askers, CallSteps(p) PROVE CACallersType'
  <2>1. goneLeaves' = goneLeaves /\ callers[p].at # "idle"
    BY <1>h, <1>3, CallLeaves
  <2>2. callers[p] \in Call /\ callers[p].host \in Hosts /\ callers[p].obj \in Opens /\ callers[p].ca \in CACerts
        /\ caStates[callers[p].obj] \in CACerts /\ (mem(p) # NoneYet => mem(p).leaf \in Leaves)
        /\ callers[p].gone \subseteq goneLeaves /\ callers[p].gone \in SUBSET Leaves
        /\ callers[p].cur \in {NoneYet} \cup Leaves /\ callers[p].new \in {NoneYet} \cup Leaves
        /\ (callers[p].at \in SavingSteps => callers[p].new \in Leaves)
    BY <1>h, <2>1, CallFacts DEF Types, CACallersType, Call, Saves
  <2>3. CASE callers' = [callers EXCEPT ![p] = NoCall]
    BY <1>h, <2>1, <2>3, CallSet, Rests DEF Types
  <2>4. CASE \E at \in Steps \ {"idle"}, ca \in CACerts, cur, new \in {NoneYet} \cup Leaves :
               CAGoes(p, at, ca, cur, new) /\ (at \in SavingSteps \cup {"done"} => new \in Leaves)
    <3>1. PICK at \in Steps \ {"idle"}, ca \in CACerts, cur \in {NoneYet} \cup Leaves, new \in {NoneYet} \cup Leaves :
               CAGoes(p, at, ca, cur, new) /\ (at \in SavingSteps \cup {"done"} => new \in Leaves)
      BY <2>4
    <3> DEFINE rec == Entry(callers[p], at, ca, cur, new)
    <3>2. rec \in Call /\ Under(rec) /\ Saves(rec) /\ rec.gone \subseteq goneLeaves
      BY <2>2, <3>1 DEF Entry, Call, Under, Saves
    <3>3. callers' = [callers EXCEPT ![p] = rec]
      BY <3>1 DEF CAGoes
    <3> HIDE DEF rec
    <3> QED
      BY <1>h, <2>1, <3>2, <3>3, CallSet DEF Types
  <2>s. /\ {"look", "lock", "done", "disk", "issue", "savekey", "savecert", "publish"} \subseteq Steps \ {"idle"}
        /\ SavingSteps = {"savekey", "savecert", "publish"}
    BY DEF Steps, Locked, SavingSteps
  <2>5. CASE CAQuiet(p)
    <3>1. CASE Found(p)
      BY <2>2, <2>4, <2>s, <3>1 DEF Found
    <3>2. CASE NotFound(p)
      BY <2>2, <2>4, <2>s, <3>2 DEF NotFound
    <3>3. CASE CAAnswers(p)
      BY <2>3, <3>3 DEF CAAnswers
    <3> QED
      BY <2>5, <3>1, <3>2, <3>3 DEF CAQuiet
  <2>6. CASE CAKept(p)
    BY <2>2, <2>4, <2>s, <2>6 DEF CAKept
  <2>7. CASE FoundDue(p)
    BY <2>2, <2>4, <2>s, <2>7 DEF FoundDue
  <2>8. CASE Forgotten(p)
    <3>1. CAGoes(p, "disk", caStates[callers[p].obj], NoneYet, callers[p].new)
      BY <2>8 DEF Forgotten
    <3>2. "disk" \in Steps \ {"idle"} /\ "disk" \notin SavingSteps \cup {"done"}
      BY <2>s
    <3> QED
      BY <2>2, <2>4, <3>1, <3>2, Zenon
  <2>9. CASE Loaded(p)
    <3>1. leafDisk[callers[p].host].cert \in Leaves
      BY <1>h, <2>2, <2>9 DEF Loaded, Types, DiskType
    <3> QED
      BY <2>2, <2>4, <2>s, <2>9, <3>1 DEF Loaded
  <2>10. CASE NotLoaded(p)
    BY <2>2, <2>4, <2>s, <2>10 DEF NotLoaded
  <2>11. CASE Issues(p)
    <3>1. PICK leaf \in Leaves : CAGoes(p, "savekey", callers[p].ca, callers[p].cur, leaf)
      BY <1>h, <2>11, Fresh DEF Issues
    <3> QED
      BY <2>2, <2>4, <2>s, <3>1
  <2>12. CASE IssueRefused(p)
    BY <2>3, <2>12 DEF IssueRefused
  <2>13. CASE CAStays(p)
    BY <2>2, <2>4, <2>s, <2>13 DEF CAStays
  <2>14. CASE Saved(p)
    BY <2>2, <2>4, <2>s, <2>14 DEF Saved
  <2>15. CASE CAPublished(p)
    BY <2>2, <2>4, <2>s, <2>15 DEF CAPublished
  <2> QED
    BY <1>3, <2>5, <2>6, <2>7, <2>8, <2>9, <2>10, <2>11, <2>12, <2>13, <2>14, <2>15 DEF CallSteps
<1>4. ASSUME NEW p \in Askers, NEW h \in Hosts, Called(p, h) PROVE CACallersType'
  <2> DEFINE rec == [at |-> "look", host |-> h, obj |-> opens.now, ca |-> caStates[opens.now],
                     cur |-> NoneYet, new |-> NoneYet, gone |-> goneLeaves]
  <2>1. opens.now \in Opens /\ caStates[opens.now] \in CACerts
    <3>1. opens.now \in 0..MaxOpens /\ opens.now # 0 /\ caStates[opens.now] # NoneYet
      BY <1>h, <1>4 DEF Called, Types, FilesType, FilesOK
    <3>2. opens.now \in Opens
      BY <3>1, LocalCAAssumption DEF Opens
    <3> QED
      BY <1>h, <3>1, <3>2 DEF Types, FilesType
  <2>2. goneLeaves \in SUBSET Leaves
    BY <1>h DEF Types, IssuedType
  <2>3. rec \in Call /\ Under(rec) /\ Saves(rec) /\ rec.gone \subseteq goneLeaves
    BY <2>1, <2>2 DEF Call, Under, Saves, Steps, SavingSteps, Locked
  <2>4. callers' = [callers EXCEPT ![p] = rec] /\ goneLeaves' = goneLeaves
    BY <1>4 DEF Called, rest
  <2> HIDE DEF rec
  <2> QED
    BY <1>h, <2>3, <2>4, CallSet DEF Types
<1> QED
  BY <1>u, <1>1, <1>2, <1>3, <1>4, Cases

-----------------------------------------------------------------------------
(* Keys *)

\* What is on disk and open, as numbers.
LEMMA FileFacts ==
  ASSUME FilesType
  PROVE  /\ caKeys \in Nat /\ opens.last \in Nat /\ opens.now \in Nat /\ (opens.now # 0 => opens.now \in Opens)
         /\ caFiles.key # NoneYet => caFiles.key \in 1..MaxCAKeys /\ caFiles.key \in Nat
         /\ caFiles.cert # NoneYet => caFiles.cert \in CACerts /\ caFiles.cert.key \in Nat
         /\ \A o \in Opens : caStates[o] # NoneYet => caStates[o] \in CACerts /\ caStates[o].key \in Nat
<1>1. caKeys \in 0..MaxCAKeys /\ opens.last \in 0..MaxOpens /\ opens.now \in 0..MaxOpens
  BY DEF FilesType
<1>2. caKeys \in Nat /\ opens.last \in Nat /\ opens.now \in Nat /\ (opens.now # 0 => opens.now \in Opens)
  BY <1>1, LocalCAAssumption DEF Opens
<1>3. caFiles.key # NoneYet => caFiles.key \in 1..MaxCAKeys
  BY DEF FilesType
<1>4. caFiles.cert # NoneYet => caFiles.cert \in CACerts
  BY DEF FilesType
<1>5. \A o \in Opens : caStates[o] # NoneYet => caStates[o] \in CACerts
  BY DEF FilesType
<1> QED
  BY <1>2, <1>3, <1>4, <1>5, Nothing

\* A CA is renewed with the key that was read; the disk's may be another by
\* then, and newer.
LEMMA Renewal ==
  ASSUME FilesType, FilesOK, RenewCA
  PROVE  /\ caStep.at = "fits" /\ caStep' = AtRest /\ UNCHANGED <<caKeys, opens>> /\ caFiles'.key = caFiles.key
         /\ opens.now \in Opens /\ caStep.cert \in CACerts /\ caStep.cert.key \in Nat
         /\ \/ UNCHANGED <<caFiles, caStates>>
            \/ \E cert \in CACerts : /\ cert # NoneYet /\ cert.key = caStep.cert.key
                                     /\ caFiles'.cert \in {caFiles.cert, cert}
                                     /\ caStates' = [caStates EXCEPT ![opens.now] = cert]
<1>1. caStep.at = "fits" /\ caStep' = AtRest /\ UNCHANGED <<caKeys, opens>>
  BY DEF RenewCA
<1>2. opens.now \in Opens /\ caStep.cert \in CACerts /\ caStep.cert.key \in Nat
  <2>1. opens.now # 0 /\ caStep.cert # NoneYet
    BY <1>1 DEF FilesOK
  <2>2. caStep.cert \in CACerts
    BY <2>1 DEF FilesType, CASteppings
  <2> QED
    BY <2>1, <2>2, FileFacts, Nothing
<1>3. caFiles'.key = caFiles.key
  BY DEF RenewCA, FilesType
<1>4. CASE UNCHANGED caFiles /\ caStates' = [caStates EXCEPT ![opens.now] = caStep.cert]
  BY <1>1, <1>2, <1>3, <1>4, Nothing
<1>5. CASE /\ caStep.cert.n < MaxCARenewals /\ caFiles' = [caFiles EXCEPT !.cert = renewed(caStep.cert)]
           /\ caStates' = [caStates EXCEPT ![opens.now] = renewed(caStep.cert)]
  <2>1. renewed(caStep.cert) \in CACerts /\ renewed(caStep.cert).key = caStep.cert.key
    BY <1>2, <1>5, LocalCAAssumption DEF renewed, CACerts
  <2>2. caFiles'.cert = renewed(caStep.cert)
    BY <1>5 DEF FilesType
  <2> QED
    BY <1>1, <1>2, <1>3, <1>5, <2>1, <2>2, Nothing
<1>6. CASE UNCHANGED <<caFiles, caStates>>
  BY <1>1, <1>2, <1>3, <1>6
<1> QED
  BY <1>4, <1>5, <1>6 DEF RenewCA

LEMMA FilesOKStep ==
  ASSUME Types, HeldOK, FilesOK, LocalCANext
  PROVE  FilesOK'
<1>h. FilesType /\ FilesOK /\ Types /\ HeldOK
  BY DEF Types
<1>c. Opens' = Opens
  BY DEF Opens
<1>f. /\ caKeys \in Nat /\ opens.last \in Nat /\ opens.now \in Nat /\ (opens.now # 0 => opens.now \in Opens)
      /\ caFiles.key # NoneYet => caFiles.key \in 1..MaxCAKeys /\ caFiles.key \in Nat
      /\ caFiles.cert # NoneYet => caFiles.cert \in CACerts /\ caFiles.cert.key \in Nat
      /\ \A o \in Opens : caStates[o] # NoneYet => caStates[o] \in CACerts /\ caStates[o].key \in Nat
  BY <1>h, FileFacts
<1>u. ASSUME UNCHANGED <<caFiles, caKeys, caStep, opens, caStates>> PROVE FilesOK'
  BY <1>h, <1>c, <1>u DEF FilesOK
<1>1. ASSUME NEW p \in Askers, CallSteps(p) \/ \E h \in Hosts : Called(p, h)
      PROVE  UNCHANGED <<caFiles, caKeys, caStep, opens, caStates>>
  BY <1>h, <1>1, CallLeaves DEF authority, Called
<1>2. ASSUME (\E h \in Hosts : RemoveLeaf(h)) \/ (\E l \in Leaves : LeafDue(l)) \/ UseCA
      PROVE  UNCHANGED <<caFiles, caKeys, caStep, opens, caStates>>
  BY <1>2 DEF RemoveLeaf, LeafDue, UseCA, authority
<1>3. ASSUME MakeCAKey PROVE FilesOK'
  <2>1. /\ opens.now = 0 /\ caFiles.key = NoneYet /\ caKeys' = caKeys + 1
        /\ caFiles'.key = caKeys + 1 /\ caFiles'.cert = caFiles.cert
        /\ caStep'.at = "made" /\ caStep'.key = caKeys + 1 /\ UNCHANGED <<opens, caStates>>
    BY <1>h, <1>3 DEF MakeCAKey, FilesType
  <2>2. caFiles.cert = NoneYet /\ caKeys + 1 \in Nat /\ caKeys + 1 # NoneYet
    BY <1>h, <1>f, <2>1, Nothing DEF FilesOK
  <2> QED
    BY <1>h, <1>c, <1>f, <2>1, <2>2 DEF FilesOK
<1>4. ASSUME MakeCACert PROVE FilesOK'
  <2>1. /\ caStep.at = "made" /\ caStep'.at = "free" /\ UNCHANGED <<caKeys, opens, caStates>>
        /\ caFiles'.key = caFiles.key
        /\ caFiles'.cert = caFiles.cert \/ (caFiles'.cert # NoneYet /\ caFiles'.cert.key = caStep.key)
    <3>1. CASE UNCHANGED caFiles
      BY <1>4, <3>1 DEF MakeCACert, AtRest
    <3>2. CASE caFiles' = [caFiles EXCEPT !.cert = [key |-> caStep.key, n |-> 0]]
      <4>1. caFiles'.cert = [key |-> caStep.key, n |-> 0] /\ caFiles'.key = caFiles.key
        BY <1>h, <3>2 DEF FilesType
      <4>2. caStep.at = "made"
        BY <1>4 DEF MakeCACert
      <4>3. caStep.key \in Nat /\ [key |-> caStep.key, n |-> 0] \in CACerts
        <5>1. caStep.key = caFiles.key /\ caFiles.key # NoneYet
          BY <1>h, <4>2 DEF FilesOK
        <5>2. caStep.key \in 1..MaxCAKeys /\ 0 \in 0..MaxCARenewals
          BY <1>f, <5>1, LocalCAAssumption
        <5> QED
          BY <5>2 DEF CACerts
      <4> QED
        BY <1>4, <4>1, <4>2, <4>3, Nothing DEF MakeCACert, AtRest
    <3> QED
      BY <1>4, <3>1, <3>2 DEF MakeCACert
  <2> QED
    BY <1>h, <1>c, <1>f, <2>1 DEF FilesOK
<1>5. ASSUME OpenCA PROVE FilesOK'
  <2>1. /\ opens.now = 0 /\ caStep.at = "free" /\ caFiles.cert # NoneYet /\ opens.last + 1 \in Opens
        /\ opens'.last = opens.last + 1 /\ opens'.now = opens.last + 1
        /\ caStates' = [caStates EXCEPT ![opens.last + 1] = caFiles.cert]
        /\ UNCHANGED <<caFiles, caKeys, caStep>>
    <3>1. opens.last < MaxOpens
      BY <1>5 DEF OpenCA
    <3>2. opens.last + 1 \in Opens
      BY <1>f, <3>1, LocalCAAssumption DEF Opens
    <3> QED
      BY <1>5, <3>2 DEF OpenCA, AtRest, caFits
  <2>2. caStates'[opens.last + 1] = caFiles.cert
        /\ \A o \in Opens : o # opens.last + 1 => caStates'[o] = caStates[o]
    BY <1>h, <2>1 DEF FilesType
  <2>3. caFiles.cert.key <= caKeys
    BY <1>h, <1>f, <2>1 DEF FilesOK
  <2>4. \A o \in Opens : caStates'[o] # NoneYet => caStates'[o].key <= caKeys
    BY <1>h, <2>2, <2>3 DEF FilesOK
  <2>5. caStates'[opens'.now] = caFiles.cert /\ opens'.now <= opens'.last /\ caStep'.at # "made"
    BY <1>f, <2>1, <2>2
  <2> QED
    BY <1>h, <1>c, <1>f, <2>1, <2>4, <2>5 DEF FilesOK
<1>6. ASSUME RenewReadKey \/ CheckDelete PROVE FilesOK'
  <2>1. /\ UNCHANGED <<caFiles, caKeys, opens, caStates>>
        /\ caStep'.at \notin {"made", "fits"} /\ (caStep'.at = "read" => opens.now # 0)
    BY <1>6 DEF RenewReadKey, CheckDelete, AtRest
  <2> QED
    BY <1>h, <1>c, <2>1 DEF FilesOK
<1>6a. ASSUME RenewReadCert PROVE FilesOK'
  <2>1. UNCHANGED <<caFiles, caKeys, opens, caStates>> /\ caStep.at = "read"
    BY <1>6a DEF RenewReadCert
  <2>2. opens.now # 0 /\ caStates[opens.now].key <= caFiles.cert.key /\ opens.now \in Opens
    BY <1>h, <1>f, <2>1 DEF FilesOK
  <2>3. CASE caFits(caStep.key, caFiles.cert)
    <3>1. caStep'.at = "fits" /\ caStep'.cert = caFiles.cert /\ caFiles.cert # NoneYet
      BY <1>h, <1>6a, <2>3 DEF RenewReadCert, caFits, FilesType, CASteppings
    <3> QED
      BY <1>h, <1>c, <1>f, <2>1, <2>2, <3>1 DEF FilesOK
  <2>4. CASE ~caFits(caStep.key, caFiles.cert)
    <3>1. caStep'.at = "free"
      BY <1>6a, <2>4 DEF RenewReadCert, AtRest
    <3> QED
      BY <1>h, <1>c, <2>1, <3>1 DEF FilesOK
  <2> QED
    BY <2>3, <2>4
<1>7. ASSUME RenewCA PROVE FilesOK'
  <2>1. caStep'.at = "free"
    BY <1>7 DEF RenewCA, AtRest
  <2>2. /\ UNCHANGED <<caKeys, opens>> /\ caFiles'.key = caFiles.key /\ caStep.at = "fits"
        /\ opens.now \in Opens /\ caStep.cert.key \in Nat
    BY <1>h, <1>7, Renewal
  <2>3. CASE UNCHANGED <<caFiles, caStates>>
    BY <1>h, <1>c, <2>1, <2>2, <2>3 DEF FilesOK
  <2>4. CASE \E cert \in CACerts : /\ cert # NoneYet /\ cert.key = caStep.cert.key
                                   /\ caFiles'.cert \in {caFiles.cert, cert}
                                   /\ caStates' = [caStates EXCEPT ![opens.now] = cert]
    <3>0. PICK cert \in CACerts : /\ cert # NoneYet /\ cert.key = caStep.cert.key
                                  /\ caFiles'.cert \in {caFiles.cert, cert}
                                  /\ caStates' = [caStates EXCEPT ![opens.now] = cert]
      BY <2>4
    <3>1. caStates'[opens.now] = cert /\ \A o \in Opens : o # opens.now => caStates'[o] = caStates[o]
      BY <1>h, <2>2, <3>0 DEF FilesType
    <3>2. /\ opens.now # 0 /\ caFiles.cert # NoneYet /\ caFiles.key # NoneYet /\ cert.key <= caFiles.cert.key
          /\ caFiles.cert.key <= caFiles.key /\ caFiles.key <= caKeys
      BY <1>h, <1>f, <2>2, <3>0 DEF FilesOK
    <3>3. cert.key <= caFiles.key /\ cert.key <= caKeys
      BY <1>f, <2>2, <3>0, <3>2
    <3>4. /\ caFiles'.cert # NoneYet /\ caFiles'.cert.key <= caFiles.key /\ cert.key <= caFiles'.cert.key
      BY <1>f, <2>2, <3>0, <3>2, <3>3
    <3>5. \A o \in Opens : caStates'[o] # NoneYet => caStates'[o].key <= caKeys'
      BY <1>h, <2>2, <3>1, <3>3 DEF FilesOK
    <3> QED
      BY <1>h, <1>c, <1>f, <2>1, <2>2, <3>0, <3>1, <3>2, <3>4, <3>5 DEF FilesOK
  <2> QED
    BY <1>h, <1>7, <2>3, <2>4, Renewal
<1>8. ASSUME ReplaceCAKey PROVE FilesOK'
  <2>1. /\ opens.now # 0 /\ caKeys' = caKeys + 1 /\ caFiles'.key = caKeys + 1 /\ caFiles'.cert = caFiles.cert
        /\ UNCHANGED <<caStep, opens, caStates>>
    BY <1>h, <1>8 DEF ReplaceCAKey, FilesType
  <2>2. caKeys + 1 # NoneYet
    BY <1>f, Nothing
  <2>3. \A o \in Opens : caStates[o] # NoneYet => caStates[o].key <= caKeys + 1
    BY <1>h, <1>f DEF FilesOK
  <2>4. caFiles.cert # NoneYet => caFiles.cert.key <= caKeys + 1
    BY <1>h, <1>f DEF FilesOK
  <2> QED
    BY <1>h, <1>c, <1>f, <2>1, <2>2, <2>3, <2>4 DEF FilesOK
<1>9. ASSUME ReplaceCACert PROVE FilesOK'
  <2>1. /\ caFiles.key # NoneYet /\ caFiles.cert # NoneYet /\ caFiles'.key = caFiles.key
        /\ caFiles'.cert = [key |-> caFiles.key, n |-> 0] /\ UNCHANGED <<caKeys, caStep, opens, caStates>>
    BY <1>h, <1>9 DEF ReplaceCACert, FilesType
  <2>2. caFiles'.cert.key = caFiles.key /\ caFiles'.cert # NoneYet
    <3>1. [key |-> caFiles.key, n |-> 0] \in CACerts
      <4>1. caFiles.key \in 1..MaxCAKeys /\ 0 \in 0..MaxCARenewals
        BY <1>f, <2>1, LocalCAAssumption
      <4> QED
        BY <4>1 DEF CACerts
    <3> QED
      BY <2>1, <3>1, Nothing
  <2>3. caFiles.cert.key <= caFiles.key
    BY <1>h, <2>1 DEF FilesOK
  <2>4. opens.now # 0 => caStates[opens.now] # NoneYet /\ caStates[opens.now].key <= caFiles.key
    BY <1>h, <1>f, <2>1, <2>3 DEF FilesOK
  <2>5. caStep.at = "fits" => caStep.cert.key <= caFiles.key
    <3>1. SUFFICES ASSUME caStep.at = "fits" PROVE caStep.cert.key <= caFiles.key
      OBVIOUS
    <3>2. caStep.cert # NoneYet /\ caStep.cert.key <= caFiles.cert.key
      BY <1>h, <3>1 DEF FilesOK
    <3>3. caStep.cert.key \in Nat
      BY <1>h, <3>2, Nothing DEF FilesType, CASteppings
    <3> QED
      BY <1>f, <2>1, <2>3, <3>2, <3>3
  <2> QED
    BY <1>h, <1>c, <1>f, <2>1, <2>2, <2>4, <2>5 DEF FilesOK
<1>10. ASSUME DeleteCA PROVE FilesOK'
  <2>1. caStep'.at = "free" /\ caFiles'.key = NoneYet /\ caFiles'.cert = NoneYet /\ opens'.now = 0
        /\ opens'.last = opens.last /\ UNCHANGED <<caKeys, caStates>>
    BY <1>h, <1>10 DEF DeleteCA, AtRest, NoFolder, FilesType
  <2> QED
    BY <1>h, <1>c, <1>f, <2>1 DEF FilesOK
<1>11. ASSUME CACrash PROVE FilesOK'
  <2>1. caStep'.at = "free" /\ opens'.now = 0 /\ opens'.last = opens.last /\ UNCHANGED <<caFiles, caKeys, caStates>>
    BY <1>h, <1>11 DEF CACrash, AtRest, FilesType
  <2> QED
    BY <1>h, <1>c, <1>f, <2>1 DEF FilesOK
<1> QED
  BY <1>h, <1>u, <1>1, <1>2, <1>3, <1>4, <1>5, <1>6, <1>6a, <1>7, <1>8, <1>9, <1>10, <1>11, Cases DEF CASteps

\* Who uses an open CA after a step of a call used it before.
LEMMA HeldBefore ==
  ASSUME Types, HeldOK, NEW p \in Askers, CallSteps(p), NEW o \in Opens
  PROVE  /\ Held(o)' => Held(o)
         /\ \A q \in Askers : Asks(q, o)' => Asks(q, o)
<1>1. \A q \in Askers : Asks(q, o)' => Asks(q, o)
  <2> TAKE q \in Askers
  <2>1. CASE q = p
    BY <2>1, CallLeaves DEF Asks
  <2>2. CASE q # p
    BY <2>2, CallLeaves DEF Asks
  <2> QED
    BY <2>1, <2>2
<1>2. ASSUME NEW h \in Hosts, leafMem'[o][h] # NoneYet PROVE Held(o)
  <2>1. CASE o = callers[p].obj /\ h = callers[p].host
    BY <2>1, CallLeaves DEF Held, Asks
  <2>2. CASE ~(o = callers[p].obj /\ h = callers[p].host)
    BY <1>2, <2>2, CallLeaves DEF Held
  <2> QED
    BY <2>1, <2>2
<1> QED
  BY <1>1, <1>2 DEF Held

LEMMA CalledHeld ==
  ASSUME Types, FilesOK, NEW p \in Askers, NEW h \in Hosts, Called(p, h), NEW o \in Opens
  PROVE  /\ opens.now \in Opens /\ UNCHANGED <<authority, leafMem>>
         /\ \A q \in Askers : Asks(q, o)' => Asks(q, o) \/ (q = p /\ o = opens.now /\ callers'[q].ca = caStates[o])
         /\ Held(o)' => Held(o) \/ o = opens.now
<1>1. opens.now \in Opens /\ UNCHANGED <<authority, leafMem>>
  BY FileFacts DEF Called, Types
<1>2. \A q \in Askers : Asks(q, o)' => Asks(q, o) \/ (q = p /\ o = opens.now /\ callers'[q].ca = caStates[o])
  <2> TAKE q \in Askers
  <2>1. CASE q = p
    BY <2>1, CalledOne DEF Asks
  <2>2. CASE q # p
    BY <2>2, CalledOne DEF Asks
  <2> QED
    BY <2>1, <2>2
<1> QED
  BY <1>1, <1>2 DEF Held

LEMMA Unused ==
  ASSUME CACrash, NEW o \in Opens
  PROVE  ~Held(o)' /\ \A p \in Askers : ~Asks(p, o)'
<1>1. \A h \in Hosts : leafMem'[o][h] = NoneYet
  BY DEF CACrash
<1>2. \A p \in Askers : callers'[p].at = "idle"
  BY Rests DEF CACrash
<1> QED
  BY <1>1, <1>2 DEF Held, Asks

\* The keys of a CA in use only get newer.
LEMMA CANewer ==
  ASSUME Types, FilesOK, HeldOK, CASteps \/ DeleteCA
  PROVE  /\ UNCHANGED <<leafMem, callers>> /\ opens.last \in Nat /\ opens'.last \in Nat /\ opens.last <= opens'.last
         /\ \A o \in Opens : Held(o) \/ (o <= opens.last /\ caStates[o] # NoneYet) =>
              /\ caStates[o].key \in Nat /\ caStates'[o] # NoneYet /\ caStates'[o].key \in Nat
              /\ caStates[o].key <= caStates'[o].key
              /\ o # opens.now => caStates'[o] = caStates[o]
<1>1. UNCHANGED <<leafMem, callers>>
  BY DEF CASteps, MakeCAKey, MakeCACert, OpenCA, RenewReadKey, RenewReadCert, RenewCA, ReplaceCAKey, ReplaceCACert, UseCA,
     CheckDelete, leavesAlone, DeleteCA
<1>f. /\ opens.last \in Nat /\ opens.now \in Nat /\ (opens.now # 0 => opens.now \in Opens)
      /\ caFiles.cert # NoneYet => caFiles.cert \in CACerts /\ caFiles.cert.key \in Nat
      /\ \A o \in Opens : caStates[o] # NoneYet => caStates[o] \in CACerts /\ caStates[o].key \in Nat
  BY FileFacts DEF Types
<1> DEFINE used(o) == Held(o) \/ (o <= opens.last /\ caStates[o] # NoneYet)
<1>g. \A o \in Opens : used(o) => caStates[o] # NoneYet /\ o <= opens.last /\ o \in Nat
  BY Nothing DEF HeldOK
<1>2. CASE UNCHANGED <<opens, caStates>>
  BY <1>1, <1>2, <1>f, <1>g
<1>3. CASE OpenCA
  <2>1. opens'.last = opens.last + 1 /\ caStates' = [caStates EXCEPT ![opens.last + 1] = caFiles.cert]
    BY <1>3 DEF OpenCA
  <2>2. \A o \in Opens : used(o) => o # opens.last + 1
    BY <1>f, <1>g
  <2>3. \A o \in Opens : used(o) => caStates'[o] = caStates[o]
    BY <2>1, <2>2 DEF Types, FilesType
  <2> QED
    BY <1>1, <1>f, <1>g, <2>1, <2>3
<1>4. CASE RenewCA
  <2>1. opens' = opens /\ opens.now \in Opens /\ caStep.at = "fits" /\ caStep.cert.key \in Nat
    BY <1>4, Renewal DEF Types
  <2>2. CASE caStates' = caStates
    BY <1>1, <1>2, <2>1, <2>2
  <2>3. CASE ~(caStates' = caStates)
    <3>0. PICK cert \in CACerts : /\ cert # NoneYet /\ cert.key = caStep.cert.key
                                  /\ caStates' = [caStates EXCEPT ![opens.now] = cert]
      BY <1>4, <2>3, Renewal DEF Types
    <3>1. caStates'[opens.now] = cert /\ \A o \in Opens : o # opens.now => caStates'[o] = caStates[o]
      BY <2>1, <3>0 DEF Types, FilesType
    <3>2. caStates[opens.now].key <= cert.key /\ cert.key \in Nat
      BY <2>1, <3>0 DEF FilesOK
    <3> QED
      BY <1>1, <1>f, <1>g, <2>1, <3>0, <3>1, <3>2
  <2> QED
    BY <2>2, <2>3
<1>5. CASE DeleteCA
  <2>1. opens'.last = opens.last /\ caStates' = caStates
    BY <1>5 DEF DeleteCA, Types, FilesType
  <2> QED
    BY <1>1, <1>f, <1>g, <2>1
<1>6. ASSUME MakeCAKey \/ MakeCACert \/ RenewReadKey \/ RenewReadCert \/ ReplaceCAKey \/ ReplaceCACert \/ UseCA \/ CheckDelete
      PROVE  UNCHANGED <<opens, caStates>>
  BY <1>6 DEF MakeCAKey, MakeCACert, RenewReadKey, RenewReadCert, ReplaceCAKey, ReplaceCACert, UseCA, CheckDelete
<1> QED
  BY <1>2, <1>3, <1>4, <1>5, <1>6 DEF CASteps

\* What a call changes in the table is nothing, or what its step is about.
LEMMA Puts ==
  ASSUME Types, HeldOK, NEW p \in Askers, CallSteps(p), NEW o \in Opens, NEW h \in Hosts
  PROVE  \/ leafMem'[o][h] = leafMem[o][h]
         \/ /\ o = callers[p].obj /\ h = callers[p].host /\ mem(p) = leafMem[o][h]
            /\ \/ (CAKept(p) \/ FoundDue(p)) /\ leafMem'[o][h] = [leaf |-> mem(p).leaf, ca |-> caStates[o]]
               \/ Forgotten(p) /\ leafMem'[o][h] = NoneYet
               \/ Loaded(p) /\ leafMem'[o][h] = [leaf |-> leafDisk[h].cert, ca |-> callers[p].ca]
               \/ CAPublished(p) /\ leafMem'[o][h] = [leaf |-> callers[p].new, ca |-> callers[p].ca]
<1>1. CASE ~(o = callers[p].obj /\ h = callers[p].host)
  BY <1>1, CallLeaves
<1>2. CASE o = callers[p].obj /\ h = callers[p].host
  <2>0. callers[p].at # "idle" /\ mem(p) = leafMem[o][h]
    BY <1>2, CallLeaves DEF mem
  <2>1. CASE leafMem' = leafMem
    BY <2>1
  <2>2. ASSUME NEW v, TablePut(p, v) PROVE leafMem'[o][h] = v
    BY <1>2, <2>0, <2>2, PutOne
  <2>3. CASE CAKept(p) \/ FoundDue(p)
    BY <1>2, <2>0, <2>2, <2>3 DEF CAKept, FoundDue
  <2>4. CASE Forgotten(p)
    BY <1>2, <2>0, <2>2, <2>4 DEF Forgotten
  <2>5. CASE Loaded(p)
    BY <1>2, <2>0, <2>2, <2>5 DEF Loaded
  <2>6. CASE CAPublished(p)
    BY <1>2, <2>0, <2>2, <2>6 DEF CAPublished
  <2> QED
    BY <2>1, <2>3, <2>4, <2>5, <2>6 DEF CallSteps, CAQuiet, Found, NotFound, CAAnswers, NotLoaded, Issues, IssueRefused,
       CAStays, Saved
<1> QED
  BY <1>1, <1>2

\* What a call leaves in the table was there, or is of the key the call was checked against.
LEMMA PutsKey ==
  ASSUME Types, HeldOK, HoldsOK, NEW p \in Askers, CallSteps(p), NEW o \in Opens, NEW h \in Hosts,
         leafMem'[o][h] # NoneYet
  PROVE  \/ leafMem[o][h] # NoneYet /\ leafMem'[o][h].leaf = leafMem[o][h].leaf
         \/ /\ o = callers[p].obj /\ h = callers[p].host
            /\ leafMem'[o][h].leaf.signer = callers[p].ca.key
<1> DEFINE present == leafMem'[o][h]
<1>0. \/ present = leafMem[o][h]
      \/ /\ o = callers[p].obj /\ h = callers[p].host /\ mem(p) = leafMem[o][h]
         /\ \/ (CAKept(p) \/ FoundDue(p)) /\ present = [leaf |-> mem(p).leaf, ca |-> caStates[o]]
            \/ Forgotten(p) /\ present = NoneYet
            \/ Loaded(p) /\ present = [leaf |-> leafDisk[h].cert, ca |-> callers[p].ca]
            \/ CAPublished(p) /\ present = [leaf |-> callers[p].new, ca |-> callers[p].ca]
  BY Puts
<1> HIDE DEF present
<1>1. ASSUME (CAKept(p) \/ FoundDue(p)) /\ present = [leaf |-> mem(p).leaf, ca |-> caStates[o]]
      PROVE  mem(p) # NoneYet /\ present.leaf = mem(p).leaf
  BY <1>1 DEF CAKept, FoundDue
<1>2. ASSUME Loaded(p) /\ h = callers[p].host /\ present = [leaf |-> leafDisk[h].cert, ca |-> callers[p].ca]
      PROVE  present.leaf.signer = callers[p].ca.key
  BY <1>2 DEF Loaded
<1>3. ASSUME CAPublished(p) /\ present = [leaf |-> callers[p].new, ca |-> callers[p].ca]
      PROVE  present.leaf.signer = callers[p].ca.key
  BY <1>3 DEF CAPublished, HoldsOK, SavingSteps
<1>4. present # NoneYet
  BY DEF present
<1> QED
  BY <1>0, <1>1, <1>2, <1>3, <1>4 DEF present

\* The console only takes certificates out of the table.
LEMMA Removes ==
  ASSUME Types, (\E h \in Hosts : RemoveLeaf(h)) \/ (\E l \in Leaves : LeafDue(l))
  PROVE  \A o \in Opens, h \in Hosts : leafMem'[o][h] # NoneYet => leafMem'[o][h] = leafMem[o][h]
<1>1. CASE \E h \in Hosts : RemoveLeaf(h)
  <2>1. PICK h \in Hosts : RemoveLeaf(h)
    BY <1>1
  <2>2. opens.now \in Opens
    BY <2>1, FileFacts DEF RemoveLeaf, Types
  <2> QED
    BY <2>1, <2>2 DEF RemoveLeaf, Types, MemType
<1>2. CASE \E l \in Leaves : LeafDue(l)
  BY <1>2 DEF LeafDue
<1> QED
  BY <1>1, <1>2

LEMMA HeldStep ==
  ASSUME Types, FilesOK, HeldOK, HoldsOK, LocalCANext
  PROVE  HeldOK'
<1>h. Types /\ FilesOK /\ HeldOK /\ HoldsOK
  OBVIOUS
<1>c. Opens' = Opens
  BY DEF Opens
<1>1. ASSUME NEW p \in Askers, CallSteps(p) PROVE HeldOK'
  <2> SUFFICES ASSUME NEW o \in Opens, Held(o)'
               PROVE  /\ o <= opens.last /\ caStates[o] # NoneYet
                      /\ \A h \in Hosts : leafMem'[o][h] # NoneYet => leafMem'[o][h].leaf.signer <= caStates[o].key
                      /\ \A q \in Askers : Asks(q, o)' => callers'[q].ca.key <= caStates[o].key
    <3>1. UNCHANGED <<opens, caStates>>
      BY <1>h, <1>1, CallLeaves DEF authority
    <3> QED
      BY <1>c, <3>1 DEF HeldOK
  <2>1. /\ Held(o) /\ o <= opens.last /\ caStates[o] # NoneYet
        /\ \A h \in Hosts : leafMem[o][h] # NoneYet => leafMem[o][h].leaf.signer <= caStates[o].key
        /\ \A q \in Askers : Asks(q, o) => callers[q].ca.key <= caStates[o].key
    BY <1>h, <1>1, HeldBefore DEF HeldOK
  <2>2. caStates[o].key \in Nat
    BY <1>h, <2>1, FileFacts DEF Types
  <2>3. ASSUME NEW q \in Askers, Asks(q, o)' PROVE callers'[q].ca.key <= caStates[o].key
    <3>1. CASE q # p
      BY <1>h, <1>1, <2>1, <2>3, <3>1, CallLeaves DEF Asks
    <3>2. CASE q = p
      <4>1. Asks(p, o) /\ callers'[p].ca \in {callers[p].ca, caStates[o]}
        BY <1>h, <1>1, <2>3, <3>2, CallLeaves DEF Asks
      <4>2. caStates[o].key <= caStates[o].key
        BY <2>2
      <4> QED
        BY <2>1, <3>2, <4>1, <4>2
    <3> QED
      BY <3>1, <3>2
  <2>4. ASSUME NEW h \in Hosts, leafMem'[o][h] # NoneYet PROVE leafMem'[o][h].leaf.signer <= caStates[o].key
    <3>1. callers[p].obj = o => callers[p].ca.key <= caStates[o].key
      BY <1>h, <1>1, <2>1, CallLeaves DEF Asks
    <3> QED
      BY <1>h, <1>1, <2>1, <2>4, <3>1, PutsKey
  <2> QED
    BY <2>1, <2>3, <2>4
<1>2. ASSUME NEW p \in Askers, NEW h \in Hosts, Called(p, h) PROVE HeldOK'
  <2> SUFFICES ASSUME NEW o \in Opens, Held(o)'
               PROVE  /\ o <= opens.last /\ caStates[o] # NoneYet
                      /\ \A h_ \in Hosts : leafMem[o][h_] # NoneYet => leafMem[o][h_].leaf.signer <= caStates[o].key
                      /\ \A q \in Askers : Asks(q, o)' => callers'[q].ca.key <= caStates[o].key
    <3>1. UNCHANGED <<opens, caStates, leafMem>>
      BY <1>h, <1>2, CalledHeld DEF authority, Called
    <3> QED
      BY <1>c, <3>1 DEF HeldOK
  <2>1. opens.now \in Opens /\ opens.now <= opens.last /\ caStates[opens.now] # NoneYet
    BY <1>h, <1>2, CalledHeld, Nothing DEF FilesOK
  <2>2. o <= opens.last /\ caStates[o] # NoneYet /\ caStates[o].key \in Nat
    BY <1>h, <1>2, <2>1, CalledHeld, FileFacts DEF HeldOK, Types
  <2>3. \A h_ \in Hosts : leafMem[o][h_] # NoneYet => leafMem[o][h_].leaf.signer <= caStates[o].key
    BY <1>h DEF HeldOK, Held
  <2>4. ASSUME NEW q \in Askers, Asks(q, o)' PROVE callers'[q].ca.key <= caStates[o].key
    <3>1. CASE Asks(q, o)
      <4>1. q # p
        BY <1>2, <3>1 DEF Called, Asks
      <4> QED
        BY <1>h, <1>2, <3>1, <4>1, CalledOne DEF HeldOK, Held
    <3>2. CASE ~Asks(q, o)
      BY <1>h, <1>2, <2>2, <2>4, <3>2, CalledHeld
    <3> QED
      BY <3>1, <3>2
  <2> QED
    BY <2>2, <2>3, <2>4
<1>3. ASSUME CASteps \/ DeleteCA PROVE HeldOK'
  <2> SUFFICES ASSUME NEW o \in Opens, Held(o)
               PROVE  /\ o <= opens'.last /\ caStates'[o] # NoneYet
                      /\ \A h \in Hosts : leafMem[o][h] # NoneYet => leafMem[o][h].leaf.signer <= caStates'[o].key
                      /\ \A q \in Askers : Asks(q, o) => callers[q].ca.key <= caStates'[o].key
    <3>1. UNCHANGED <<leafMem, callers>>
      BY <1>h, <1>3, CANewer
    <3> QED
      BY <1>c, <3>1 DEF HeldOK, Held, Asks
  <2>1. /\ o \in Nat /\ opens.last \in Nat /\ opens'.last \in Nat /\ opens.last <= opens'.last
        /\ caStates[o].key \in Nat /\ caStates'[o] # NoneYet /\ caStates'[o].key \in Nat
        /\ caStates[o].key <= caStates'[o].key
    BY <1>h, <1>3, CANewer, Nothing
  <2>2. \A h \in Hosts : leafMem[o][h] # NoneYet => leafMem[o][h].leaf.signer \in Nat
    BY <1>h, Nothing DEF Types, MemType
  <2>3. \A q \in Askers : Asks(q, o) => callers[q].ca.key \in Nat
    BY <1>h, Nothing DEF Types, CACallersType, Under, Asks
  <2> QED
    BY <1>h, <2>1, <2>2, <2>3 DEF HeldOK
<1>4. ASSUME CACrash PROVE HeldOK'
  BY <1>c, <1>4, Unused DEF HeldOK
<1>5. ASSUME (\E h \in Hosts : RemoveLeaf(h)) \/ (\E l \in Leaves : LeafDue(l)) PROVE HeldOK'
  <2>1. UNCHANGED <<opens, caStates, callers>>
    BY <1>5 DEF RemoveLeaf, LeafDue, authority
  <2>2. \A o \in Opens, h \in Hosts : leafMem'[o][h] # NoneYet => leafMem'[o][h] = leafMem[o][h]
    BY <1>h, <1>5, Removes
  <2>3. \A o \in Opens : Held(o)' => Held(o)
    BY <2>1, <2>2 DEF Held, Asks
  <2>4. \A o \in Opens, q \in Askers : Asks(q, o)' => Asks(q, o)
    BY <2>1 DEF Asks
  <2> QED
    BY <1>h, <1>c, <2>1, <2>2, <2>3, <2>4 DEF HeldOK
<1> QED
  BY <1>h, <1>1, <1>2, <1>3, <1>4, <1>5, Cases

LEMMA DeadStep ==
  ASSUME Types, FilesOK, HeldOK, DeadOK, HoldsOK, LocalCANext
  PROVE  DeadOK'
<1>h. Types /\ FilesOK /\ HeldOK /\ DeadOK /\ HoldsOK
  OBVIOUS
<1>c. Opens' = Opens
  BY DEF Opens
<1>f. FilesType
  BY DEF Types
<1>1. ASSUME NEW p \in Askers, CallSteps(p) PROVE DeadOK'
  <2>0. UNCHANGED <<opens, caStates, caFiles, caStep>>
    BY <1>h, <1>1, CallLeaves DEF authority
  <2>1. SUFFICES ASSUME NEW o \in Opens, o # opens.now, Held(o)' PROVE Older(o)'
    BY <1>c, <2>0 DEF DeadOK
  <2>2. Older(o)
    BY <1>h, <1>1, <2>1, HeldBefore DEF DeadOK
  <2>3. ASSUME opens.now # 0, NEW h \in Hosts, leafMem'[opens.now][h] # NoneYet
        PROVE  caStates[o].key < leafMem'[opens.now][h].leaf.signer
    <3>1. opens.now \in Opens
      BY <1>f, <2>3, FileFacts
    <3>2. callers[p].at # "idle"
      BY <1>h, <1>1, CallLeaves
    <3> QED
      BY <1>h, <1>1, <2>2, <2>3, <3>1, <3>2, PutsKey DEF Older, Asks
  <2>4. ASSUME NEW q \in Askers, Asks(q, opens.now)' PROVE caStates[o].key < callers'[q].ca.key
    <3>0. callers'[q].at # "idle" /\ callers'[q].obj = opens.now
      BY <2>0, <2>4 DEF Asks
    <3>1. CASE q # p
      BY <1>h, <1>1, <2>2, <3>0, <3>1, CallLeaves DEF Older, Asks
    <3>2. CASE q = p
      <4>1. Asks(p, opens.now) /\ callers'[p].ca \in {callers[p].ca, caStates[opens.now]}
        BY <1>h, <1>1, <3>0, <3>2, CallLeaves DEF Asks
      <4>2. opens.now # 0
        BY <1>h, <4>1, CallFacts, Nothing DEF Asks
      <4> QED
        BY <2>2, <3>2, <4>1, <4>2 DEF Older
    <3> QED
      BY <3>1, <3>2
  <2> QED
    BY <2>0, <2>2, <2>3, <2>4 DEF Older, Asks
<1>2. ASSUME NEW p \in Askers, NEW h \in Hosts, Called(p, h) PROVE DeadOK'
  <2>0. opens.now \in Opens /\ UNCHANGED <<opens, caStates, caFiles, caStep, leafMem>>
    BY <1>f, <1>2, FileFacts DEF Called, authority
  <2>1. SUFFICES ASSUME NEW o \in Opens, o # opens.now, Held(o)' PROVE Older(o)'
    BY <1>c, <2>0 DEF DeadOK
  <2>2. Older(o)
    BY <1>h, <1>2, <2>1, CalledHeld DEF DeadOK
  <2>3. ASSUME NEW q \in Askers, Asks(q, opens.now)' PROVE caStates[o].key < callers'[q].ca.key
    <3>1. CASE q = p
      BY <1>h, <1>2, <2>0, <2>2, <3>1, CalledOne, Nothing DEF Older
    <3>2. CASE q # p
      BY <1>h, <1>2, <2>0, <2>2, <2>3, <3>2, CalledOne DEF Older, Asks
    <3> QED
      BY <3>1, <3>2
  <2> QED
    BY <2>0, <2>2, <2>3 DEF Older, Asks
<1>3. ASSUME CASteps \/ DeleteCA PROVE DeadOK'
  <2>0. UNCHANGED <<leafMem, callers>>
    BY <1>h, <1>3, CANewer
  <2>1. SUFFICES ASSUME NEW o \in Opens, o # opens'.now, Held(o) PROVE Older(o)'
    BY <1>c, <2>0 DEF DeadOK, Held, Asks
  <2>2. caStates[o] # NoneYet /\ caStates[o].key \in Nat /\ caStates[o].key <= caKeys /\ caKeys \in Nat
    BY <1>h, <1>f, <2>1, FileFacts DEF HeldOK, FilesOK
  <2>3. CASE DeleteCA
    <3>1. caFiles'.key = NoneYet /\ caFiles'.cert = NoneYet /\ opens'.now = 0 /\ caStep'.at # "fits"
      BY <1>f, <2>3 DEF DeleteCA, AtRest, NoFolder, FilesType
    <3>2. \A p \in Askers : ~Asks(p, opens.now)'
      <4>1. \A p \in Askers : callers[p].at # "idle" => callers[p].obj # 0
        BY <1>h, CallFacts, Nothing
      <4> QED
        BY <2>0, <3>1, <4>1 DEF Asks
    <3> QED
      BY <3>1, <3>2 DEF Older, Asks
  <2>4. CASE OpenCA
    <3>1. /\ opens.now = 0 /\ opens'.now = opens.last + 1 /\ caFiles.cert # NoneYet /\ caFiles' = caFiles
          /\ caStates' = [caStates EXCEPT ![opens.last + 1] = caFiles.cert] /\ opens.last < MaxOpens
          /\ caStep'.at # "fits"
      BY <2>4 DEF OpenCA, AtRest, caFits
    <3>2. opens.last + 1 \in Opens /\ ~(opens.last + 1 <= opens.last)
      BY <1>f, <3>1, FileFacts, LocalCAAssumption DEF Opens
    <3>3. ~Held(opens.last + 1)
      BY <1>h, <3>2 DEF HeldOK
    <3>4. Older(o)
      <4>1. o # 0
        BY <2>1, Nothing
      <4> QED
        BY <1>h, <2>1, <3>1, <4>1 DEF DeadOK
    <3>5. caStates'[o] = caStates[o] /\ caStates'[opens'.now] = caFiles.cert
      BY <1>f, <2>1, <3>1, <3>2 DEF FilesType
    <3> QED
      BY <2>0, <3>1, <3>2, <3>3, <3>4, <3>5 DEF Older, Held, Asks
  <2>5. CASE RenewCA
    <3>1. /\ opens' = opens /\ caFiles'.key = caFiles.key /\ caStep'.at # "fits"
          /\ opens.now \in Opens /\ caStep.at = "fits"
      BY <1>f, <1>h, <2>5, Renewal DEF AtRest
    <3>2. Older(o)
      BY <1>h, <2>1, <3>1 DEF DeadOK
    <3>3. CASE UNCHANGED <<caFiles, caStates>>
      BY <2>0, <3>1, <3>2, <3>3 DEF Older, Asks
    <3>4. CASE ~UNCHANGED <<caFiles, caStates>>
      <4>1. PICK cert \in CACerts : /\ cert # NoneYet /\ cert.key = caStep.cert.key
                                    /\ caFiles'.cert \in {caFiles.cert, cert}
                                    /\ caStates' = [caStates EXCEPT ![opens.now] = cert]
        BY <1>f, <1>h, <2>5, <3>4, Renewal
      <4>2. caStates'[o] = caStates[o] /\ caStates'[opens.now] = cert
        BY <1>f, <2>1, <3>1, <4>1 DEF FilesType
      <4>3. caStates[o].key < cert.key
        BY <3>1, <3>2, <4>1 DEF Older
      <4> QED
        BY <2>0, <3>1, <3>2, <4>1, <4>2, <4>3 DEF Older, Asks
    <3> QED
      BY <3>3, <3>4
  <2>5a. CASE RenewReadCert
    <3>1. UNCHANGED <<opens, caStates, caFiles>> /\ opens' = opens
      BY <2>5a DEF RenewReadCert
    <3>2. Older(o)
      BY <1>h, <2>1, <3>1 DEF DeadOK
    <3>3. caStep'.at = "fits" => caStep'.cert = caFiles.cert /\ caFiles.cert # NoneYet
      BY <1>f, <2>5a DEF RenewReadCert, caFits, AtRest, FilesType, CASteppings
    <3> QED
      BY <2>0, <3>1, <3>2, <3>3 DEF Older, Asks
  <2>6. CASE MakeCAKey \/ ReplaceCAKey
    <3>1. /\ caFiles'.key = caKeys + 1 /\ caFiles'.cert = caFiles.cert /\ UNCHANGED <<opens, caStates>>
          /\ caStep' = caStep \/ caStep'.at # "fits"
      BY <1>f, <2>6 DEF MakeCAKey, ReplaceCAKey, FilesType, AtRest
    <3>2. Older(o)
      BY <1>h, <2>1, <3>1 DEF DeadOK
    <3>3. caStates[o].key < caKeys + 1
      BY <2>2
    <3> QED
      BY <2>0, <3>1, <3>2, <3>3 DEF Older, Asks
  <2>7. CASE MakeCACert \/ ReplaceCACert
    <3>1. /\ UNCHANGED <<opens, caStates>> /\ caFiles'.key = caFiles.key
          /\ caStep' = caStep \/ caStep'.at # "fits"
      BY <1>f, <2>7 DEF MakeCACert, ReplaceCACert, FilesType, AtRest
    <3>2. caFiles'.cert = caFiles.cert \/ (caFiles'.cert = [key |-> caFiles.key, n |-> 0] /\ caFiles.key # NoneYet)
      BY <1>f, <1>h, <2>7 DEF MakeCACert, ReplaceCACert, FilesType, FilesOK
    <3>3. Older(o)
      BY <1>h, <2>1, <3>1 DEF DeadOK
    <3>4. caFiles'.cert # NoneYet => caStates[o].key < caFiles'.cert.key
      <4>1. CASE caFiles'.cert = caFiles.cert
        BY <3>3, <4>1 DEF Older
      <4>2. CASE caFiles'.cert = [key |-> caFiles.key, n |-> 0] /\ caFiles.key # NoneYet
        BY <3>3, <4>2 DEF Older
      <4> QED
        BY <3>2, <4>1, <4>2
    <3> QED
      BY <2>0, <3>1, <3>3, <3>4 DEF Older, Asks
  <2>8. CASE RenewReadKey \/ UseCA \/ CheckDelete
    <3>1. UNCHANGED <<opens, caStates, caFiles>> /\ (caStep' = caStep \/ caStep'.at # "fits")
      BY <2>8 DEF RenewReadKey, UseCA, CheckDelete, AtRest
    <3>2. Older(o)
      BY <1>h, <2>1, <3>1 DEF DeadOK
    <3> QED
      BY <2>0, <3>1, <3>2 DEF Older, Asks
  <2> QED
    BY <1>3, <2>3, <2>4, <2>5, <2>5a, <2>6, <2>7, <2>8 DEF CASteps
<1>4. ASSUME CACrash PROVE DeadOK'
  BY <1>c, <1>4, Unused DEF DeadOK
<1>5. ASSUME (\E h \in Hosts : RemoveLeaf(h)) \/ (\E l \in Leaves : LeafDue(l)) PROVE DeadOK'
  <2>1. UNCHANGED <<opens, caStates, caFiles, caStep, callers>>
    BY <1>5 DEF RemoveLeaf, LeafDue, authority
  <2>2. \A o \in Opens, h \in Hosts : leafMem'[o][h] # NoneYet => leafMem'[o][h] = leafMem[o][h]
    BY <1>h, <1>5, Removes
  <2>3. \A o \in Opens : Held(o)' => Held(o)
    BY <2>1, <2>2 DEF Held, Asks
  <2>4. ASSUME NEW o \in Opens, o # opens.now, Held(o)' PROVE Older(o)'
    <3>1. Older(o)
      BY <1>h, <2>3, <2>4 DEF DeadOK
    <3>2. ASSUME opens.now # 0, NEW h \in Hosts, leafMem'[opens.now][h] # NoneYet
          PROVE  caStates[o].key < leafMem'[opens.now][h].leaf.signer
      BY <1>f, <2>2, <3>1, <3>2, FileFacts DEF Older
    <3> QED
      BY <2>1, <3>1, <3>2 DEF Older, Asks
  <2> QED
    BY <1>c, <2>1, <2>4 DEF DeadOK
<1> QED
  BY <1>h, <1>1, <1>2, <1>3, <1>4, <1>5, Cases

-----------------------------------------------------------------------------
(* The table and the locks *)

\* Two calls that hold a lock do not use the same cell.
LEMMA Apart ==
  ASSUME Types, HeldOK, LocksOK, NEW p \in Askers, NEW q \in Askers, q # p, CallSteps(p), callers[q].at \in Locked,
         callers[q].obj = callers[p].obj, callers[q].host = callers[p].host
  PROVE  CAQuiet(p)
<1>1. leafLock[callers[p].obj][callers[p].host] = q /\ q # NoneYet
  BY Nothing DEF LocksOK
<1>2. callers[p].at \notin Locked
  BY <1>1 DEF LocksOK
<1> QED
  BY <1>1, <1>2 DEF CallSteps, CAKept, FoundDue, Forgotten, Loaded, NotLoaded, Issues, IssueRefused, CAStays, Saved,
     CAPublished, Locked, SavingSteps

LEMMA Others ==
  ASSUME Types, HeldOK, LocksOK, NEW p \in Askers, NEW q \in Askers, q # p, CallSteps(p), callers[q].at \in Locked
  PROVE  /\ callers'[q] = callers[q]
         /\ leafMem'[callers[q].obj][callers[q].host] = leafMem[callers[q].obj][callers[q].host]
         /\ leafLock'[callers[q].obj][callers[q].host] = leafLock[callers[q].obj][callers[q].host]
<1>1. callers'[q] = callers[q]
  BY CallLeaves
<1>2. callers[q].obj \in Opens /\ callers[q].host \in Hosts
  BY CallFacts DEF Locked, SavingSteps
<1>3. CASE callers[q].obj = callers[p].obj /\ callers[q].host = callers[p].host
  <2>1. CAQuiet(p)
    BY <1>3, Apart
  <2> QED
    BY <1>1, <2>1 DEF CAQuiet, Found, NotFound, CAAnswers
<1>4. CASE ~(callers[q].obj = callers[p].obj /\ callers[q].host = callers[p].host)
  BY <1>1, <1>2, <1>4, CallLeaves
<1> QED
  BY <1>3, <1>4

LEMMA LocksStep ==
  ASSUME Types, HeldOK, LocksOK, LocalCANext
  PROVE  LocksOK'
<1>h. Types /\ HeldOK /\ LocksOK
  OBVIOUS
<1>1. ASSUME NEW p \in Askers, CallSteps(p) PROVE LocksOK'
  <2> SUFFICES ASSUME NEW q \in Askers, callers'[q].at \in Locked
               PROVE  leafLock'[callers'[q].obj][callers'[q].host] = q
    BY DEF LocksOK
  <2>1. CASE q # p
    BY <1>h, <1>1, <2>1, CallLeaves, Others DEF LocksOK
  <2>2. CASE q = p
    <3>0. callers[p].at # "idle" /\ callers'[p].obj = callers[p].obj /\ callers'[p].host = callers[p].host
      BY <1>h, <1>1, <2>2, CallLeaves DEF Locked, SavingSteps
    <3>1. CASE FoundDue(p) \/ Forgotten(p)
      <4>1. LockOf(p, p)
        BY <3>1 DEF FoundDue, Forgotten
      <4> QED
        BY <1>h, <2>2, <3>0, <4>1, LockOne
    <3>2. CASE NotLoaded(p) \/ Issues(p) \/ Saved(p)
      <4>1. callers[p].at \in Locked /\ leafLock' = leafLock
        BY <3>2 DEF NotLoaded, Issues, Saved, Locked, SavingSteps
      <4> QED
        BY <1>h, <2>2, <3>0, <4>1 DEF LocksOK
    <3>3. ASSUME Found(p) \/ NotFound(p) \/ CAKept(p) \/ Loaded(p) \/ CAStays(p) \/ CAPublished(p)
          PROVE  callers'[p].at \in {"done", "lock"}
      BY <1>h, <3>3, GoesOne DEF Found, NotFound, CAKept, Loaded, CAStays, CAPublished
    <3>4. ASSUME IssueRefused(p) \/ CAAnswers(p) PROVE callers'[p].at = "idle"
      BY <1>h, <3>4, EndsOne DEF IssueRefused, CAAnswers
    <3>5. "done" \notin Locked /\ "lock" \notin Locked /\ "idle" \notin Locked
      BY DEF Locked, SavingSteps
    <3> QED
      BY <1>1, <2>2, <3>1, <3>2, <3>3, <3>4, <3>5 DEF CallSteps, CAQuiet
  <2> QED
    BY <2>1, <2>2
<1>2. ASSUME NEW p \in Askers, NEW h \in Hosts, Called(p, h) PROVE LocksOK'
  <2>1. leafLock' = leafLock /\ callers'[p].at = "look" /\ \A q \in Askers : q # p => callers'[q] = callers[q]
    BY <1>h, <1>2, CalledOne DEF Called
  <2>2. ASSUME NEW q \in Askers, callers'[q].at \in Locked PROVE leafLock'[callers'[q].obj][callers'[q].host] = q
    <3>1. q # p
      BY <2>1, <2>2 DEF Locked, SavingSteps
    <3> QED
      BY <1>h, <2>1, <2>2, <3>1 DEF LocksOK
  <2> QED
    BY <2>2 DEF LocksOK
<1>3. ASSUME CASteps \/ DeleteCA \/ (\E h \in Hosts : RemoveLeaf(h)) \/ \E l \in Leaves : LeafDue(l) PROVE LocksOK'
  <2>1. UNCHANGED <<leafLock, callers>>
    BY <1>3 DEF CASteps, MakeCAKey, MakeCACert, OpenCA, RenewReadKey, RenewReadCert, RenewCA, ReplaceCAKey, ReplaceCACert, UseCA,
       CheckDelete, leavesAlone, DeleteCA, RemoveLeaf, LeafDue
  <2> QED
    BY <1>h, <2>1 DEF LocksOK
<1>4. ASSUME CACrash PROVE LocksOK'
  <2>1. \A q \in Askers : callers'[q].at = "idle"
    BY <1>4, Rests DEF CACrash
  <2> QED
    BY <2>1 DEF LocksOK, Locked, SavingSteps
<1> QED
  BY <1>h, <1>1, <1>2, <1>3, <1>4, Cases

\* What a removed certificate is not in.
LEMMA Removed ==
  ASSUME Types, HeldOK, DeadOK, CATableOK, NEW h \in Hosts, RemoveLeaf(h)
  PROVE  /\ opens.now \in Opens /\ leafMem[opens.now][h] # NoneYet /\ leafMem[opens.now][h].leaf \in issued
         /\ leafMem[opens.now][h].leaf.host = h
         /\ \A o \in Opens, l \in Leaves : o # opens.now /\ Held(o) /\ l.signer <= caStates[o].key =>
              l # leafMem[opens.now][h].leaf
<1>1. opens.now \in Opens /\ leafMem[opens.now][h] # NoneYet /\ opens.now # 0
  BY FileFacts DEF RemoveLeaf, Types
<1>2. leafMem[opens.now][h].leaf \in issued /\ leafMem[opens.now][h].leaf.host = h
  BY <1>1 DEF CATableOK
<1>3. ASSUME NEW o \in Opens, NEW l \in Leaves, o # opens.now, Held(o), l.signer <= caStates[o].key
      PROVE  l # leafMem[opens.now][h].leaf
  <2>1. caStates[o].key < leafMem[opens.now][h].leaf.signer
    BY <1>1, <1>3 DEF DeadOK, Older
  <2>2. caStates[o].key \in Nat /\ l.signer \in Nat
    BY <1>3, FileFacts, Nothing DEF HeldOK, Types
  <2>3. leafMem[opens.now][h].leaf.signer \in Nat
    BY <1>2, Nothing DEF Types, IssuedType
  <2> QED
    BY <1>3, <2>1, <2>2, <2>3
<1> QED
  BY <1>1, <1>2, <1>3

\* What a call leaves on disk for a host.
LEMMA SavesOne ==
  ASSUME Types, HeldOK, NEW p \in Askers, CallSteps(p), NEW h \in Hosts
  PROVE  \/ leafDisk'[h].cert \in {NoneYet, leafDisk[h].cert}
         \/ Saved(p) /\ h = callers[p].host /\ leafDisk'[h].cert = callers[p].new
<1>1. CASE h # callers[p].host
  BY <1>1, CallLeaves
<1>2. CASE h = callers[p].host
  <2>1. \/ leafDisk' = leafDisk
        \/ leafDisk' = [leafDisk EXCEPT ![h] = NoFolder]
        \/ leafDisk' = [leafDisk EXCEPT ![h].key = callers[p].new.serial]
        \/ Saved(p) /\ leafDisk' = [leafDisk EXCEPT ![h].cert = callers[p].new]
    BY <1>2 DEF CallSteps, CAQuiet, Found, NotFound, CAKept, FoundDue, Forgotten, Loaded, NotLoaded, Issues, IssueRefused, CAStays,
       Saved, CAPublished, CAAnswers
  <2> QED
    BY <1>2, <2>1, Rests DEF Types, DiskType, NoFolder
<1> QED
  BY <1>1, <1>2

LEMMA TableStep ==
  ASSUME Types, HeldOK, DeadOK, CATableOK, HoldsOK, LocalCANext
  PROVE  CATableOK'
<1>h. Types /\ HeldOK /\ DeadOK /\ CATableOK /\ HoldsOK
  OBVIOUS
<1>c. Opens' = Opens
  BY DEF Opens
<1>1. ASSUME NEW p \in Askers, CallSteps(p) PROVE CATableOK'
  <2>0. goneLeaves' = goneLeaves /\ issued \subseteq issued' /\ callers[p].at # "idle" /\ callers[p].host \in Hosts
    <3>1. goneLeaves' = goneLeaves /\ callers[p].at # "idle" /\ callers[p].host \in Hosts
      BY <1>h, <1>1, CallLeaves, CallFacts
    <3>2. issued' = issued \/ \E l : issued' = issued \cup {l}
      BY <1>1 DEF CallSteps, CAQuiet, Found, NotFound, CAKept, FoundDue, Forgotten, Loaded, NotLoaded, Issues, IssueRefused,
         CAStays, Saved, CAPublished, CAAnswers, rest
    <3> QED
      BY <3>1, <3>2
  <2>1. ASSUME NEW o \in Opens, NEW h \in Hosts, leafMem'[o][h] # NoneYet
        PROVE  /\ leafMem'[o][h].leaf.host = h /\ leafMem'[o][h].leaf.signer = leafMem'[o][h].ca.key
               /\ leafMem'[o][h].leaf \in issued \ goneLeaves
    <3>1. CASE leafMem'[o][h] = leafMem[o][h]
      BY <1>h, <2>1, <3>1 DEF CATableOK
    <3>2. CASE /\ o = callers[p].obj /\ h = callers[p].host /\ mem(p) = leafMem[o][h]
               /\ CAKept(p) \/ FoundDue(p)
               /\ leafMem'[o][h] = [leaf |-> mem(p).leaf, ca |-> caStates[o]]
      <4>1. mem(p) # NoneYet /\ mem(p).leaf.signer = caStates[o].key
        BY <3>2 DEF CAKept, FoundDue
      <4> QED
        BY <1>h, <3>2, <4>1 DEF CATableOK
    <3>3. CASE /\ h = callers[p].host /\ Loaded(p)
               /\ leafMem'[o][h] = [leaf |-> leafDisk[h].cert, ca |-> callers[p].ca]
      BY <1>h, <3>3 DEF CATableOK, Loaded
    <3>4. CASE /\ h = callers[p].host /\ CAPublished(p)
               /\ leafMem'[o][h] = [leaf |-> callers[p].new, ca |-> callers[p].ca]
      <4>1. callers[p].new \in issued \ goneLeaves /\ callers[p].new.host = h /\ callers[p].new.signer = callers[p].ca.key
        BY <1>h, <3>4 DEF HoldsOK, CAPublished, SavingSteps
      <4> QED
        BY <3>4, <4>1
    <3> QED
      BY <1>h, <1>1, <2>1, <3>1, <3>2, <3>3, <3>4, Puts
  <2>2. ASSUME NEW h \in Hosts, leafDisk'[h].cert # NoneYet
        PROVE  leafDisk'[h].cert.host = h /\ leafDisk'[h].cert \in issued \ goneLeaves
    <3>1. CASE leafDisk'[h].cert = leafDisk[h].cert
      BY <1>h, <2>2, <3>1 DEF CATableOK
    <3>2. CASE Saved(p) /\ h = callers[p].host /\ leafDisk'[h].cert = callers[p].new
      <4>1. callers[p].new \in issued \ goneLeaves /\ callers[p].new.host = h
        BY <1>h, <3>2 DEF HoldsOK, Saved, SavingSteps
      <4> QED
        BY <3>2, <4>1
    <3> QED
      BY <1>h, <1>1, <2>2, <3>1, <3>2, SavesOne
  <2> QED
    BY <1>c, <2>0, <2>1, <2>2 DEF CATableOK
<1>2. ASSUME \/ CASteps \/ \E p \in Askers, h \in Hosts : Called(p, h)
             \/ \E l \in Leaves : LeafDue(l)
      PROVE CATableOK'
  <2>1. UNCHANGED <<leafMem, leafDisk, issued, goneLeaves>>
    BY <1>2 DEF CASteps, MakeCAKey, MakeCACert, OpenCA, RenewReadKey, RenewReadCert, RenewCA, ReplaceCAKey, ReplaceCACert, UseCA,
       CheckDelete, leavesAlone, LeafDue, Called, rest
  <2> QED
    BY <1>h, <1>c, <2>1 DEF CATableOK
<1>3. ASSUME DeleteCA PROVE CATableOK'
  <2>1. UNCHANGED <<leafMem, issued, goneLeaves>> /\ \A h \in Hosts : leafDisk'[h].cert = NoneYet
    BY <1>3 DEF DeleteCA, NoFolder
  <2> QED
    BY <1>h, <1>c, <2>1 DEF CATableOK
<1>4. ASSUME CACrash PROVE CATableOK'
  <2>1. UNCHANGED <<leafDisk, issued, goneLeaves>> /\ \A o \in Opens, h \in Hosts : leafMem'[o][h] = NoneYet
    BY <1>4 DEF CACrash
  <2> QED
    BY <1>h, <1>c, <2>1 DEF CATableOK
<1>5. ASSUME NEW h \in Hosts, RemoveLeaf(h) PROVE CATableOK'
  <2> DEFINE gone == leafMem[opens.now][h].leaf
  <2>1. /\ opens.now \in Opens /\ leafMem[opens.now][h] # NoneYet /\ gone.host = h
        /\ \A o \in Opens, l \in Leaves : o # opens.now /\ Held(o) /\ l.signer <= caStates[o].key => l # gone
    BY <1>h, <1>5, Removed
  <2>2. /\ issued' = issued /\ goneLeaves' = goneLeaves \cup {gone}
        /\ leafMem'[opens.now][h] = NoneYet /\ leafDisk'[h].cert = NoneYet
        /\ \A o \in Opens, h_ \in Hosts : ~(o = opens.now /\ h_ = h) => leafMem'[o][h_] = leafMem[o][h_]
        /\ \A h_ \in Hosts : h_ # h => leafDisk'[h_] = leafDisk[h_]
    BY <1>h, <1>5, <2>1 DEF RemoveLeaf, Types, MemType, DiskType, NoFolder
  <2> HIDE DEF gone
  <2>3. ASSUME NEW o \in Opens, NEW h_ \in Hosts, leafMem'[o][h_] # NoneYet
        PROVE  leafMem'[o][h_] = leafMem[o][h_] /\ leafMem[o][h_].leaf # gone
    <3>1. leafMem'[o][h_] = leafMem[o][h_] /\ ~(o = opens.now /\ h_ = h)
      BY <2>2, <2>3
    <3>2. CASE h_ # h
      BY <1>h, <2>1, <2>3, <3>1, <3>2 DEF CATableOK
    <3>3. CASE h_ = h /\ o # opens.now
      <4>1. Held(o) /\ leafMem[o][h_].leaf \in Leaves
        BY <1>h, <2>3, <3>1 DEF Held, CATableOK, Types, IssuedType
      <4>2. leafMem[o][h_].leaf.signer <= caStates[o].key
        BY <1>h, <2>3, <3>1, <4>1 DEF HeldOK
      <4> QED
        BY <2>1, <3>1, <3>3, <4>1, <4>2
    <3> QED
      BY <3>1, <3>2, <3>3
  <2>4. ASSUME NEW h_ \in Hosts, leafDisk'[h_].cert # NoneYet
        PROVE  leafDisk'[h_] = leafDisk[h_] /\ leafDisk[h_].cert # gone
    <3>1. leafDisk'[h_] = leafDisk[h_] /\ h_ # h
      BY <2>2, <2>4
    <3> QED
      BY <1>h, <2>1, <2>4, <3>1 DEF CATableOK
  <2>5. ASSUME NEW o \in Opens, NEW h_ \in Hosts, leafMem'[o][h_] # NoneYet
        PROVE  /\ leafMem'[o][h_].leaf.host = h_ /\ leafMem'[o][h_].leaf.signer = leafMem'[o][h_].ca.key
               /\ leafMem'[o][h_].leaf \in issued \ (goneLeaves \cup {gone})
    <3>1. leafMem'[o][h_] = leafMem[o][h_] /\ leafMem[o][h_].leaf # gone
      BY <2>3, <2>5
    <3>2. /\ leafMem[o][h_].leaf.host = h_ /\ leafMem[o][h_].leaf.signer = leafMem[o][h_].ca.key
          /\ leafMem[o][h_].leaf \in issued \ goneLeaves
      BY <1>h, <2>5, <3>1 DEF CATableOK
    <3> QED
      BY <3>1, <3>2
  <2>6. ASSUME NEW h_ \in Hosts, leafDisk'[h_].cert # NoneYet
        PROVE  leafDisk'[h_].cert.host = h_ /\ leafDisk'[h_].cert \in issued \ (goneLeaves \cup {gone})
    BY <1>h, <2>4, <2>6 DEF CATableOK
  <2> QED
    BY <1>c, <2>2, <2>5, <2>6 DEF CATableOK
<1> QED
  BY <1>h, <1>1, <1>2, <1>3, <1>4, <1>5, Cases

\* Where a call is after its step.
LEMMA Arrives ==
  ASSUME Types, HeldOK, NEW p \in Askers, CallSteps(p)
  PROVE  /\ Found(p) \/ CAKept(p) \/ Loaded(p) \/ CAStays(p) \/ CAPublished(p) => callers'[p].at = "done"
         /\ NotFound(p) => callers'[p].at = "lock"
         /\ IssueRefused(p) \/ CAAnswers(p) => callers'[p].at = "idle"
         /\ Forgotten(p) => callers'[p].at = "disk" /\ callers'[p].cur = NoneYet
                            /\ callers'[p].ca = caStates[callers[p].obj]
         /\ FoundDue(p) => callers'[p].at = "issue" /\ callers'[p].cur = mem(p).leaf
                           /\ callers'[p].ca = caStates[callers[p].obj]
         /\ NotLoaded(p) => callers'[p].at = "issue" /\ callers'[p].cur = callers[p].cur
                            /\ callers'[p].ca = callers[p].ca
         /\ Issues(p) => /\ callers'[p].at = "savekey" /\ callers'[p].ca = callers[p].ca
                         /\ callers'[p].new = [serial |-> Cardinality(issued) + 1, signer |-> callers[p].ca.key,
                                               host |-> callers[p].host, obj |-> callers[p].obj]
         /\ Saved(p) => callers'[p].at \in SavingSteps /\ callers'[p].new = callers[p].new /\ callers'[p].ca = callers[p].ca
<1>1. Found(p) \/ CAKept(p) \/ Loaded(p) \/ CAStays(p) \/ CAPublished(p) => callers'[p].at = "done"
  BY GoesOne DEF Found, CAKept, Loaded, CAStays, CAPublished
<1>2. (NotFound(p) => callers'[p].at = "lock") /\ (IssueRefused(p) \/ CAAnswers(p) => callers'[p].at = "idle")
  BY GoesOne, EndsOne DEF NotFound, IssueRefused, CAAnswers
<1>3. /\ Forgotten(p) => callers'[p].at = "disk" /\ callers'[p].cur = NoneYet
                         /\ callers'[p].ca = caStates[callers[p].obj]
      /\ FoundDue(p) => callers'[p].at = "issue" /\ callers'[p].cur = mem(p).leaf
                        /\ callers'[p].ca = caStates[callers[p].obj]
      /\ NotLoaded(p) => callers'[p].at = "issue" /\ callers'[p].cur = callers[p].cur
                         /\ callers'[p].ca = callers[p].ca
  BY GoesOne DEF Forgotten, FoundDue, NotLoaded
<1>4. /\ Issues(p) => /\ callers'[p].at = "savekey" /\ callers'[p].ca = callers[p].ca
                      /\ callers'[p].new = [serial |-> Cardinality(issued) + 1, signer |-> callers[p].ca.key,
                                            host |-> callers[p].host, obj |-> callers[p].obj]
      /\ Saved(p) => callers'[p].at \in SavingSteps /\ callers'[p].new = callers[p].new /\ callers'[p].ca = callers[p].ca
  BY GoesOne DEF Issues, Saved, SavingSteps
<1> QED
  BY <1>1, <1>2, <1>3, <1>4

\* What the holder of a lock knows of its cell, in a word for the steps below.
Knows(c, m) ==
  /\ c.at = "disk" => m = NoneYet /\ c.cur = NoneYet
  /\ c.at = "issue" => IF c.cur = NoneYet THEN m = NoneYet
                       ELSE m # NoneYet /\ m.leaf = c.cur /\ c.cur.signer = c.ca.key
  /\ c.at \in {"issue"} \cup SavingSteps /\ m # NoneYet => isDue(m.leaf)
  /\ c.at \in SavingSteps => /\ c.new \in issued \ goneLeaves
                        /\ c.new.host = c.host /\ c.new.signer = c.ca.key

LEMMA HoldsIs ==
  /\ HoldsOK <=> \A p \in Askers : callers[p].at \in Locked => Knows(callers[p], mem(p))
  /\ (\A p \in Askers : callers'[p].at \in Locked => Knows(callers[p], mem(p))') => HoldsOK'
<1>1. HoldsOK <=> \A p \in Askers : callers[p].at \in Locked => Knows(callers[p], mem(p))
  BY DEF HoldsOK, Knows, Locked, SavingSteps
<1>2. ASSUME \A p \in Askers : callers'[p].at \in Locked => Knows(callers[p], mem(p))' PROVE HoldsOK'
  BY <1>2 DEF HoldsOK, Knows, Locked, SavingSteps
<1> QED
  BY <1>1, <1>2

LEMMA HoldsStep ==
  ASSUME Types, HeldOK, DeadOK, CATableOK, LocksOK, HoldsOK, LocalCANext
  PROVE  HoldsOK'
<1>h. Types /\ HeldOK /\ DeadOK /\ CATableOK /\ LocksOK /\ HoldsOK
  OBVIOUS
<1>k. \A p \in Askers : callers[p].at \in Locked => Knows(callers[p], mem(p))
  BY HoldsIs
<1> SUFFICES ASSUME NEW q \in Askers, callers'[q].at \in Locked PROVE Knows(callers[q], mem(q))'
  BY HoldsIs
<1>i. "idle" \notin Locked /\ "look" \notin Locked /\ "lock" \notin Locked /\ "done" \notin Locked
  BY DEF Locked, SavingSteps
<1>1. ASSUME NEW p \in Askers, CallSteps(p) PROVE Knows(callers[q], mem(q))'
  <2>0. dueLeaves' = dueLeaves /\ goneLeaves' = goneLeaves /\ issued \subseteq issued'
    <3>1. dueLeaves' = dueLeaves /\ goneLeaves' = goneLeaves
      BY <1>h, <1>1, CallLeaves
    <3>2. issued' = issued \/ \E l : issued' = issued \cup {l}
      BY <1>1 DEF CallSteps, CAQuiet, Found, NotFound, CAKept, FoundDue, Forgotten, Loaded, NotLoaded, Issues, IssueRefused,
         CAStays, Saved, CAPublished, CAAnswers, rest
    <3> QED
      BY <3>1, <3>2
  <2>1. CASE q # p
    <3>1. callers'[q] = callers[q]
      BY <1>h, <1>1, <2>1, CallLeaves
    <3>2. mem(q)' = mem(q)
      BY <1>h, <1>1, <2>1, <3>1, Others DEF mem
    <3> QED
      BY <1>k, <2>0, <3>1, <3>2 DEF Knows, isDue
  <2>2. CASE q = p
    <3>0. callers[p].at # "idle" /\ callers'[p].obj = callers[p].obj /\ callers'[p].host = callers[p].host
          /\ callers[p].obj \in Opens /\ callers[p].host \in Hosts /\ callers[p].ca \in CACerts
      BY <1>h, <1>i, <1>1, <2>2, CallLeaves, CallFacts
    <3>1. CASE FoundDue(p)
      <4>1. callers'[p].at = "issue" /\ callers'[p].cur = mem(p).leaf /\ callers'[p].ca = caStates[callers[p].obj]
        BY <1>h, <1>1, <3>1, Arrives
      <4>2. mem(p) # NoneYet /\ mem(p).leaf.signer = caStates[callers[p].obj].key /\ mem(p).leaf \in dueLeaves
            /\ mem(p).leaf \in Leaves /\ caStates[callers[p].obj] \in CACerts
        BY <1>h, <3>0, <3>1, CallFacts DEF FoundDue, isDue
      <4>3. mem(p)' = [leaf |-> mem(p).leaf, ca |-> caStates[callers[p].obj]]
        <5>1. TablePut(p, [leaf |-> mem(p).leaf, ca |-> caStates[callers[p].obj]])
          BY <3>1 DEF FoundDue
        <5> QED
          BY <1>h, <3>0, <5>1, PutOne DEF mem
      <4>4. mem(p)' # NoneYet /\ mem(p)'.leaf = mem(p).leaf /\ mem(p).leaf # NoneYet
        BY <4>2, <4>3, Nothing
      <4> QED
        BY <2>0, <2>2, <4>1, <4>2, <4>4 DEF Knows, isDue, SavingSteps
    <3>2. CASE Forgotten(p)
      <4>1. callers'[p].at = "disk" /\ callers'[p].cur = NoneYet
        BY <1>h, <1>1, <3>2, Arrives
      <4>2. mem(p)' = NoneYet
        <5>1. TablePut(p, NoneYet)
          BY <3>2 DEF Forgotten
        <5> QED
          BY <1>h, <3>0, <5>1, PutOne DEF mem
      <4> QED
        BY <2>2, <4>1, <4>2 DEF Knows, SavingSteps
    <3>3. CASE NotLoaded(p)
      <4>1. callers'[p].at = "issue" /\ callers'[p].cur = callers[p].cur
        BY <1>h, <1>1, <3>3, Arrives
      <4>2. mem(p)' = mem(p)
        BY <3>0, <3>3 DEF NotLoaded, mem
      <4>3. mem(p) = NoneYet /\ callers[p].cur = NoneYet
        BY <1>h, <3>3 DEF NotLoaded, HoldsOK
      <4> QED
        BY <2>2, <4>1, <4>2, <4>3 DEF Knows, SavingSteps
    <3>4. CASE Issues(p)
      <4> DEFINE leaf == [serial |-> Cardinality(issued) + 1, signer |-> callers[p].ca.key, host |-> callers[p].host,
                          obj |-> callers[p].obj]
      <4>1. callers'[p].at = "savekey" /\ callers'[p].new = leaf /\ callers'[p].ca = callers[p].ca
        BY <1>h, <1>1, <3>4, Arrives
      <4>2. leaf \in issued' \ goneLeaves /\ leaf.host = callers[p].host /\ leaf.signer = callers[p].ca.key
        BY <1>h, <3>4, Fresh DEF Types, IssuedType
      <4>3. mem(p)' = mem(p) /\ (mem(p) # NoneYet => isDue(mem(p).leaf))
        BY <1>h, <3>0, <3>4 DEF Issues, mem, HoldsOK
      <4> HIDE DEF leaf
      <4> QED
        BY <2>0, <2>2, <3>0, <4>1, <4>2, <4>3 DEF Knows, isDue, SavingSteps
    <3>5. CASE Saved(p)
      <4>1. callers'[p].at \in SavingSteps /\ callers'[p].new = callers[p].new /\ callers'[p].ca = callers[p].ca
            /\ callers[p].at \in SavingSteps
        BY <1>h, <1>1, <3>5, Arrives DEF Saved, SavingSteps
      <4>2. mem(p)' = mem(p)
        BY <3>0, <3>5 DEF Saved, mem
      <4>3. Knows(callers[p], mem(p))
        BY <1>k, <4>1 DEF Locked
      <4> QED
        BY <2>0, <2>2, <3>0, <4>1, <4>2, <4>3 DEF Knows, isDue, SavingSteps
    <3> QED
      BY <1>h, <1>i, <1>1, <2>2, <3>1, <3>2, <3>3, <3>4, <3>5, Arrives DEF CallSteps, CAQuiet
  <2> QED
    BY <2>1, <2>2
<1>2. ASSUME NEW p \in Askers, NEW h \in Hosts, Called(p, h) PROVE Knows(callers[q], mem(q))'
  <2>1. q # p /\ callers'[q] = callers[q]
    BY <1>h, <1>i, <1>2, CalledOne
  <2>2. UNCHANGED <<leafMem, issued, dueLeaves, goneLeaves>>
    BY <1>2 DEF Called, rest
  <2> QED
    BY <1>k, <2>1, <2>2 DEF Knows, isDue, mem
<1>3. ASSUME CASteps \/ DeleteCA \/ \E l \in Leaves : LeafDue(l) PROVE Knows(callers[q], mem(q))'
  <2>1. UNCHANGED <<leafMem, callers, issued, goneLeaves>> /\ dueLeaves \subseteq dueLeaves'
    BY <1>3 DEF CASteps, MakeCAKey, MakeCACert, OpenCA, RenewReadKey, RenewReadCert, RenewCA, ReplaceCAKey, ReplaceCACert, UseCA,
       CheckDelete, leavesAlone, DeleteCA, LeafDue
  <2> QED
    BY <1>k, <2>1 DEF Knows, isDue, mem
<1>4. ASSUME CACrash PROVE Knows(callers[q], mem(q))'
  BY <1>i, <1>4, Rests DEF CACrash
<1>5. ASSUME NEW h \in Hosts, RemoveLeaf(h) PROVE Knows(callers[q], mem(q))'
  <2> DEFINE gone == leafMem[opens.now][h].leaf
  <2>1. /\ opens.now \in Opens /\ gone.host = h
        /\ \A o \in Opens, l \in Leaves : o # opens.now /\ Held(o) /\ l.signer <= caStates[o].key => l # gone
    BY <1>h, <1>5, Removed
  <2>2. /\ UNCHANGED <<callers, issued, dueLeaves>> /\ goneLeaves' = goneLeaves \cup {gone}
        /\ leafLock[opens.now][h] = NoneYet
        /\ \A o \in Opens, h_ \in Hosts : ~(o = opens.now /\ h_ = h) => leafMem'[o][h_] = leafMem[o][h_]
    BY <1>h, <1>5, <2>1 DEF RemoveLeaf, Types, MemType
  <2> HIDE DEF gone
  <2>3. callers[q].at \in Locked /\ callers[q].obj \in Opens /\ callers[q].host \in Hosts /\ Held(callers[q].obj)
    BY <1>h, <1>i, <2>2, CallFacts
  <2>4. ~(callers[q].obj = opens.now /\ callers[q].host = h)
    BY <1>h, <2>2, <2>3, Nothing DEF LocksOK
  <2>5. mem(q)' = mem(q) /\ Knows(callers[q], mem(q))
    BY <1>k, <2>2, <2>3, <2>4 DEF mem
  <2>6. ASSUME callers[q].at \in SavingSteps PROVE callers[q].new # gone
    <3>1. callers[q].new \in issued /\ callers[q].new.host = callers[q].host
          /\ callers[q].new.signer = callers[q].ca.key
      BY <2>5, <2>6 DEF Knows
    <3>2. CASE callers[q].host # h
      BY <2>1, <3>1, <3>2
    <3>3. CASE callers[q].obj # opens.now
      <4>1. callers[q].ca.key <= caStates[callers[q].obj].key
        BY <1>h, <1>i, <2>3 DEF HeldOK, Asks
      <4> QED
        BY <1>h, <2>1, <2>3, <3>1, <3>3, <4>1 DEF Types, IssuedType
    <3> QED
      BY <2>4, <3>2, <3>3
  <2> QED
    BY <2>2, <2>5, <2>6 DEF Knows, isDue
<1> QED
  BY <1>h, <1>1, <1>2, <1>3, <1>4, <1>5, Cases

-----------------------------------------------------------------------------
(* Where the certificates are, and what handshakes get *)

LEMMA KnownStep ==
  ASSUME Types, FilesOK, HeldOK, CATableOK, LocksOK, HoldsOK, KnownOK, LocalCANext
  PROVE  KnownOK'
<1>h. Types /\ FilesOK /\ HeldOK /\ CATableOK /\ LocksOK /\ HoldsOK /\ KnownOK
  OBVIOUS
<1> DEFINE Somewhere(l) == l \in dueLeaves \cup goneLeaves \/ Lost(l) \/ InTable(l) \/ OnItsWay(l) \/ Outdated(l)
<1>k. \A l \in issued : /\ l.obj <= opens.last /\ l.obj \in Opens /\ l.host \in Hosts /\ l.signer \in Nat
                        /\ Somewhere(l)
  BY Nothing DEF KnownOK, Types, IssuedType
<1>n. \A l \in issued : l.obj \in Nat /\ l.obj # 0
  BY <1>k, Nothing
<1>1. ASSUME NEW p \in Askers, CallSteps(p), NEW l \in issued' PROVE l.obj <= opens'.last /\ Somewhere(l)'
  <2>0. /\ UNCHANGED <<opens, caStates, dueLeaves, goneLeaves>> /\ callers[p].at # "idle"
        /\ \A q \in Askers : q # p => callers'[q] = callers[q]
    BY <1>h, <1>1, CallLeaves DEF authority
  <2>p. /\ callers[p].host \in Hosts /\ callers[p].obj \in Opens /\ callers[p].ca \in CACerts
        /\ Held(callers[p].obj)
    BY <1>h, <2>0, CallFacts
  <2>1. CASE l \notin issued
    <3>1. Issues(p)
      BY <1>1, <2>1 DEF CallSteps, CAQuiet, Found, NotFound, CAKept, FoundDue, Forgotten, Loaded, NotLoaded, Issues, IssueRefused,
         CAStays, Saved, CAPublished, CAAnswers, rest
    <3>2. l = callers'[p].new /\ l.obj = callers[p].obj /\ callers'[p].at = "savekey" /\ callers'[p].obj = callers[p].obj
      <4> DEFINE leaf == [serial |-> Cardinality(issued) + 1, signer |-> callers[p].ca.key, host |-> callers[p].host,
                          obj |-> callers[p].obj]
      <4>1. callers'[p].at = "savekey" /\ callers'[p].new = leaf
        BY <1>h, <1>1, <3>1, Arrives
      <4>2. callers'[p].obj = callers[p].obj
        BY <1>h, <1>1, <4>1, CallLeaves
      <4>3. l = leaf /\ leaf.obj = callers[p].obj
        <5>1. issued' = issued \cup {leaf}
          BY <1>h, <3>1, Fresh
        <5> QED
          BY <1>1, <2>1, <5>1
      <4> QED
        BY <4>1, <4>2, <4>3
    <3>3. l.obj <= opens'.last
      BY <1>h, <2>0, <2>p, <3>2 DEF HeldOK
    <3>4. OnItsWay(l)'
      BY <3>2 DEF OnItsWay, SavingSteps
    <3> QED
      BY <3>3, <3>4
  <2>2. CASE l \in issued
    <3>1. l.obj <= opens'.last /\ l.obj \in Opens /\ l.host \in Hosts /\ l.signer \in Nat
      BY <1>k, <2>0, <2>2
    <3>2. CASE l \in dueLeaves \cup goneLeaves
      BY <2>0, <3>1, <3>2
    <3>3. CASE Lost(l)
      <4>1. \A q \in Askers : ~Asks(q, l.obj)'
        BY <1>h, <1>1, <3>1, <3>3, HeldBefore DEF Lost
      <4> QED
        BY <2>0, <3>1, <3>3, <4>1 DEF Lost, Asks
    <3>4. CASE OnItsWay(l)
      <4>1. PICK q \in Askers : callers[q].at \in SavingSteps /\ callers[q].obj = l.obj /\ callers[q].new = l
        BY <3>4 DEF OnItsWay
      <4>2. CASE q # p
        BY <2>0, <3>1, <4>1, <4>2 DEF OnItsWay
      <4>3. CASE q = p
        <5>1. Saved(p) \/ CAPublished(p)
          BY <1>1, <4>1, <4>3 DEF CallSteps, CAQuiet, Found, NotFound, CAKept, FoundDue, Forgotten, Loaded, NotLoaded,
             Issues, IssueRefused, CAStays, CAAnswers, SavingSteps
        <5>2. CASE Saved(p)
          <6>1. callers'[p].at \in SavingSteps /\ callers'[p].new = l
            BY <1>h, <1>1, <4>1, <4>3, <5>2, Arrives
          <6>2. callers'[p].obj = l.obj
            BY <1>h, <1>1, <4>1, <4>3, <6>1, CallLeaves DEF SavingSteps
          <6> QED
            BY <3>1, <6>1, <6>2 DEF OnItsWay
        <5>3. CASE CAPublished(p)
          <6>1. l.host = callers[p].host /\ l \in Leaves
            BY <1>h, <2>2, <4>1, <4>3 DEF HoldsOK, Types, IssuedType
          <6>2. TablePut(p, [leaf |-> l, ca |-> callers[p].ca])
            BY <4>1, <4>3, <5>3 DEF CAPublished
          <6>3. leafMem'[l.obj][l.host] = [leaf |-> l, ca |-> callers[p].ca]
            BY <1>h, <2>0, <4>1, <4>3, <6>1, <6>2, PutOne
          <6>4. leafMem'[l.obj][l.host] # NoneYet
            <7>1. [leaf |-> l, ca |-> callers[p].ca] \in [leaf : Leaves, ca : CACerts]
              BY <2>p, <6>1
            <7> QED
              BY <6>3, <7>1, Nothing
          <6> QED
            BY <3>1, <6>3, <6>4 DEF InTable
        <5> QED
          BY <5>1, <5>2, <5>3
      <4> QED
        BY <4>2, <4>3
    <3>5. CASE InTable(l)
      <4>1. CASE leafMem'[l.obj][l.host] = leafMem[l.obj][l.host]
        BY <3>1, <3>5, <4>1 DEF InTable
      <4>2. CASE ~(leafMem'[l.obj][l.host] = leafMem[l.obj][l.host])
        <5>1. /\ l.obj = callers[p].obj /\ l.host = callers[p].host /\ mem(p) # NoneYet /\ mem(p).leaf = l
              /\ \/ (CAKept(p) \/ FoundDue(p)) /\ leafMem'[l.obj][l.host] = [leaf |-> mem(p).leaf, ca |-> caStates[l.obj]]
                 \/ Forgotten(p) \/ Loaded(p) \/ CAPublished(p)
          <6>1. PICK o \in Opens, h \in Hosts : o = l.obj /\ h = l.host
            BY <3>1
          <6>2. leafMem'[o][h] # leafMem[o][h] /\ leafMem[o][h] # NoneYet /\ leafMem[o][h].leaf = l
            BY <3>5, <4>2, <6>1 DEF InTable
          <6>3. /\ o = callers[p].obj /\ h = callers[p].host /\ mem(p) = leafMem[o][h]
                /\ \/ (CAKept(p) \/ FoundDue(p)) /\ leafMem'[o][h] = [leaf |-> mem(p).leaf, ca |-> caStates[o]]
                   \/ Forgotten(p) \/ Loaded(p) \/ CAPublished(p)
            <7>1. \/ leafMem'[o][h] = leafMem[o][h]
                  \/ /\ o = callers[p].obj /\ h = callers[p].host /\ mem(p) = leafMem[o][h]
                     /\ \/ (CAKept(p) \/ FoundDue(p)) /\ leafMem'[o][h] = [leaf |-> mem(p).leaf, ca |-> caStates[o]]
                        \/ Forgotten(p) /\ leafMem'[o][h] = NoneYet
                        \/ Loaded(p) /\ leafMem'[o][h] = [leaf |-> leafDisk[h].cert, ca |-> callers[p].ca]
                        \/ CAPublished(p) /\ leafMem'[o][h] = [leaf |-> callers[p].new, ca |-> callers[p].ca]
              BY <1>h, <1>1, Puts
            <7> QED
              BY <6>2, <7>1
          <6> QED
            BY <6>1, <6>2, <6>3
        <5>2. CASE (CAKept(p) \/ FoundDue(p)) /\ leafMem'[l.obj][l.host] = [leaf |-> mem(p).leaf, ca |-> caStates[l.obj]]
          <6>1. [leaf |-> l, ca |-> caStates[l.obj]] \in [leaf : Leaves, ca : CACerts]
            <7>1. l \in Leaves /\ caStates[l.obj] \in CACerts
              BY <1>h, <2>0, <2>2, <5>1, CallFacts DEF Types, IssuedType
            <7> QED
              BY <7>1
          <6>2. leafMem'[l.obj][l.host] # NoneYet /\ leafMem'[l.obj][l.host].leaf = l
            BY <5>1, <5>2, <6>1, Nothing
          <6> QED
            BY <3>1, <6>2 DEF InTable
        <5>3. CASE Forgotten(p)
          <6>1. callers'[p].at = "disk" /\ callers'[p].ca = caStates[l.obj]
            BY <1>h, <1>1, <5>1, <5>3, Arrives
          <6>2. caStates[l.obj] # NoneYet /\ l.signer < caStates[l.obj].key
            <7>1. l.signer # caStates[l.obj].key
              BY <5>1, <5>3 DEF Forgotten
            <7>2. caStates[l.obj] # NoneYet /\ l.signer <= caStates[l.obj].key
              BY <1>h, <2>p, <3>1, <3>5, <5>1 DEF HeldOK, InTable
            <7>3. caStates[l.obj].key \in Nat
              BY <1>h, <3>1, <7>2, FileFacts DEF Types
            <7> QED
              BY <3>1, <7>1, <7>2, <7>3
          <6>3. ASSUME NEW q \in Askers, callers'[q].at \in {"disk", "issue"}, callers'[q].obj = l.obj,
                       callers'[q].host = l.host
                PROVE  l.signer < callers'[q].ca.key
            <7>1. CASE q = p
              BY <6>1, <6>2, <7>1
            <7>2. CASE q # p
              <8>1. callers[q].at \in Locked /\ callers[q].obj = callers[p].obj /\ callers[q].host = callers[p].host
                BY <2>0, <5>1, <6>3, <7>2 DEF Locked
              <8>2. CAQuiet(p)
                BY <1>h, <1>1, <7>2, <8>1, Apart
              <8> QED
                BY <5>3, <8>2 DEF CAQuiet, Found, NotFound, CAAnswers, Forgotten, CAGoes
            <7> QED
              BY <7>1, <7>2
          <6> QED
            BY <2>0, <3>1, <6>2, <6>3 DEF Outdated
        <5>4. CASE Loaded(p)
          BY <1>h, <5>1, <5>4 DEF Loaded, HoldsOK
        <5>5. CASE CAPublished(p)
          <6>1. l \in dueLeaves
            BY <1>h, <5>1, <5>5 DEF CAPublished, HoldsOK, SavingSteps, isDue
          <6> QED
            BY <2>0, <3>1, <6>1
        <5> QED
          BY <5>1, <5>2, <5>3, <5>4, <5>5
      <4> QED
        BY <4>1, <4>2
    <3>6. CASE Outdated(l)
      <4>1. caStates[l.obj] # NoneYet /\ l.signer < caStates[l.obj].key
        BY <3>6 DEF Outdated
      <4>2. ASSUME NEW q \in Askers, callers'[q].at \in {"disk", "issue"}, callers'[q].obj = l.obj,
                   callers'[q].host = l.host
            PROVE  l.signer < callers'[q].ca.key
        <5>1. CASE q # p
          BY <2>0, <3>6, <4>2, <5>1 DEF Outdated
        <5>2. CASE q = p
          <6>1. callers[p].obj = l.obj /\ callers[p].host = l.host
            BY <1>h, <1>1, <4>2, <5>2, CallLeaves
          <6>2. FoundDue(p) \/ Forgotten(p) \/ NotLoaded(p)
            BY <1>h, <1>1, <4>2, <5>2, Arrives DEF CallSteps, CAQuiet, SavingSteps
          <6>3. CASE FoundDue(p) \/ Forgotten(p)
            BY <1>h, <1>1, <4>1, <5>2, <6>1, <6>3, Arrives
          <6>4. CASE NotLoaded(p)
            <7>1. callers[p].at = "disk" /\ callers'[p].ca = callers[p].ca
              BY <1>h, <1>1, <6>4, Arrives DEF NotLoaded
            <7> QED
              BY <3>6, <5>2, <6>1, <7>1 DEF Outdated
          <6> QED
            BY <6>2, <6>3, <6>4
        <5> QED
          BY <5>1, <5>2
      <4> QED
        BY <2>0, <3>1, <4>1, <4>2 DEF Outdated
    <3> QED
      BY <1>k, <2>2, <3>2, <3>3, <3>4, <3>5, <3>6
  <2> QED
    BY <2>1, <2>2
<1>2. ASSUME NEW p \in Askers, NEW h \in Hosts, Called(p, h), NEW l \in issued' PROVE l.obj <= opens'.last /\ Somewhere(l)'
  <2>0. UNCHANGED <<opens, caStates, leafMem, issued, dueLeaves, goneLeaves>> /\ callers[p].at = "idle"
    BY <1>2 DEF Called, authority, rest
  <2>1. /\ callers'[p].at = "look" /\ callers'[p].obj = opens.now
        /\ \A q \in Askers : q # p => callers'[q] = callers[q]
    BY <1>h, <1>2, CalledOne
  <2>2. l \in issued
    BY <2>0
  <2>3. ASSUME Lost(l) PROVE Lost(l)'
    <3>1. \A q \in Askers : ~(callers'[q].at # "idle" /\ callers'[q].obj = l.obj)
      BY <2>1, <2>3 DEF Lost, Asks
    <3> QED
      BY <2>0, <2>3, <3>1 DEF Lost, Asks
  <2>4. ASSUME OnItsWay(l) PROVE OnItsWay(l)'
    BY <2>0, <2>1, <2>4 DEF OnItsWay, SavingSteps
  <2>5. ASSUME Outdated(l) PROVE Outdated(l)'
    BY <2>0, <2>1, <2>5 DEF Outdated
  <2>6. ASSUME InTable(l) PROVE InTable(l)'
    BY <2>0, <2>6 DEF InTable
  <2> QED
    BY <1>k, <2>0, <2>2, <2>3, <2>4, <2>5, <2>6
<1>3. ASSUME CASteps \/ DeleteCA, NEW l \in issued' PROVE l.obj <= opens'.last /\ Somewhere(l)'
  <2>0. UNCHANGED <<leafMem, callers, issued, dueLeaves, goneLeaves>>
    BY <1>3 DEF CASteps, MakeCAKey, MakeCACert, OpenCA, RenewReadKey, RenewReadCert, RenewCA, ReplaceCAKey, ReplaceCACert, UseCA,
       CheckDelete, leavesAlone, DeleteCA
  <2>1. /\ l \in issued /\ opens.last \in Nat /\ opens'.last \in Nat /\ opens.last <= opens'.last /\ l.obj <= opens.last
        /\ l.obj \in Nat /\ l.obj # 0 /\ l.obj \in Opens /\ l.signer \in Nat /\ Somewhere(l)
    BY <1>h, <1>k, <1>n, <1>3, <2>0, CANewer
  <2>2. l.obj <= opens'.last
    BY <2>1
  <2>3. ASSUME Lost(l) PROVE Lost(l)'
    <3>1. opens'.now \in {opens.now, 0, opens.last + 1}
      <4>1. opens' = opens \/ opens'.now = 0 \/ opens'.now = opens.last + 1
        BY <1>h, <1>3 DEF CASteps, MakeCAKey, MakeCACert, OpenCA, RenewReadKey, RenewReadCert, RenewCA, ReplaceCAKey, ReplaceCACert,
           UseCA, CheckDelete, DeleteCA, Types, FilesType
      <4> QED
        BY <4>1
    <3>2. l.obj # opens'.now
      BY <2>1, <2>3, <3>1 DEF Lost
    <3> QED
      BY <2>0, <2>3, <3>2 DEF Lost, Asks
  <2>4. ASSUME Outdated(l) PROVE Outdated(l)'
    <3>1. caStates[l.obj] # NoneYet /\ l.signer < caStates[l.obj].key
      BY <2>4 DEF Outdated
    <3>2. caStates[l.obj].key \in Nat /\ caStates'[l.obj] # NoneYet /\ caStates'[l.obj].key \in Nat
          /\ caStates[l.obj].key <= caStates'[l.obj].key
      BY <1>h, <1>3, <2>1, <3>1, CANewer
    <3>3. l.signer < caStates'[l.obj].key
      BY <2>1, <3>1, <3>2
    <3> QED
      BY <2>0, <2>4, <3>2, <3>3 DEF Outdated
  <2>5. ASSUME OnItsWay(l) \/ InTable(l) PROVE OnItsWay(l)' \/ InTable(l)'
    BY <2>0, <2>5 DEF OnItsWay, InTable
  <2> QED
    BY <2>0, <2>1, <2>2, <2>3, <2>4, <2>5
<1>4. ASSUME CACrash, NEW l \in issued' PROVE l.obj <= opens'.last /\ Somewhere(l)'
  <2>1. l \in issued /\ opens'.last = opens.last /\ opens'.now = 0
    BY <1>h, <1>4 DEF CACrash, Types, FilesType
  <2>2. \A q \in Askers : callers'[q].at = "idle"
    BY <1>4, Rests DEF CACrash
  <2>3. l.obj # opens'.now
    BY <1>n, <2>1
  <2>4. Lost(l)'
    BY <2>2, <2>3 DEF Lost, Asks
  <2> QED
    BY <1>k, <2>1, <2>4
<1>5. ASSUME NEW h \in Hosts, RemoveLeaf(h), NEW l \in issued' PROVE l.obj <= opens'.last /\ Somewhere(l)'
  <2>0. UNCHANGED <<opens, caStates, callers, issued, dueLeaves>> /\ opens.now \in Opens
    BY <1>h, <1>5, FileFacts DEF RemoveLeaf, authority, Types
  <2>1. /\ goneLeaves' = goneLeaves \cup {leafMem[opens.now][h].leaf}
        /\ \A o \in Opens, h_ \in Hosts : ~(o = opens.now /\ h_ = h) => leafMem'[o][h_] = leafMem[o][h_]
    BY <1>h, <1>5, <2>0 DEF RemoveLeaf, Types, MemType
  <2>2. l \in issued /\ l.obj \in Opens /\ l.host \in Hosts
    BY <1>k, <2>0
  <2>3. ASSUME InTable(l) PROVE l \in goneLeaves' \/ InTable(l)'
    BY <2>1, <2>2, <2>3 DEF InTable
  <2>4. Lost(l) \/ OnItsWay(l) \/ Outdated(l) => Lost(l)' \/ OnItsWay(l)' \/ Outdated(l)'
    BY <2>0 DEF Lost, OnItsWay, Outdated, Asks
  <2> QED
    BY <1>k, <2>0, <2>1, <2>2, <2>3, <2>4
<1>6. ASSUME NEW d \in Leaves, LeafDue(d), NEW l \in issued' PROVE l.obj <= opens'.last /\ Somewhere(l)'
  <2>0. UNCHANGED <<opens, caStates, leafMem, callers, issued, goneLeaves>> /\ dueLeaves \subseteq dueLeaves'
    BY <1>6 DEF LeafDue, authority
  <2>1. Lost(l) \/ InTable(l) \/ OnItsWay(l) \/ Outdated(l) => Lost(l)' \/ InTable(l)' \/ OnItsWay(l)' \/ Outdated(l)'
    BY <2>0 DEF Lost, InTable, OnItsWay, Outdated, Asks
  <2> QED
    BY <1>k, <2>0, <2>1
<1>7. \A l \in issued' : l.obj <= opens'.last /\ Somewhere(l)'
  BY <1>h, <1>1, <1>2, <1>3, <1>4, <1>5, <1>6, Cases
<1> QED
  BY <1>7 DEF KnownOK

\* What a handshake is given, one call at a time.
Good(c) == c.at = "done" => c.new.signer = c.ca.key /\ c.new.host = c.host /\ c.new \notin c.gone

LEMMA GivenStep ==
  ASSUME Types, HeldOK, CATableOK, HoldsOK, GivenLeafIsGood, LocalCANext
  PROVE  GivenLeafIsGood'
<1>h. Types /\ HeldOK /\ CATableOK /\ HoldsOK /\ \A q \in Askers : Good(callers[q])
  BY DEF GivenLeafIsGood, Good
<1> SUFFICES ASSUME NEW q \in Askers PROVE Good(callers'[q])
  BY DEF GivenLeafIsGood, Good
<1>1. ASSUME NEW p \in Askers, CallSteps(p) PROVE Good(callers'[q])
  <2>1. CASE q # p
    BY <1>h, <1>1, <2>1, CallLeaves
  <2>2. CASE q = p
    <3>0. callers[p].host \in Hosts /\ callers[p].obj \in Opens /\ callers[p].gone \subseteq goneLeaves
          /\ callers[p].at # "idle"
      BY <1>h, <1>1, CallLeaves, CallFacts DEF Types, CACallersType
    <3>1. mem(p) # NoneYet => /\ mem(p).leaf.host = callers[p].host /\ mem(p).leaf.signer = mem(p).ca.key
                              /\ mem(p).leaf \notin goneLeaves
      BY <1>h, <3>0 DEF CATableOK, mem
    <3>2. CASE Found(p)
      <4>1. callers'[p].new = mem(p).leaf /\ callers'[p].ca = callers[p].ca /\ callers'[p].host = callers[p].host
            /\ callers'[p].gone = callers[p].gone
        BY <1>h, <3>2, GoesOne DEF Found
      <4> QED
        BY <2>2, <3>0, <3>1, <3>2, <4>1 DEF Good, Found
    <3>3. CASE CAKept(p)
      <4>1. callers'[p].new = mem(p).leaf /\ callers'[p].ca = caStates[callers[p].obj]
            /\ callers'[p].host = callers[p].host /\ callers'[p].gone = callers[p].gone
        BY <1>h, <3>3, GoesOne DEF CAKept
      <4> QED
        BY <2>2, <3>0, <3>1, <3>3, <4>1 DEF Good, CAKept
    <3>4. CASE Loaded(p)
      <4>1. callers'[p].new = leafDisk[callers[p].host].cert /\ callers'[p].ca = callers[p].ca
            /\ callers'[p].host = callers[p].host /\ callers'[p].gone = callers[p].gone
        BY <1>h, <3>4, GoesOne DEF Loaded
      <4>2. leafDisk[callers[p].host].cert \notin goneLeaves
        BY <1>h, <3>0, <3>4 DEF CATableOK, Loaded
      <4> QED
        BY <2>2, <3>0, <3>4, <4>1, <4>2 DEF Good, Loaded
    <3>5. CASE CAStays(p)
      <4>1. callers'[p].new = callers[p].cur /\ callers'[p].ca = callers[p].ca
            /\ callers'[p].host = callers[p].host /\ callers'[p].gone = callers[p].gone
        BY <1>h, <3>5, GoesOne DEF CAStays
      <4>2. mem(p) # NoneYet /\ mem(p).leaf = callers[p].cur /\ callers[p].cur.signer = callers[p].ca.key
        BY <1>h, <3>5 DEF HoldsOK, CAStays
      <4> QED
        BY <2>2, <3>0, <3>1, <4>1, <4>2 DEF Good
    <3>6. CASE CAPublished(p)
      <4>1. callers'[p].new = callers[p].new /\ callers'[p].ca = callers[p].ca
            /\ callers'[p].host = callers[p].host /\ callers'[p].gone = callers[p].gone
        BY <1>h, <3>6, GoesOne DEF CAPublished
      <4>2. callers[p].new \notin goneLeaves /\ callers[p].new.host = callers[p].host
            /\ callers[p].new.signer = callers[p].ca.key
        BY <1>h, <3>6 DEF HoldsOK, CAPublished, SavingSteps
      <4> QED
        BY <2>2, <3>0, <4>1, <4>2 DEF Good
    <3>7. callers'[p].at = "done" => Found(p) \/ CAKept(p) \/ Loaded(p) \/ CAStays(p) \/ CAPublished(p)
      BY <1>h, <1>1, Arrives DEF CallSteps, CAQuiet, SavingSteps
    <3> QED
      BY <2>2, <3>2, <3>3, <3>4, <3>5, <3>6, <3>7 DEF Good
  <2> QED
    BY <2>1, <2>2
<1>2. ASSUME NEW p \in Askers, NEW h \in Hosts, Called(p, h) PROVE Good(callers'[q])
  BY <1>h, <1>2, CalledOne DEF Good
<1>3. ASSUME CASteps \/ DeleteCA \/ (\E h \in Hosts : RemoveLeaf(h)) \/ \E l \in Leaves : LeafDue(l)
      PROVE  Good(callers'[q])
  <2>1. callers' = callers
    BY <1>3 DEF CASteps, MakeCAKey, MakeCACert, OpenCA, RenewReadKey, RenewReadCert, RenewCA, ReplaceCAKey, ReplaceCACert, UseCA,
       CheckDelete, leavesAlone, DeleteCA, RemoveLeaf, LeafDue
  <2> QED
    BY <1>h, <2>1
<1>4. ASSUME CACrash PROVE Good(callers'[q])
  BY <1>4, Rests DEF CACrash, Good
<1> QED
  BY <1>h, <1>1, <1>2, <1>3, <1>4, Cases

\* A certificate is issued for a name the table has none for that is neither due nor removed.
LEMMA FirstOnly ==
  ASSUME Types, HeldOK, CATableOK, LocksOK, HoldsOK, KnownOK, NEW p \in Askers, Issues(p), NEW l \in issued,
         l.obj = callers[p].obj, l.host = callers[p].host, l.signer = callers[p].ca.key
  PROVE  l \in dueLeaves \cup goneLeaves
<1>0. callers[p].at = "issue" /\ l.signer \in Nat
  BY Nothing DEF Issues, Types, IssuedType
<1>1. ~Lost(l)
  BY <1>0 DEF Lost, Asks
<1>2. ~Outdated(l)
  BY <1>0 DEF Outdated
<1>3. InTable(l) => l \in dueLeaves
  BY <1>0 DEF InTable, HoldsOK, isDue, mem
<1>4. ASSUME OnItsWay(l) PROVE FALSE
  <2>1. PICK q \in Askers : callers[q].at \in SavingSteps /\ callers[q].obj = l.obj /\ callers[q].new = l
    BY <1>4 DEF OnItsWay
  <2>2. callers[q].host = l.host
    BY <2>1 DEF HoldsOK
  <2>3. leafLock[l.obj][l.host] = q /\ leafLock[l.obj][l.host] = p
    BY <1>0, <2>1, <2>2 DEF LocksOK, Locked
  <2> QED
    BY <1>0, <2>1, <2>3 DEF SavingSteps
<1> QED
  BY <1>1, <1>2, <1>3, <1>4 DEF KnownOK

LEMMA OneStep ==
  ASSUME Types, HeldOK, CATableOK, LocksOK, HoldsOK, KnownOK, OnlyOneIssued, LocalCANext
  PROVE  OnlyOneIssued'
<1>h. Types /\ HeldOK /\ CATableOK /\ LocksOK /\ HoldsOK /\ KnownOK /\ OnlyOneIssued
  OBVIOUS
<1>1. dueLeaves \subseteq dueLeaves' /\ goneLeaves \subseteq goneLeaves'
  <2>1. ASSUME NEW p \in Askers, CallSteps(p) PROVE UNCHANGED <<dueLeaves, goneLeaves>>
    BY <1>h, <2>1, CallLeaves
  <2>2. ASSUME \/ CASteps \/ DeleteCA \/ CACrash \/ (\E h \in Hosts : RemoveLeaf(h)) \/ (\E l \in Leaves : LeafDue(l))
               \/ \E p \in Askers, h \in Hosts : Called(p, h)
        PROVE  dueLeaves \subseteq dueLeaves' /\ goneLeaves \subseteq goneLeaves'
    BY <2>2 DEF CASteps, MakeCAKey, MakeCACert, OpenCA, RenewReadKey, RenewReadCert, RenewCA, ReplaceCAKey, ReplaceCACert, UseCA,
       CheckDelete, leavesAlone, DeleteCA, CACrash, RemoveLeaf, LeafDue, Called, rest
  <2> QED
    BY <1>h, <2>1, <2>2, Cases
<1>2. issued' = issued \/ \E p \in Askers : Issues(p)
  <2>1. ASSUME NEW p \in Askers, CallSteps(p) PROVE issued' = issued \/ Issues(p)
    BY <2>1 DEF CallSteps, CAQuiet, Found, NotFound, CAKept, FoundDue, Forgotten, Loaded, NotLoaded, IssueRefused, CAStays, Saved,
       CAPublished, CAAnswers, rest
  <2>2. ASSUME \/ CASteps \/ DeleteCA \/ CACrash \/ (\E h \in Hosts : RemoveLeaf(h)) \/ (\E l \in Leaves : LeafDue(l))
               \/ \E p \in Askers, h \in Hosts : Called(p, h)
        PROVE  issued' = issued
    BY <2>2 DEF CASteps, MakeCAKey, MakeCACert, OpenCA, RenewReadKey, RenewReadCert, RenewCA, ReplaceCAKey, ReplaceCACert, UseCA,
       CheckDelete, leavesAlone, DeleteCA, CACrash, RemoveLeaf, LeafDue, Called, rest
  <2> QED
    BY <1>h, <2>1, <2>2, Cases
<1>3. CASE issued' = issued
  BY <1>h, <1>1, <1>3 DEF OnlyOneIssued
<1>4. ASSUME NEW p \in Askers, Issues(p) PROVE OnlyOneIssued'
  <2> DEFINE leaf == [serial |-> Cardinality(issued) + 1, signer |-> callers[p].ca.key, host |-> callers[p].host,
                      obj |-> callers[p].obj]
  <2>1. issued' = issued \cup {leaf}
    BY <1>h, <1>4, Fresh
  <2>2. Cardinality(issued) \in Nat
    BY <1>h, FS_CardinalityType DEF Types, IssuedType
  <2>3. /\ leaf.serial = Cardinality(issued) + 1 /\ leaf.obj = callers[p].obj /\ leaf.host = callers[p].host
        /\ leaf.signer = callers[p].ca.key
    OBVIOUS
  <2> HIDE DEF leaf
  <2>4. \A m \in issued : m.serial \in Nat /\ m.serial <= Cardinality(issued)
    BY <1>h, Nothing DEF Types, IssuedType
  <2> SUFFICES ASSUME NEW l \in issued', NEW m \in issued', l.obj = m.obj, l.host = m.host, l.signer = m.signer,
                      l.serial < m.serial
               PROVE  l \in dueLeaves' \cup goneLeaves'
    BY DEF OnlyOneIssued
  <2>5. l \in issued
    <3>1. SUFFICES ASSUME l = leaf PROVE FALSE
      BY <2>1
    <3>2. CASE m = leaf
      BY <2>2, <2>3, <3>1, <3>2
    <3>3. CASE m \in issued
      BY <2>2, <2>3, <2>4, <3>1, <3>3
    <3> QED
      BY <2>1, <3>2, <3>3
  <2>6. CASE m \in issued
    BY <1>h, <1>1, <2>5, <2>6 DEF OnlyOneIssued
  <2>7. CASE m = leaf
    BY <1>h, <1>1, <1>4, <2>3, <2>5, <2>7, FirstOnly
  <2> QED
    BY <2>1, <2>6, <2>7
<1> QED
  BY <1>2, <1>3, <1>4

-----------------------------------------------------------------------------
(* The theorems *)

LEMMA CAInitIInv ==
  ASSUME LocalCAInit
  PROVE  CAIInv
<1>f. FilesType
  <2>1. caFiles \in [key : {NoneYet} \cup 1..MaxCAKeys, cert : {NoneYet} \cup CACerts]
    BY Rests DEF LocalCAInit
  <2>2. caKeys \in 0..MaxCAKeys /\ 0 \in 0..MaxOpens
    BY LocalCAAssumption DEF LocalCAInit
  <2>3. caStep \in CASteppings
    BY Rests DEF LocalCAInit
  <2> QED
    BY <2>1, <2>2, <2>3 DEF LocalCAInit, FilesType
<1>m. MemType /\ LocksType /\ \A o \in Opens, h \in Hosts : leafMem[o][h] = NoneYet
  BY DEF LocalCAInit, MemType, LocksType
<1>d. DiskType /\ \A h \in Hosts : leafDisk[h].cert = NoneYet
  BY Rests DEF LocalCAInit, DiskType, NoFolder
<1>i. issued = {} /\ dueLeaves = {} /\ goneLeaves = {} /\ IssuedType
  BY FS_EmptySet DEF LocalCAInit, IssuedType
<1>c. CACallersType /\ \A p \in Askers : callers[p].at = "idle" /\ callers[p].gone = {}
  BY Rests DEF LocalCAInit, CACallersType
<1>u. \A o \in Opens : ~Held(o) /\ \A p \in Askers : ~Asks(p, o)
  BY <1>m, <1>c DEF Held, Asks
<1>1. FilesOK
  BY DEF LocalCAInit, FilesOK, NoFolder, AtRest
<1>2. HeldOK /\ DeadOK
  BY <1>u DEF HeldOK, DeadOK
<1>3. CATableOK
  BY <1>m, <1>d DEF CATableOK
<1>4. LocksOK /\ HoldsOK
  BY <1>c DEF LocksOK, HoldsOK, Locked, SavingSteps
<1>5. KnownOK /\ LeavesAreRight
  BY <1>c, <1>i DEF KnownOK, LeavesAreRight, GivenLeafIsGood, OnlyOneIssued
<1> QED
  BY <1>f, <1>m, <1>d, <1>i, <1>c, <1>1, <1>2, <1>3, <1>4, <1>5 DEF CAIInv, Types

LEMMA CANextIInv ==
  ASSUME CAIInv, LocalCANext
  PROVE  CAIInv'
<1>1. Types /\ FilesOK /\ HeldOK /\ DeadOK /\ CATableOK /\ LocksOK /\ HoldsOK /\ KnownOK /\ LeavesAreRight
  BY DEF CAIInv
<1>2. FilesType' /\ MemType' /\ DiskType' /\ LocksType' /\ IssuedType' /\ CACallersType'
  BY <1>1, FilesTypeStep, MemTypeStep, DiskTypeStep, LocksTypeStep, IssuedTypeStep, CallersTypeStep DEF Types
<1>3. Types'
  BY <1>2 DEF Types
<1>4. FilesOK' /\ HeldOK' /\ DeadOK'
  BY <1>1, FilesOKStep, HeldStep, DeadStep
<1>5. CATableOK' /\ LocksOK' /\ HoldsOK' /\ KnownOK'
  BY <1>1, TableStep, LocksStep, HoldsStep, KnownStep
<1>6. LeavesAreRight'
  BY <1>1, GivenStep, OneStep DEF LeavesAreRight
<1> QED
  BY <1>3, <1>4, <1>5, <1>6 DEF CAIInv

LEMMA Stutters ==
  ASSUME CAIInv, UNCHANGED caVars
  PROVE  CAIInv'
<1>1. /\ UNCHANGED <<caFiles, caKeys, caStep, caInUse, opens, caStates>> /\ UNCHANGED <<leafMem, leafLock, leafDisk>>
      /\ UNCHANGED <<callers, issued, dueLeaves, goneLeaves>>
  BY DEF caVars
<1>2. Opens' = Opens /\ CACerts' = CACerts /\ Leaves' = Leaves /\ Call' = Call
  BY DEF Opens, CACerts, Leaves, Call
<1>3. FilesType' /\ MemType' /\ DiskType' /\ LocksType' /\ IssuedType' /\ CACallersType'
  BY <1>1, <1>2 DEF CAIInv, Types, FilesType, MemType, DiskType, LocksType, IssuedType, CACallersType, Under, Saves
<1>4. FilesOK' /\ HeldOK' /\ DeadOK'
  BY <1>1, <1>2 DEF CAIInv, FilesOK, HeldOK, DeadOK, Older, Held, Asks
<1>5. CATableOK' /\ LocksOK' /\ HoldsOK'
  BY <1>1, <1>2 DEF CAIInv, CATableOK, LocksOK, HoldsOK, mem, isDue
<1>6. KnownOK'
  BY <1>1 DEF CAIInv, KnownOK, Lost, InTable, OnItsWay, Outdated, Asks
<1>7. LeavesAreRight'
  BY <1>1 DEF CAIInv, LeavesAreRight, GivenLeafIsGood, OnlyOneIssued
<1> QED
  BY <1>3, <1>4, <1>5, <1>6, <1>7 DEF CAIInv, Types

LEMMA CAInductive ==
  LocalCAInit /\ [][LocalCANext]_caVars => []CAIInv
<1>1. LocalCAInit => CAIInv
  BY CAInitIInv
<1>2. CAIInv /\ [LocalCANext]_caVars => CAIInv'
  BY CANextIInv, Stutters
<1> QED
  BY <1>1, <1>2, PTL

LEMMA CASafe ==
  LocalCAInit /\ [][LocalCANext]_caVars => [](LocalCATypeOK /\ LeavesAreRight)
<1>1. CAIInv => LocalCATypeOK
  BY DEF CAIInv, Types, FilesType, MemType, DiskType, LocksType, IssuedType, LocalCATypeOK,
     CASteppings
<1>2. CAIInv => LeavesAreRight
  BY DEF CAIInv
<1> QED
  BY <1>1, <1>2, CAInductive, PTL

\* The variables have their types: in particular no certificate is issued for a
\* host, by a key or by an open CA that there is not, and only issued ones are
\* due or removed.
THEOREM LocalCATypesHold == LocalCASpec => []LocalCATypeOK
  BY CASafe, PTL DEF LocalCASpec

\* What a handshake is given was signed with the key of the CA it was checked
\* against, is for the name it asked for and was not removed before it asked;
\* and one open CA issues a second certificate for a name only when the first
\* was due, removed or of another key, whatever is renewed, replaced by hand,
\* deleted or crashes in between (certificate in localca.go).
THEOREM LocalCALeavesAreRight == LocalCASpec => []LeavesAreRight
  BY CASafe, PTL DEF LocalCASpec
==============================================================================
