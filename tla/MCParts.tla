------------------------------- MODULE MCParts -------------------------------
(***************************************************************************)
(* Instances for TLC of the components that keep their state to            *)
(* themselves: each behaviour is one of them, chosen at the start, and the *)
(* others do nothing.  Parts.cfg has the larger instances, for safety;     *)
(* Progress.cfg the smaller ones, for liveness.                            *)
(***************************************************************************)
EXTENDS Dialer, Limiter, BufferPool, Listeners, Serve, FlowLog, Logging, LogFile,
        SignIn, LocalCA, CaSettings, RuleTable, ConfigSaves, ConsoleTabs

CONSTANTS Parts,  \* the components that run
          v4, v6

ComponentNames == {"dial", "limit", "pool", "ports", "serve", "flow", "log", "file",
                   "signin", "ca", "settings", "rules", "saves", "tabs"}
ASSUME PartsAssumption == Parts \subseteq ComponentNames

VARIABLE part

trafficVars == <<dialVars, limitVars, poolVars, listenerVars, serveVars, flowVars, loggingVars, logFileVars>>
consoleVars == <<signInVars, caVars, settingsVars, ruleVars, saveVars, tabVars>>
partsVars == <<part, trafficVars, consoleVars>>

\* A component that does not run is at rest in one of its states.
ConsoleOnly == [listeners |-> <<>>, groups |-> <<>>, auths |-> <<>>, redirect |-> FALSE]
pick(S) == CHOOSE x \in S : TRUE
OthersFixed ==
  /\ IF part = "serve" THEN TRUE ELSE confs = [g \in Gens |-> pick({c \in ServeConfigs : c.serves})] /\ folder = FALSE
  /\ IF part = "ports" THEN TRUE ELSE stored = pick(PortConfigs) /\ taken = {}
  /\ IF part = "limit" THEN TRUE ELSE rate = [s \in Scopes |-> pick(Rates)]
  /\ IF part = "signin" THEN TRUE ELSE oidcConf = pick(OidcConfigs)
  /\ IF part = "rules" THEN TRUE ELSE text = ConsoleOnly
DialRests ==
  /\ dnsCache = [addrs |-> NoAddrs, fresh |-> FALSE] /\ run = [f \in Families |-> NewRun]
  /\ dial = [NewDial EXCEPT !.pc = "done", !.result = "error", !.firstErr = "lookup"]
SettingsRest ==
  /\ setFile = [text |-> DefaultText, mtime |-> 1] /\ setUse = [defaults(FALSE) EXCEPT !.mtime = 1] /\ setOld = FALSE
  /\ setLoad = NoLoad /\ setSave = NoText /\ setEdits = 0 /\ setFaults = 0
SavesRest ==
  LET plain == Text({}, TRUE, NoFile) IN
  /\ disk = [text |-> plain, mtime |-> 1, by |-> "outside"] /\ creds = {} /\ runningText = plain
  /\ watcher = [tick |-> FALSE, at |-> "waiting", reply |-> NoTab, read |-> plain, last |-> plain]
  /\ loaded = [t \in SavingPages |-> <<>>] /\ req = [t \in SavingPages |-> noReq] /\ fileMu = NoTab
  /\ backups = <<>> /\ reloadNow = <<>> /\ spent = [writes |-> 1, outside |-> 0, faults |-> 0]

PartsInit ==
  /\ part \in Parts /\ OthersFixed
  /\ LimitInit /\ PoolInit /\ ListenersInit /\ ServeInit /\ FlowInit /\ LoggingInit /\ LogFileInit
  /\ SignInInit /\ LocalCAInit /\ RuleTableInit /\ ConsoleTabsInit
  /\ IF part = "dial" THEN DialInit ELSE DialRests
  /\ IF part = "settings" THEN SettingsInit ELSE SettingsRest
  /\ IF part = "saves" THEN ConfigSavesInit ELSE SavesRest

TrafficNext ==
  \/ part = "dial" /\ DialNext
     /\ UNCHANGED <<limitVars, poolVars, listenerVars, serveVars, flowVars, loggingVars, logFileVars>>
  \/ part = "limit" /\ LimitNext
     /\ UNCHANGED <<dialVars, poolVars, listenerVars, serveVars, flowVars, loggingVars, logFileVars>>
  \/ part = "pool" /\ PoolNext
     /\ UNCHANGED <<dialVars, limitVars, listenerVars, serveVars, flowVars, loggingVars, logFileVars>>
  \/ part = "ports" /\ ListenersNext
     /\ UNCHANGED <<dialVars, limitVars, poolVars, serveVars, flowVars, loggingVars, logFileVars>>
  \/ part = "serve" /\ ServeNext
     /\ UNCHANGED <<dialVars, limitVars, poolVars, listenerVars, flowVars, loggingVars, logFileVars>>
  \/ part = "flow" /\ FlowNext
     /\ UNCHANGED <<dialVars, limitVars, poolVars, listenerVars, serveVars, loggingVars, logFileVars>>
  \/ part = "log" /\ LoggingNext
     /\ UNCHANGED <<dialVars, limitVars, poolVars, listenerVars, serveVars, flowVars, logFileVars>>
  \/ part = "file" /\ LogFileNext
     /\ UNCHANGED <<dialVars, limitVars, poolVars, listenerVars, serveVars, flowVars, loggingVars>>
ConsoleNext ==
  \/ part = "signin" /\ SignInNext /\ UNCHANGED <<caVars, settingsVars, ruleVars, saveVars, tabVars>>
  \/ part = "ca" /\ LocalCANext /\ UNCHANGED <<signInVars, settingsVars, ruleVars, saveVars, tabVars>>
  \/ part = "settings" /\ SettingsNext /\ UNCHANGED <<signInVars, caVars, ruleVars, saveVars, tabVars>>
  \/ part = "rules" /\ RuleTableNext /\ UNCHANGED <<signInVars, caVars, settingsVars, saveVars, tabVars>>
  \/ part = "saves" /\ ConfigSavesNext /\ UNCHANGED <<signInVars, caVars, settingsVars, ruleVars, tabVars>>
  \/ part = "tabs" /\ ConsoleTabsNext /\ UNCHANGED <<signInVars, caVars, settingsVars, ruleVars, saveVars>>
PartsNext == \/ TrafficNext /\ UNCHANGED <<part, consoleVars>>
             \/ ConsoleNext /\ UNCHANGED <<part, trafficVars>>

PartsSpec == PartsInit /\ [][PartsNext]_partsVars
\* The components' own fairness, each where it runs.
FairPartsSpec ==
  /\ PartsSpec
  /\ WF_dialVars(part = "dial" /\ Dialling) /\ WF_dialVars(part = "dial" /\ LagTick)
  /\ \A f \in Families : WF_dialVars(part = "dial" /\ Goroutine(f))
  /\ \A c \in Served : WF_serveVars(part = "serve" /\ ConnRuns(c)) /\ SF_serveVars(part = "serve" /\ RequestRuns(c))
  /\ WF_serveVars(part = "serve" /\ ReloadRuns) /\ \A g \in Gens : WF_serveVars(part = "serve" /\ CloseState(g))
  /\ \A c \in Flows : WF_flowVars(part = "flow" /\ FlowRuns(c)) /\ WF_flowVars(part = "flow" /\ Ages(c))
  /\ WF_flowVars(part = "flow" /\ Snapshot) /\ WF_flowVars(part = "flow" /\ Streaming)
  /\ \A c \in Callers : WF_loggingVars(part = "log" /\ Logs(c))
  /\ WF_loggingVars(part = "log" /\ (Flushing \/ FlushTick))
  /\ \A t \in Tabs : WF_signInVars(part = "signin" /\ TabRuns(t))
  /\ \A p \in Askers : SF_caVars(part = "ca" /\ CallerRuns(p))
  /\ WF_settingsVars(part = "settings" /\ LoadSettings) /\ WF_settingsVars(part = "settings" /\ WriteSave)
  /\ \A t \in SavingPages : WF_saveVars(part = "saves" /\ Saving(t))
  /\ WF_saveVars(part = "saves" /\ Watch)
  /\ \A p \in Pages : /\ WF_tabVars(part = "tabs" /\ LoginEnd(p)) /\ WF_tabVars(part = "tabs" /\ CutOff(p))
                      /\ WF_tabVars(part = "tabs" /\ SocketRuns(p))
  /\ WF_tabVars(part = "tabs" /\ Broadcasts)

-----------------------------------------------------------------------------
(* Properties: the components' own, by what they are about *)

\* The invariants of the component that runs, each stated in its module.
PartsHold ==
  CASE part = "dial" -> DialTypeOK /\ DialIsRight
    [] part = "limit" -> LimitTypeOK /\ WithinRate
    [] part = "pool" -> PoolTypeOK /\ ExcessIsOverlap
    [] part = "ports" -> ListenersTypeOK /\ PortsFollowConfig
    [] part = "serve" -> ServeTypeOK /\ ServedIsCurrent
    [] part = "flow" -> FlowTypeOK /\ ClosedIsClosed
    [] part = "log" -> LoggingTypeOK /\ LinesAccounted
    [] part = "file" -> LogFileTypeOK /\ GenerationsInOrder
    [] part = "signin" -> SignInTypeOK /\ SessionIsTheAnswer
    [] part = "ca" -> LocalCATypeOK /\ LeavesAreRight
    [] part = "settings" -> SettingsTypeOK /\ SettingsAreTheFiles
    [] part = "rules" -> RuleTableTypeOK
    [] part = "saves" -> ConfigSavesTypeOK /\ CredentialIsThere
    [] part = "tabs" -> ConsoleTabsTypeOK /\ GuessesAreMetered

\* RoutingIsRight, of the states where the rules are edited.
RulesRouteRight == part = "rules" => RoutingIsRight

\* What was logged keeps its order on its way out (logx.go), on disk
\* (rotate.go) and on the page of connections (flows.go, app.js).
LogsKeepOrder == InRingOrder /\ LinesOnlyFallOff /\ CardsOnlyAdvance

\* What one console page saved, the next save does not undo, neither by
\* overwriting it nor by editing more than it says.
EditsKeepWork == EditsTouchOneItem /\ SavesBuildOnSaves /\ ReplacedIsKept

\* Connecting, serving, logging, showing connections, signing in, getting a
\* certificate of a local CA, settling on its settings, saving the
\* configuration and following the state: each comes to an end.
PartsProgress ==
  /\ DialsEnd /\ HandOverEnds /\ LinesComeOut /\ EndedIsShown /\ SignInEnds
  /\ CertificateCallsEnd /\ SettingsSettle /\ SavesSettle /\ PagesFollow

-----------------------------------------------------------------------------
(* Constants *)

MCAddrLists == {<<>>, <<v4>>, <<v6, v4>>, <<v4, v4, v6>>}

listenAt(n, a) == [name |-> n, addr |-> a]
MCPortConfigs ==
  {<<listenAt("A", "x")>>, <<listenAt("A", "x"), listenAt("B", "y")>>, <<listenAt("A", "y"), listenAt("B", "x")>>,
   <<listenAt("B", "x")>>, <<listenAt("A", "y")>>}

served(n, s, h, d) == [name |-> n, serves |-> s, hash |-> h, disabled |-> d]
MCServeConfigs == {served("A", TRUE, "p", FALSE), served("B", TRUE, "q", FALSE),
                   served("A", TRUE, "p", TRUE), served("A", FALSE, "p", FALSE)}

guard(o, m, gs) == [oidc |-> o, mfa |-> m, groups |-> gs]
onPaths(open, admin) == [p \in Paths |-> IF p = "open" THEN open ELSE admin]
MCOidcConfigs ==
  {[bind |-> 1, guard |-> onPaths(guard(TRUE, FALSE, {}), guard(TRUE, TRUE, {"g"}))],
   [bind |-> 2, guard |-> onPaths(guard(FALSE, FALSE, {}), guard(TRUE, FALSE, {"g"}))],
   [bind |-> 1, guard |-> onPaths(guard(FALSE, FALSE, {}), guard(FALSE, FALSE, {}))]}

MCDomains == {<<"$no_sni">>, <<"$anything_else">>, <<"a", "x">>, <<"*", "x">>, <<"a*", "x">>}
MCSnis == {<<>>, <<"a", "x">>, <<"ab", "x">>, <<"c", "x">>, <<"c">>}
MCGlobs == [l \in {"*", "a*"} |-> IF l = "*" THEN {"a", "ab", "c", "x"} ELSE {"a", "ab"}]
MCChars == [l \in {"$no_sni", "$anything_else", "a", "c", "x", "*", "a*"} |-> IF l = "*" THEN 0 ELSE 1]
MCConsoleDomain == <<"c", "x">>
listener(n, b, p) == [name |-> n, binds |-> b, port |-> p]
rule(d, t, a) == [listener |-> "", domain |-> d, target |-> t, auth |-> a]
routes(l, rs) == [listener |-> l, rules |-> rs, null |-> rs = <<>>]
MCFirstTexts ==
  {ConsoleOnly,
   [listeners |-> <<listener("A", {}, 443)>>,
    groups |-> <<routes("A", <<rule(<<"*", "x">>, "t1", "g")>>)>>,
    auths |-> <<[name |-> "g", users |-> {"u"}]>>, redirect |-> TRUE],
   [listeners |-> <<listener("$console", {}, 0), listener("A", {"ip"}, 443)>>,
    groups |-> <<routes("A", <<rule(<<"a*", "x">>, "t1", "")>>), routes("$console", <<rule(<<"*", "x">>, "t2", "")>>),
                 routes("A", <<rule(<<"$anything_else">>, "t3", "")>>), routes("B", <<>>)>>,
    auths |-> <<>>, redirect |-> FALSE]}
=============================================================================
