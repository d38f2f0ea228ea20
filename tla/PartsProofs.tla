----------------------------- MODULE PartsProofs -----------------------------
(***************************************************************************)
(* Proofs about the components side by side, as MCParts runs them.  A      *)
(* behaviour of PartsSpec is one of the component that runs (OnlyOneRuns,  *)
(* Runs): its own start, then its own steps, which leave the others alone. *)
(* What the component's module proves of it then holds of the behaviour.   *)
(***************************************************************************)
EXTENDS MCParts, ServingProofs, ConsoleProofs, TrafficProofs

-----------------------------------------------------------------------------
(* Which component runs *)

LEMMA TrafficRuns ==
  ASSUME TrafficNext
  PROVE  /\ part \in {"dial", "limit", "pool", "ports", "serve", "flow", "log", "file"}
         /\ part = "dial" => DialNext
         /\ part = "limit" => LimitNext
         /\ part = "pool" => PoolNext
         /\ part = "ports" => ListenersNext
         /\ part = "serve" => ServeNext
         /\ part = "flow" => FlowNext
         /\ part = "log" => LoggingNext
         /\ part = "file" => LogFileNext
  BY DEF TrafficNext

LEMMA ConsoleRuns ==
  ASSUME ConsoleNext
  PROVE  /\ part \in {"signin", "ca", "settings", "rules", "saves", "tabs"}
         /\ part = "signin" => SignInNext
         /\ part = "ca" => LocalCANext
         /\ part = "settings" => SettingsNext
         /\ part = "rules" => RuleTableNext
         /\ part = "saves" => ConfigSavesNext
         /\ part = "tabs" => ConsoleTabsNext
  BY DEF ConsoleNext

\* A step is one of the component that runs, and it goes on running.
LEMMA OneRuns ==
  ASSUME [PartsNext]_partsVars
  PROVE  /\ part' = part
         /\ part = "dial" => [DialNext]_dialVars
         /\ part = "limit" => [LimitNext]_limitVars
         /\ part = "pool" => [PoolNext]_poolVars
         /\ part = "ports" => [ListenersNext]_listenerVars
         /\ part = "serve" => [ServeNext]_serveVars
         /\ part = "flow" => [FlowNext]_flowVars
         /\ part = "log" => [LoggingNext]_loggingVars
         /\ part = "file" => [LogFileNext]_logFileVars
         /\ part = "signin" => [SignInNext]_signInVars
         /\ part = "ca" => [LocalCANext]_caVars
         /\ part = "settings" => [SettingsNext]_settingsVars
         /\ part = "rules" => [RuleTableNext]_ruleVars
         /\ part = "saves" => [ConfigSavesNext]_saveVars
         /\ part = "tabs" => [ConsoleTabsNext]_tabVars
<1>1. CASE UNCHANGED partsVars
  BY <1>1 DEF partsVars, trafficVars, consoleVars
<1>2. CASE TrafficNext /\ UNCHANGED <<part, consoleVars>>
  BY <1>2, TrafficRuns
<1>3. CASE ConsoleNext /\ UNCHANGED <<part, trafficVars>>
  BY <1>3, ConsoleRuns
<1> QED
  BY <1>1, <1>2, <1>3 DEF PartsNext

\* A component that does not run changes nothing.
LEMMA OthersRest ==
  ASSUME [PartsNext]_partsVars
  PROVE  /\ ~(part = "log") => UNCHANGED loggingVars
         /\ ~(part = "file") => UNCHANGED logFileVars
         /\ ~(part = "flow") => UNCHANGED flowVars
         /\ ~(part = "rules") => UNCHANGED ruleVars
         /\ ~(part = "saves") => UNCHANGED saveVars
<1>1. CASE UNCHANGED partsVars
  BY <1>1 DEF partsVars, trafficVars, consoleVars
<1>2. CASE TrafficNext /\ UNCHANGED <<part, consoleVars>>
  BY <1>2 DEF TrafficNext, consoleVars
<1>3. CASE ConsoleNext /\ UNCHANGED <<part, trafficVars>>
  BY <1>3 DEF ConsoleNext, trafficVars
<1> QED
  BY <1>1, <1>2, <1>3 DEF PartsNext

-----------------------------------------------------------------------------
(* A behaviour is one of the component that runs *)

LEMMA OneStarts ==
  ASSUME PartsInit
  PROVE  /\ part \in Parts
         /\ part = "dial" => DialInit
         /\ part = "limit" => LimitInit
         /\ part = "pool" => PoolInit
         /\ part = "ports" => ListenersInit
         /\ part = "serve" => ServeInit
         /\ part = "flow" => FlowInit
         /\ part = "log" => LoggingInit
         /\ part = "file" => LogFileInit
         /\ part = "signin" => SignInInit
         /\ part = "ca" => LocalCAInit
         /\ part = "settings" => SettingsInit
         /\ part = "rules" => RuleTableInit
         /\ part = "saves" => ConfigSavesInit
         /\ part = "tabs" => ConsoleTabsInit
  BY DEF PartsInit

\* The behaviours of PartsSpec in which a component runs are its own.
LEMMA Behaviours ==
  PartsSpec =>
    /\ part = "dial" => [](part = "dial") /\ DialInit /\ [][DialNext]_dialVars
    /\ part = "limit" => [](part = "limit") /\ LimitInit /\ [][LimitNext]_limitVars
    /\ part = "pool" => [](part = "pool") /\ PoolInit /\ [][PoolNext]_poolVars
    /\ part = "ports" => [](part = "ports") /\ ListenersInit /\ [][ListenersNext]_listenerVars
    /\ part = "serve" => [](part = "serve") /\ ServeInit /\ [][ServeNext]_serveVars
    /\ part = "flow" => [](part = "flow") /\ FlowInit /\ [][FlowNext]_flowVars
    /\ part = "log" => [](part = "log") /\ LoggingInit /\ [][LoggingNext]_loggingVars
    /\ part = "file" => [](part = "file") /\ LogFileInit /\ [][LogFileNext]_logFileVars
    /\ part = "signin" => [](part = "signin") /\ SignInInit /\ [][SignInNext]_signInVars
    /\ part = "ca" => [](part = "ca") /\ LocalCAInit /\ [][LocalCANext]_caVars
    /\ part = "settings" => [](part = "settings") /\ SettingsInit /\ [][SettingsNext]_settingsVars
    /\ part = "rules" => [](part = "rules") /\ RuleTableInit /\ [][RuleTableNext]_ruleVars
    /\ part = "saves" => [](part = "saves") /\ ConfigSavesInit /\ [][ConfigSavesNext]_saveVars
    /\ part = "tabs" => [](part = "tabs") /\ ConsoleTabsInit /\ [][ConsoleTabsNext]_tabVars
<1>1. PartsSpec /\ part = "dial" => [](part = "dial") /\ DialInit /\ [][DialNext]_dialVars
  <2>1. PartsInit /\ part = "dial" => DialInit
    BY OneStarts
  <2>2. part = "dial" /\ [PartsNext]_partsVars => (part = "dial")' /\ [DialNext]_dialVars
    BY OneRuns
  <2> QED
    BY <2>1, <2>2, PTL DEF PartsSpec
<1>2. PartsSpec /\ part = "limit" => [](part = "limit") /\ LimitInit /\ [][LimitNext]_limitVars
  <2>1. PartsInit /\ part = "limit" => LimitInit
    BY OneStarts
  <2>2. part = "limit" /\ [PartsNext]_partsVars => (part = "limit")' /\ [LimitNext]_limitVars
    BY OneRuns
  <2> QED
    BY <2>1, <2>2, PTL DEF PartsSpec
<1>3. PartsSpec /\ part = "pool" => [](part = "pool") /\ PoolInit /\ [][PoolNext]_poolVars
  <2>1. PartsInit /\ part = "pool" => PoolInit
    BY OneStarts
  <2>2. part = "pool" /\ [PartsNext]_partsVars => (part = "pool")' /\ [PoolNext]_poolVars
    BY OneRuns
  <2> QED
    BY <2>1, <2>2, PTL DEF PartsSpec
<1>4. PartsSpec /\ part = "ports" => [](part = "ports") /\ ListenersInit /\ [][ListenersNext]_listenerVars
  <2>1. PartsInit /\ part = "ports" => ListenersInit
    BY OneStarts
  <2>2. part = "ports" /\ [PartsNext]_partsVars => (part = "ports")' /\ [ListenersNext]_listenerVars
    BY OneRuns
  <2> QED
    BY <2>1, <2>2, PTL DEF PartsSpec
<1>5. PartsSpec /\ part = "serve" => [](part = "serve") /\ ServeInit /\ [][ServeNext]_serveVars
  <2>1. PartsInit /\ part = "serve" => ServeInit
    BY OneStarts
  <2>2. part = "serve" /\ [PartsNext]_partsVars => (part = "serve")' /\ [ServeNext]_serveVars
    BY OneRuns
  <2> QED
    BY <2>1, <2>2, PTL DEF PartsSpec
<1>6. PartsSpec /\ part = "flow" => [](part = "flow") /\ FlowInit /\ [][FlowNext]_flowVars
  <2>1. PartsInit /\ part = "flow" => FlowInit
    BY OneStarts
  <2>2. part = "flow" /\ [PartsNext]_partsVars => (part = "flow")' /\ [FlowNext]_flowVars
    BY OneRuns
  <2> QED
    BY <2>1, <2>2, PTL DEF PartsSpec
<1>7. PartsSpec /\ part = "log" => [](part = "log") /\ LoggingInit /\ [][LoggingNext]_loggingVars
  <2>1. PartsInit /\ part = "log" => LoggingInit
    BY OneStarts
  <2>2. part = "log" /\ [PartsNext]_partsVars => (part = "log")' /\ [LoggingNext]_loggingVars
    BY OneRuns
  <2> QED
    BY <2>1, <2>2, PTL DEF PartsSpec
<1>8. PartsSpec /\ part = "file" => [](part = "file") /\ LogFileInit /\ [][LogFileNext]_logFileVars
  <2>1. PartsInit /\ part = "file" => LogFileInit
    BY OneStarts
  <2>2. part = "file" /\ [PartsNext]_partsVars => (part = "file")' /\ [LogFileNext]_logFileVars
    BY OneRuns
  <2> QED
    BY <2>1, <2>2, PTL DEF PartsSpec
<1>9. PartsSpec /\ part = "signin" => [](part = "signin") /\ SignInInit /\ [][SignInNext]_signInVars
  <2>1. PartsInit /\ part = "signin" => SignInInit
    BY OneStarts
  <2>2. part = "signin" /\ [PartsNext]_partsVars => (part = "signin")' /\ [SignInNext]_signInVars
    BY OneRuns
  <2> QED
    BY <2>1, <2>2, PTL DEF PartsSpec
<1>10. PartsSpec /\ part = "ca" => [](part = "ca") /\ LocalCAInit /\ [][LocalCANext]_caVars
  <2>1. PartsInit /\ part = "ca" => LocalCAInit
    BY OneStarts
  <2>2. part = "ca" /\ [PartsNext]_partsVars => (part = "ca")' /\ [LocalCANext]_caVars
    BY OneRuns
  <2> QED
    BY <2>1, <2>2, PTL DEF PartsSpec
<1>11. PartsSpec /\ part = "settings" => [](part = "settings") /\ SettingsInit /\ [][SettingsNext]_settingsVars
  <2>1. PartsInit /\ part = "settings" => SettingsInit
    BY OneStarts
  <2>2. part = "settings" /\ [PartsNext]_partsVars => (part = "settings")' /\ [SettingsNext]_settingsVars
    BY OneRuns
  <2> QED
    BY <2>1, <2>2, PTL DEF PartsSpec
<1>12. PartsSpec /\ part = "rules" => [](part = "rules") /\ RuleTableInit /\ [][RuleTableNext]_ruleVars
  <2>1. PartsInit /\ part = "rules" => RuleTableInit
    BY OneStarts
  <2>2. part = "rules" /\ [PartsNext]_partsVars => (part = "rules")' /\ [RuleTableNext]_ruleVars
    BY OneRuns
  <2> QED
    BY <2>1, <2>2, PTL DEF PartsSpec
<1>13. PartsSpec /\ part = "saves" => [](part = "saves") /\ ConfigSavesInit /\ [][ConfigSavesNext]_saveVars
  <2>1. PartsInit /\ part = "saves" => ConfigSavesInit
    BY OneStarts
  <2>2. part = "saves" /\ [PartsNext]_partsVars => (part = "saves")' /\ [ConfigSavesNext]_saveVars
    BY OneRuns
  <2> QED
    BY <2>1, <2>2, PTL DEF PartsSpec
<1>14. PartsSpec /\ part = "tabs" => [](part = "tabs") /\ ConsoleTabsInit /\ [][ConsoleTabsNext]_tabVars
  <2>1. PartsInit /\ part = "tabs" => ConsoleTabsInit
    BY OneStarts
  <2>2. part = "tabs" /\ [PartsNext]_partsVars => (part = "tabs")' /\ [ConsoleTabsNext]_tabVars
    BY OneRuns
  <2> QED
    BY <2>1, <2>2, PTL DEF PartsSpec
<1> QED
  BY <1>1, <1>2, <1>3, <1>4, <1>5, <1>6, <1>7, <1>8, <1>9, <1>10, <1>11, <1>12, <1>13, <1>14

-----------------------------------------------------------------------------
(* The theorems *)

\* What each component's module promises of its state holds wherever it runs:
\* its variables have their types and its own invariant holds.
THEOREM PartsStayRight == PartsSpec => []PartsHold
<1>1. PartsSpec /\ part = "dial" => []PartsHold
  <2>1. part = "dial" /\ DialTypeOK /\ DialIsRight => PartsHold
    BY DEF PartsHold
  <2> QED
    BY <2>1, Behaviours, DialSafe, PTL
<1>2. PartsSpec /\ part = "limit" => []PartsHold
  <2>1. part = "limit" /\ LimitTypeOK /\ WithinRate => PartsHold
    BY DEF PartsHold
  <2> QED
    BY <2>1, Behaviours, LimitTypesHold, ChargesKeepRate, PTL DEF LimitSpec
<1>3. PartsSpec /\ part = "pool" => []PartsHold
  <2>1. part = "pool" /\ PoolTypeOK /\ ExcessIsOverlap => PartsHold
    BY DEF PartsHold
  <2> QED
    BY <2>1, Behaviours, ExcessStaysOverlap, PTL DEF PoolSpec
<1>4. PartsSpec /\ part = "ports" => []PartsHold
  <2>1. part = "ports" /\ ListenersTypeOK /\ PortsFollowConfig => PartsHold
    BY DEF PartsHold
  <2> QED
    BY <2>1, Behaviours, PortsAreTheConfig, PTL DEF ListenersSpec
<1>5. PartsSpec /\ part = "serve" => []PartsHold
  <2>1. part = "serve" /\ ServeTypeOK /\ ServedIsCurrent => PartsHold
    BY DEF PartsHold
  <2> QED
    BY <2>1, Behaviours, ServeSafe, PTL
<1>6. PartsSpec /\ part = "flow" => []PartsHold
  <2>1. part = "flow" /\ FlowTypeOK /\ ClosedIsClosed => PartsHold
    BY DEF PartsHold
  <2> QED
    BY <2>1, Behaviours, FlowSafe, PTL
<1>7. PartsSpec /\ part = "log" => []PartsHold
  <2>1. part = "log" /\ LoggingTypeOK /\ LinesAccounted => PartsHold
    BY DEF PartsHold
  <2> QED
    BY <2>1, Behaviours, LogSafe, PTL
<1>8. PartsSpec /\ part = "file" => []PartsHold
  <2>1. part = "file" /\ LogFileTypeOK /\ GenerationsInOrder => PartsHold
    BY DEF PartsHold
  <2> QED
    BY <2>1, Behaviours, GenerationsKeepOrder, PTL DEF LogFileSpec
<1>9. PartsSpec /\ part = "signin" => []PartsHold
  <2>1. part = "signin" /\ SignInTypeOK /\ SessionIsTheAnswer => PartsHold
    BY DEF PartsHold
  <2> QED
    BY <2>1, Behaviours, SignInSafe, SessionSafe, PTL
<1>10. PartsSpec /\ part = "ca" => []PartsHold
  <2>1. part = "ca" /\ LocalCATypeOK /\ LeavesAreRight => PartsHold
    BY DEF PartsHold
  <2> QED
    BY <2>1, Behaviours, CASafe, PTL
<1>11. PartsSpec /\ part = "settings" => []PartsHold
  <2>1. part = "settings" /\ SettingsTypeOK /\ SettingsAreTheFiles => PartsHold
    BY DEF PartsHold
  <2> QED
    BY <2>1, Behaviours, SettingsInductive, PTL DEF SettingsIInv
<1>12. PartsSpec /\ part = "rules" => []PartsHold
  <2>1. part = "rules" /\ RuleTableTypeOK => PartsHold
    BY DEF PartsHold
  <2> QED
    BY <2>1, Behaviours, RuleTableTypesHold, PTL DEF RuleTableSpec
<1>13. PartsSpec /\ part = "saves" => []PartsHold
  <2>1. part = "saves" /\ ConfigSavesTypeOK /\ CredentialIsThere => PartsHold
    BY DEF PartsHold
  <2> QED
    BY <2>1, Behaviours, SavesSafe, PTL
<1>14. PartsSpec /\ part = "tabs" => []PartsHold
  <2>1. part = "tabs" /\ ConsoleTabsTypeOK /\ GuessesAreMetered => PartsHold
    BY DEF PartsHold
  <2> QED
    BY <2>1, Behaviours, ViewersSafe, GuessesSafe, PTL
<1>15. PartsInit => part \in ComponentNames
  BY PartsAssumption DEF PartsInit
<1>16. part \in ComponentNames =>
         \/ part = "dial" \/ part = "limit" \/ part = "pool" \/ part = "ports" \/ part = "serve"
         \/ part = "flow" \/ part = "log" \/ part = "file"
         \/ part = "signin" \/ part = "ca" \/ part = "settings" \/ part = "rules" \/ part = "saves" \/ part = "tabs"
  BY DEF ComponentNames
<1> QED
  BY <1>1, <1>2, <1>3, <1>4, <1>5, <1>6, <1>7, <1>8, <1>9, <1>10, <1>11, <1>12, <1>13, <1>14, <1>15, <1>16,
     PTL DEF PartsSpec

\* Where the rules are edited, a name goes to the most specific rule of its
\* listener that matches and runs, the first of them in the console's list, and
\* the console is reached (RouteExcept in config.go, ruleEdit in
\* console_rules.go).
THEOREM RulesKeepRouting == PartsSpec => []RulesRouteRight
<1>1. PartsSpec /\ part = "rules" => []RulesRouteRight
  <2>1. RoutingIsRight => RulesRouteRight
    BY DEF RulesRouteRight
  <2> QED
    BY <2>1, Behaviours, RoutingStaysRight, PTL DEF RuleTableSpec
<1>2. PartsSpec /\ ~(part = "rules") => []RulesRouteRight
  <2>1. ~(part = "rules") /\ [PartsNext]_partsVars => (~(part = "rules"))'
    BY OneRuns
  <2>2. ~(part = "rules") => RulesRouteRight
    BY DEF RulesRouteRight
  <2> QED
    BY <2>1, <2>2, PTL DEF PartsSpec
<1> QED
  BY <1>1, <1>2, PTL

\* What was logged keeps its order on its way to the destinations (logx.go), in
\* the generations of a file (rotate.go) and on the page of connections
\* (flows.go, app.js), for any number of callers, lines, sizes and connections.
THEOREM LogsStayInOrder == PartsSpec => LogsKeepOrder
<1>1. PartsSpec => InRingOrder
  <2>1. PartsSpec /\ part = "log" => InRingOrder
    BY Behaviours, PlaceKept, PTL
  <2>2. ~(part = "log") /\ [PartsNext]_partsVars => (~(part = "log"))' /\ UNCHANGED loggingVars
    BY OneRuns, OthersRest
  <2>3. PartsSpec /\ ~(part = "log") => InRingOrder
    BY <2>2, PTL DEF PartsSpec, InRingOrder
  <2> QED
    BY <2>1, <2>3, PTL
<1>2. PartsSpec => LinesOnlyFallOff
  <2>1. PartsSpec /\ part = "file" => LinesOnlyFallOff
    BY Behaviours, LinesFallOffLast, PTL DEF LogFileSpec
  <2>2. ~(part = "file") /\ [PartsNext]_partsVars => (~(part = "file"))' /\ UNCHANGED logFileVars
    BY OneRuns, OthersRest
  <2>3. PartsSpec /\ ~(part = "file") => LinesOnlyFallOff
    BY <2>2, PTL DEF PartsSpec, LinesOnlyFallOff
  <2> QED
    BY <2>1, <2>3, PTL
<1>3. PartsSpec => CardsOnlyAdvance
  <2>1. PartsSpec /\ part = "flow" => CardsOnlyAdvance
    BY Behaviours, CardsKept, PTL
  <2>2. ~(part = "flow") /\ [PartsNext]_partsVars => (~(part = "flow"))' /\ UNCHANGED flowVars
    BY OneRuns, OthersRest
  <2>3. PartsSpec /\ ~(part = "flow") => CardsOnlyAdvance
    BY <2>2, PTL DEF PartsSpec, CardsOnlyAdvance
  <2> QED
    BY <2>1, <2>3, PTL
<1> QED
  BY <1>1, <1>2, <1>3, PTL DEF LogsKeepOrder

\* An edit of the rules that is saved changes what it names and nothing else
\* (console_rules.go); a save of the file keeps what the saves before it put
\* there, and the text it overwrites is the newest backup (console_config.go).
THEOREM EditsAreKept == PartsSpec => EditsKeepWork
<1>1. PartsSpec => EditsTouchOneItem
  <2>1. PartsSpec /\ part = "rules" => EditsTouchOneItem
    BY Behaviours, EditsStaySmall, PTL DEF RuleTableSpec
  <2>2. ~(part = "rules") /\ [PartsNext]_partsVars => (~(part = "rules"))' /\ UNCHANGED ruleVars
    BY OneRuns, OthersRest
  <2>3. PartsSpec /\ ~(part = "rules") => EditsTouchOneItem
    BY <2>2, PTL DEF PartsSpec, EditsTouchOneItem
  <2> QED
    BY <2>1, <2>3, PTL
<1>2. PartsSpec => SavesBuildOnSaves
  <2>1. PartsSpec /\ part = "saves" => SavesBuildOnSaves
    BY Behaviours, SavesBuildSafe, PTL
  <2>2. ~(part = "saves") /\ [PartsNext]_partsVars => (~(part = "saves"))' /\ UNCHANGED saveVars
    BY OneRuns, OthersRest
  <2>3. PartsSpec /\ ~(part = "saves") => SavesBuildOnSaves
    BY <2>2, PTL DEF PartsSpec, SavesBuildOnSaves
  <2> QED
    BY <2>1, <2>3, PTL
<1>3. PartsSpec => ReplacedIsKept
  <2>1. PartsSpec /\ part = "saves" => ReplacedIsKept
    BY Behaviours, BackupsSafe, PTL
  <2>2. ~(part = "saves") /\ [PartsNext]_partsVars => (~(part = "saves"))' /\ UNCHANGED saveVars
    BY OneRuns, OthersRest
  <2>3. PartsSpec /\ ~(part = "saves") => ReplacedIsKept
    BY <2>2, PTL DEF PartsSpec, ReplacedIsKept
  <2> QED
    BY <2>1, <2>3, PTL
<1> QED
  BY <1>1, <1>2, <1>3, PTL DEF EditsKeepWork
==============================================================================
