------------------------------ MODULE RuleTable ------------------------------
(* config.yaml as the console edits it and as LoadConfig reads it: listeners, *)
(* the routes items with their rules, the basic_auth groups, and the          *)
(* console's own listener and rule merged in (config.go, console_config.go,   *)
(* sections.go, and the handlers of console_rules.go and console_auth.go).    *)
(*                                                                            *)
(* An edit names an item by its line; the file is the version the page        *)
(* loaded (see ConfigSaves), so a line is an index here.  It is applied to    *)
(* the tree, the result is loaded, and only a result that loads is saved.     *)
(* A host name is a sequence of labels; which labels a glob such as api-*     *)
(* matches is a constant.  What a rule does (target, deny, ...) is opaque.    *)
EXTENDS Naturals, Sequences, FiniteSets, SequencesExt

CONSTANTS
  Domains,       \* the domains a rule is given, as sequences of labels
  Snis,          \* the names clients send; <<>> is none
  Globs,         \* label with a star -> the labels it matches
  LabelChars,    \* label -> its literal characters
  Targets,       \* what rules do: tells them apart
  TableListeners, \* names a listener is given
  Addresses,     \* addresses a listener binds, AnyAddress among them
  AnyAddress,
  TextPorts,
  GroupNames,    \* names of basic_auth groups
  ConsoleDomain, \* the console's domain; NoSNI for a console without one
  ConsoleBinds,
  ConsolePort,
  FirstTexts,    \* the files the console may find
  MaxTextEdits,  \* bound: edits that change the file
  MaxStopped     \* bound: rules stopped at once

VARIABLES
  text,     \* the file: [listeners, groups, auths, redirect]
  stoppedRules,  \* the rules stopped from the console, by key
  did       \* the last edit that was saved

ruleVars == <<text, stoppedRules, did>>

\* What a file that parses is made of.
RuleEntries == [listener : TableListeners \cup {""}, domain : Domains, target : Targets, auth : GroupNames \cup {""}]
RouteItems == [listener : TableListeners, rules : Seq(RuleEntries), null : BOOLEAN]
ListenerEntries == [name : TableListeners, binds : SUBSET Addresses, port : TextPorts \cup {0}]
Texts == [listeners : Seq(ListenerEntries), groups : Seq(RouteItems),
          auths : Seq([name : GroupNames, users : {{"u"}}]), redirect : BOOLEAN]

NoSNI == <<"$no_sni">>
AnythingElse == <<"$anything_else">>
consoleAlias == "$console"
RedirectListenerName == "$redirect"

hasStar(label) == label \in DOMAIN Globs

\* The kinds in the order they are tried.
kindNone == 0
kindLiteral == 1
kindWildcard == 2
kindCatchAll == 3

\* classify: what kind of pattern a domain is; ** is not one.
classify(d) ==
  CASE d = NoSNI -> kindNone
    [] d = AnythingElse -> kindCatchAll
    [] \E i \in DOMAIN d : hasStar(d[i]) -> kindWildcard
    [] OTHER -> kindLiteral
isPattern(d) == d # <<>> /\ \A i \in DOMAIN d : d[i] # "**"

\* The literal characters of a wildcard, its dots included.
literalChars(d) ==
  LET upTo[i \in 0..Len(d)] == IF i = 0 THEN Len(d) - 1 ELSE upTo[i - 1] + LabelChars[d[i]]
  IN upTo[Len(d)]

\* The console's domain is a host name without stars, or none; every label
\* of a domain has its literal characters.
ASSUME RuleTableAssumption ==
  /\ FirstTexts \subseteq Texts
  /\ LabelChars \in [DOMAIN LabelChars -> Nat]
  /\ Domains \cup {ConsoleDomain} \subseteq Seq(DOMAIN LabelChars)
  /\ Snis \cup {ConsoleDomain} \subseteq Seq(STRING)
  /\ ConsoleDomain # <<>>
  /\ ConsoleDomain = NoSNI \/ classify(ConsoleDomain) = kindLiteral
  /\ "$no_sni" \notin DOMAIN Globs /\ "$anything_else" \notin DOMAIN Globs
  /\ "console" \notin Targets
  /\ MaxTextEdits \in Nat

\* A whole-name match: a * never crosses a dot.
matches(d, sni) ==
  CASE d = NoSNI -> sni = <<>>
    [] d = AnythingElse -> TRUE
    [] OTHER -> /\ Len(sni) = Len(d)
                /\ \A i \in DOMAIN d : sni[i] = d[i] \/ (hasStar(d[i]) /\ sni[i] \in Globs[d[i]])

(* ------------------------------ LoadConfig ------------------------------ *)

\* The rules in file order, each with its routes item's listener.
itemRules(item) == [k \in DOMAIN item.rules |-> [item.rules[k] EXCEPT !.listener = item.listener]]
rawRules(t) ==
  LET upTo[i \in 0..Len(t.groups)] == IF i = 0 THEN <<>> ELSE upTo[i - 1] \o itemRules(t.groups[i])
  IN upTo[Len(t.groups)]

\* Rules told apart by what they do, as those of a first file are.
apart(rs) == \A i, j \in DOMAIN rs : rs[i].target = rs[j].target => i = j
ASSUME FirstTextsAssumption == \A t \in FirstTexts : apart(rawRules(t))

consoleRule == [listener |-> consoleAlias, domain |-> ConsoleDomain, target |-> "console", auth |-> ""]
TableRules(t) == Append(rawRules(t), consoleRule)

\* The console's listener is the one the file lists by that name, without a
\* bind or port of its own, or a new one at the end.
isConsole(l) == l.name = consoleAlias
placedListener(l) ==
  CASE isConsole(l) -> [l EXCEPT !.binds = ConsoleBinds, !.port = ConsolePort]
    [] ~isConsole(l) /\ l.binds = {} -> [l EXCEPT !.binds = {AnyAddress}]  \* bind not given: 0.0.0.0
    [] OTHER -> l
placedListeners(t) ==
  LET own == [name |-> consoleAlias, binds |-> ConsoleBinds, port |-> ConsolePort]
      placed == [i \in DOMAIN t.listeners |-> placedListener(t.listeners[i])]
  IN IF \E i \in DOMAIN t.listeners : isConsole(t.listeners[i]) THEN placed ELSE Append(placed, own)
placeConsoleListener(t) ==
  /\ \A i \in DOMAIN t.listeners : isConsole(t.listeners[i]) => t.listeners[i].binds = {} /\ t.listeners[i].port = 0
  /\ Cardinality({i \in DOMAIN t.listeners : isConsole(t.listeners[i])}) <= 1

bindsOverlap(a, b) == a \cap b # {} \/ (a # {} /\ b # {} /\ AnyAddress \in a \cup b)

\* Two listeners may not share an address and port; the console's are
\* reserved only exactly.
mayBothListen(a, b) ==
  \/ a.port # b.port
  \/ IF isConsole(a) \/ isConsole(b) THEN a.binds # b.binds ELSE ~bindsOverlap(a.binds, b.binds)
resolveListeners(ls) ==
  /\ ls # <<>>
  /\ \A i \in DOMAIN ls : ls[i].name \notin {"", RedirectListenerName} /\ ls[i].port # 0
  /\ \A i, j \in DOMAIN ls : i < j => ls[i].name # ls[j].name /\ mayBothListen(ls[i], ls[j])

\* The redirect listener: port 80 on every address of the others, which none
\* of them may use.
redirectBinds(ls) ==
  LET all == UNION {ls[i].binds : i \in DOMAIN ls}
  IN IF AnyAddress \in all THEN {AnyAddress} ELSE all
makeRedirectListener(ls) == \A i \in DOMAIN ls : ls[i].port = 80 => ~bindsOverlap(ls[i].binds, redirectBinds(ls))

buildRule(r, ls) == isPattern(r.domain) /\ \E i \in DOMAIN ls : ls[i].name = r.listener

\* The console's domain takes no rule of the file on its listener.
addConsoleRule(rs) == \A i \in DOMAIN rs : rs[i].listener = consoleAlias => rs[i].domain # ConsoleDomain

\* prioritiseListener: a domain twice on a listener could never match.
noRuleTwice(rs) ==
  \A i, j \in DOMAIN rs : i < j /\ rs[i].listener = rs[j].listener => rs[i].domain # rs[j].domain

\* Every group a rule names exists, once, with a user.
resolveServe(auths, rs) ==
  /\ \A i \in DOMAIN auths : auths[i].name # "" /\ auths[i].users # {}
  /\ \A i, j \in DOMAIN auths : i < j => auths[i].name # auths[j].name
  /\ \A i \in DOMAIN rs : rs[i].auth # "" => \E k \in DOMAIN auths : auths[k].name = rs[i].auth

LoadConfig(t) ==
  LET ls == placedListeners(t)
      rs == rawRules(t)
  IN /\ placeConsoleListener(t)
     /\ resolveListeners(ls)
     /\ t.redirect => makeRedirectListener(ls)
     /\ \A i \in DOMAIN rs : buildRule(rs[i], ls)
     /\ addConsoleRule(rs)
     /\ noRuleTwice(Append(rs, consoleRule))
     /\ resolveServe(t.auths, rs)

(* -------------------------------- Routing -------------------------------- *)

Key(r) == <<r.listener, r.domain>>

\* A listener's rules, by their places in rs.
rulesOf(rs, listener) == {i \in DOMAIN rs : rs[i].listener = listener}

\* The places I sorted by `less` (pairs of places), file order among equals.
stably(I, less) == {p \in I \X I : p \in less \/ (<<p[2], p[1]>> \notin less /\ p[1] < p[2])}
inOrder(I, first) ==
  [n \in 1..Cardinality(I) |-> CHOOSE i \in I : Cardinality({j \in I : <<j, i>> \in first}) = n - 1]
stableOrder(I, less) == inOrder(I, stably(I, less))

\* The first place of an order that is in T; noRule if none is.
noRule == 0
firstIn(order, T) ==
  LET at == {k \in DOMAIN order : order[k] \in T}
  IN IF at = {} THEN noRule ELSE order[CHOOSE k \in at : \A l \in at : k <= l]

moreSpecificFirstWins(a, b) == classify(a.domain) < classify(b.domain) \* mutant: file order among wildcards
moreSpecific(a, b) ==
  \/ classify(a.domain) < classify(b.domain)
  \/ classify(a.domain) = classify(b.domain) /\ literalChars(a.domain) > literalChars(b.domain)

\* Of a listener's rules, those not looked up by name, in priority order.
byPriority(rs, listener) ==
  LET rest == {i \in rulesOf(rs, listener) : classify(rs[i].domain) # kindLiteral}
  IN stableOrder(rest, {p \in rest \X rest : moreSpecific(rs[p[1]], rs[p[2]])})

\* The rule a name goes to, as if the stopped ones were not configured: a
\* literal by lookup, then the others in order.
literals(rs, listener, sni) == {i \in rulesOf(rs, listener) : classify(rs[i].domain) = kindLiteral /\ rs[i].domain = sni}
RouteExcept(rs, listener, sni, stopped) ==
  LET found == {i \in literals(rs, listener, sni) : Key(rs[i]) \notin stopped}
      others == {i \in DOMAIN rs : Key(rs[i]) \notin stopped /\ matches(rs[i].domain, sni)}
  IN IF found # {} THEN CHOOSE i \in found : TRUE ELSE firstIn(byPriority(rs, listener), others)

\* The order the console shows the rules in.
shownBefore(a, b) ==
  \/ classify(a.domain) < classify(b.domain)
  \/ /\ classify(a.domain) = kindWildcard /\ classify(b.domain) = kindWildcard
     /\ literalChars(a.domain) > literalChars(b.domain)
evaluationOrder(rs) ==
  stableOrder(DOMAIN rs, {p \in (DOMAIN rs) \X (DOMAIN rs) : shownBefore(rs[p[1]], rs[p[2]])})

(* ------------------------------- The edits ------------------------------- *)

\* A rule added to the routes item of its listener: the first one, or a new
\* one at the end.  An item whose rules: is empty (null) takes no rule: the
\* node it is appended to is written back as null.
groupFor(gs, listener) ==
  IF \E i \in DOMAIN gs : gs[i].listener = listener THEN gs
  ELSE Append(gs, [listener |-> listener, rules |-> <<>>, null |-> FALSE])
putRule(gs, listener, r) ==
  LET all == groupFor(gs, listener)
      at == CHOOSE i \in DOMAIN all : all[i].listener = listener /\ \A j \in 1..(i - 1) : all[j].listener # listener
  IN IF all[at].null THEN all ELSE [all EXCEPT ![at].rules = Append(@, r)]

\* A rule taken from its item; an item without rules left goes too.
takeRule(gs, g, k) ==
  LET rest == RemoveAt(gs[g].rules, k)
  IN IF rest = <<>> THEN RemoveAt(gs, g) ELSE [gs EXCEPT ![g].rules = rest]

changeRule(gs, g, k, r) ==
  IF gs[g].listener = r.listener THEN [gs EXCEPT ![g].rules[k] = r]
  ELSE putRule(takeRule(gs, g, k), r.listener, r)

\* A rename renames the listener in its routes items too.
renamedGroups(gs, from, to) ==
  [i \in DOMAIN gs |-> IF gs[i].listener = from THEN [gs[i] EXCEPT !.listener = to] ELSE gs[i]]

\* Renaming a group renames it in the serve entries that name it.
renamedRefs(gs, from, to) ==
  [i \in DOMAIN gs |-> [gs[i] EXCEPT !.rules =
     [k \in DOMAIN gs[i].rules |->
        IF gs[i].rules[k].auth = from THEN [gs[i].rules[k] EXCEPT !.auth = to] ELSE gs[i].rules[k]]]]

authRefs(t, name) == {i \in DOMAIN rawRules(t) : rawRules(t)[i].auth = name}

\* An edit's result is saved if it loads.
saved(t, what) ==
  /\ IF LoadConfig(t) /\ t # text
     THEN text' = t /\ did' = [what EXCEPT !.n = did.n + 1]
     ELSE UNCHANGED <<text, did>>
  /\ UNCHANGED stoppedRules

Did(op, target, listener, from, to) ==
  [n |-> 0, op |-> op, target |-> target, listener |-> listener, from |-> from, to |-> to]

RuleTableInit ==
  /\ text \in {t \in FirstTexts : LoadConfig(t)}
  /\ stoppedRules = {}
  /\ did = Did("none", "", "", "", "")

\* ruleEdit, line 0: a rule whose target no other has.
AddRule(listener, d, target, auth) ==
  /\ \A i \in DOMAIN rawRules(text) : rawRules(text)[i].target # target
  /\ LET r == [listener |-> listener, domain |-> d, target |-> target, auth |-> auth]
     IN saved([text EXCEPT !.groups = putRule(@, listener, r)], Did("set", target, listener, "", ""))

ChangeRule(g, k, listener, d) ==
  LET r == [text.groups[g].rules[k] EXCEPT !.listener = listener, !.domain = d]
  IN saved([text EXCEPT !.groups = changeRule(@, g, k, r)], Did("set", r.target, listener, "", ""))

DeleteRule(g, k) ==
  saved([text EXCEPT !.groups = takeRule(@, g, k)], Did("drop", text.groups[g].rules[k].target, "", "", ""))

AddListener(l) == saved([text EXCEPT !.listeners = Append(@, l)], Did("listener", "", "", "", ""))

ChangeListener(i, l) ==
  LET from == text.listeners[i].name
  IN saved([text EXCEPT !.listeners[i] = l, !.groups = renamedGroups(@, from, l.name)],
           Did("listener", "", "", from, l.name))

\* Refused for the console's listener and while rules hold it.
DeleteListener(i) ==
  /\ ~isConsole(text.listeners[i])
  /\ \A k \in DOMAIN rawRules(text) : rawRules(text)[k].listener # text.listeners[i].name
  /\ saved([text EXCEPT !.listeners = RemoveAt(@, i)], Did("listener", "", "", "", ""))

AddGroup(name) ==
  /\ \A i \in DOMAIN text.auths : text.auths[i].name # name
  /\ saved([text EXCEPT !.auths = Append(@, [name |-> name, users |-> {"u"}])], Did("auth", "", "", "", ""))

RenameGroup(i, name) ==
  /\ \A j \in DOMAIN text.auths : text.auths[j].name # name
  /\ saved([text EXCEPT !.auths[i].name = name, !.groups = renamedRefs(@, text.auths[i].name, name)],
           Did("auth", "", "", text.auths[i].name, name))

DeleteGroup(i) ==
  /\ authRefs(text, text.auths[i].name) = {}
  /\ saved([text EXCEPT !.auths = RemoveAt(@, i)], Did("auth", "", "", "", ""))

\* ruleStopStart: only a rule of the configuration is stopped, and never the
\* console's; a key is started whether or not its rule is still there.
StopRule(r) ==
  /\ r.target # "console"
  /\ Cardinality(stoppedRules) < MaxStopped
  /\ stoppedRules' = stoppedRules \cup {Key(r)}
  /\ UNCHANGED <<text, did>>
StartRule(key) ==
  /\ stoppedRules' = stoppedRules \ {key}
  /\ UNCHANGED <<text, did>>

RuleEdits ==
  \/ \E l \in TableListeners, d \in Domains, x \in Targets, a \in GroupNames \cup {""} : AddRule(l, d, x, a)
  \/ \E g \in DOMAIN text.groups : \E k \in DOMAIN text.groups[g].rules :
       DeleteRule(g, k) \/ \E l \in TableListeners, d \in Domains : ChangeRule(g, k, l, d)
  \/ \E n \in TableListeners, b \in SUBSET Addresses, p \in TextPorts :
       LET l == [name |-> n, binds |-> b, port |-> p]
       IN AddListener(l) \/ \E i \in DOMAIN text.listeners : ChangeListener(i, l)
  \/ \E i \in DOMAIN text.listeners : DeleteListener(i)
  \/ \E n \in GroupNames : AddGroup(n) \/ \E i \in DOMAIN text.auths : RenameGroup(i, n)
  \/ \E i \in DOMAIN text.auths : DeleteGroup(i)
RuleTableNext ==
  \/ did.n < MaxTextEdits /\ RuleEdits
  \/ \E i \in DOMAIN TableRules(text) : StopRule(TableRules(text)[i])
  \/ \E key \in stoppedRules : StartRule(key)

RuleTableSpec == RuleTableInit /\ [][RuleTableNext]_ruleVars

(* ------------------------------- Properties ------------------------------- *)

\* The file always loads, and its rules can be told apart by what they do.
RuleTableTypeOK ==
  /\ text \in Texts /\ LoadConfig(text) /\ apart(rawRules(text))
  /\ stoppedRules \subseteq (TableListeners \X Domains)
  /\ did.n \in 0..MaxTextEdits

\* Whatever the order of the rules in the file and whichever are stopped, a
\* name goes to the most specific rule of its listener that matches it and
\* runs: an exact name, else the wildcard with the most literal characters,
\* else $anything_else, file order between equals.  RouteExcept's lookup and
\* priority list agree with that, and with the order evaluationOrder shows.
beats(rs, i, j) ==
  LET a == rs[i].domain  b == rs[j].domain
  IN \/ classify(a) < classify(b)
     \/ /\ classify(a) = classify(b)
        /\ literalChars(a) > literalChars(b) \/ (literalChars(a) = literalChars(b) /\ i <= j)
RoutesBySpecificity ==
  LET rs == TableRules(text)
      shown == evaluationOrder(rs)
  IN \A n \in TableListeners, sni \in Snis :
       LET fit == {i \in rulesOf(rs, n) : Key(rs[i]) \notin stoppedRules /\ matches(rs[i].domain, sni)}
           got == RouteExcept(rs, n, sni, stoppedRules)
       IN /\ IF fit = {} THEN got = noRule ELSE got \in fit /\ \A j \in fit : beats(rs, got, j)
          /\ got = firstIn(shown, fit)

\* No sequence of edits and stops takes the console away: its listener is
\* there with the address it was started with, which no other listener has
\* exactly, and its domain is routed to it.
ConsoleStaysReachable ==
  LET ls == placedListeners(text)
      sni == IF ConsoleDomain = NoSNI THEN <<>> ELSE ConsoleDomain
  IN /\ \E i \in DOMAIN ls :
          /\ ls[i] = [name |-> consoleAlias, binds |-> ConsoleBinds, port |-> ConsolePort]
          /\ \A j \in DOMAIN ls \ {i} : <<ls[j].binds, ls[j].port>> # <<ConsoleBinds, ConsolePort>>
     /\ LET rs == TableRules(text)
        IN RouteExcept(rs, consoleAlias, sni, stoppedRules) = Len(rs)  \* consoleRule's place

\* Both: every name, the console's included, goes where the file says.
RoutingIsRight == RoutesBySpecificity /\ ConsoleStaysReachable

\* The listener's first routes item has an empty rules:.
takesNoRule(t, n) ==
  \E i \in DOMAIN t.groups : /\ t.groups[i].listener = n /\ t.groups[i].null
                             /\ \A j \in 1..(i - 1) : t.groups[j].listener # n

\* What the edit d makes of a rule it does not name: the same rule, under its
\* listener's or its group's new name after a rename.
renamedAs(d, kind, n) == IF d.op = kind /\ n = d.from THEN d.to ELSE n
carried(d, r) == [r EXCEPT !.listener = renamedAs(d, "listener", @), !.auth = renamedAs(d, "auth", @)]
otherRules(d, rs) == {i \in DOMAIN rs : rs[i].target # d.target}
sameRules(d, old, new) == {p \in otherRules(d, old) \X otherRules(d, new) : new[p[2]] = carried(d, old[p[1]])}

\* One saved edit does what it says and nothing else: the rule it sets is
\* under the listener asked for, the one it drops is gone, and the other
\* rules keep their listener (under its new name after a rename), their order
\* and their values.  Not so for a rule set under a listener whose first routes
\* item has an empty rules: that rule is lost (putRule), which the property
\* leaves out.
EditsTouchOneItem ==
  [][text' # text /\ ~(did'.op = "set" /\ takesNoRule(text, did'.listener)) =>
       LET old == rawRules(text)
           new == rawRules(text')
           same == sameRules(did', old, new)
       IN /\ \A i \in otherRules(did', old) : \E p \in same : p[1] = i
          /\ \A j \in otherRules(did', new) : \E p \in same : p[2] = j
          /\ \A p, q \in same : p[1] < q[1] <=> p[2] < q[2]
          /\ did'.op = "set" => \E i \in rulesOf(new, did'.listener) : new[i].target = did'.target
          /\ did'.op = "drop" => \A i \in DOMAIN new : new[i].target # did'.target]_ruleVars
==============================================================================
