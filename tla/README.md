# A TLA+ model of tlsproxy

tlsproxy accepts TLS connections, reads the server name of the ClientHello,
routes it by rules and relays the bytes to a target, or terminates TLS and
serves the request itself with certificates it obtains by ACME. It is one Go
process, with a goroutine or more per connection, a background worker for
certificates, reloads of its configuration and a web console that changes its
state at run time. The program's own code is the Go files at the top of `src/`
(about 17 800 lines without tests) and `console/`; `vendor/` is third party.

This directory models the parts whose correctness depends on the order in which
things happen, checks them with TLC on small instances, and proves the safety
properties of those that hold with TLAPS for every value of the constants. The certificate manager, the ring, the relay and
the server have runs of their own; fourteen smaller components share one module
of instances (`MCParts`). `PROJECT.json` maps every definition to the
lines it models.

## 1. Inventory

State, operations and interactions of the parts, what is hard about each, and
what makes it correct.

| Part (file) | State | Operations | Hard | Correct when |
|---|---|---|---|---|
| Certificate manager (`certs.go`) | `m.mu`'s maps (`auto`, `challenges`, `nextTry`, `lastError`, `dynamic`, `candidates`, `rejected`, `inFlight`), files under `acme/`, the proposals ring, the wake channel, `applyMu` | `Apply`, `CertificateForClient`, worker, jobs (script, ACME order, installation), console `RemoveCertificate`, `RetryNow` | jobs take minutes and outlive reloads; two locks; files and maps change at different times; crashes | a job of an old configuration changes nothing; memory and files agree; one job per name; no work is slept on |
| Lock-free ring (`lockfree.go`) | head, tail, a sequence number and a plain value per cell | `TryPush`, `TryPop` | compare-and-swap on values loaded earlier; a plain field guarded by an atomic | it is a FIFO queue; no data race; calls return |
| Relay (`proxy.go` `relay`, `stats.go`, `limit.go`, `linger.go`, `splice_*.go`) | two sockets, two directions, end of each, close reason, half-close timer, last activity, how to kill it | `pump` twice, `endDirection`, `closeAll` from four callers, `finish`, `setKill`, `stop` | both directions end at once; own `Close` looks like an error; every wait must be interruptible | a half-close is a whole stream's; what is logged is true, of a truncated one too; it always ends when it should |
| Server (`proxy.go` `acceptLoop`, `handle`, `setRuleStopped`, `reload`) | counters, runtime pointer, registry of connections, stopped rules | accept, admission, handshake slots, routing, stop and start, reload | counts taken one after another; decisions made with an old runtime; stop races routing | limits hold; nothing leaks; a stopped rule serves nobody |
| Route cache (`cache.go`) | two clock caches per runtime (allowed, denied) | `GetOrRoute`, `Put` | lock-free lookups against an insert | a lookup returns what routing once said, under this runtime |
| Listeners (`listeners.go`) | sockets by name, stopped listeners | `syncListeners`, `takeOver`, `setListenerStopped` | renames and moves of sockets, failed opens, the console's older view of the configuration | open ports are those of the configuration, each held once; no mark outlives its listener |
| Registry, counters (`stats.go`, `lockfree.go`) | `connTable`, per rule and host counters | register, scan, unregister | scans without a lock | every live connection is found |
| Local CAs (`localca.go`, `caconfig.go`, `console_ca.go`) | CA key and certificate, leaves in memory and on disk, archive, settings with the time of their file | make, open, renew, replace, delete; `certificate`; load and save settings | handshakes at once, a CA replaced meanwhile, half a pair on disk, an edit between `Stat` and `ReadFile` | a leaf fits the CA it was checked against; one is issued per name; settings are the file's wherever it was read |
| Buffer pool (`pool.go`) | ring of buffers, when it was last full | Get, Put, trim | check-then-push | what is parked exceeds the limit only by overlapping returns |
| Limiter (`limit.go`, `newRuntime`) | one theoretical arrival time per rule and listener | reserve, wait, keep across a reload | compare-and-swap against a clock read earlier | never over the rate plus one burst, or one larger charge, in any window |
| Dialer (`dial.go`) | cached addresses, two goroutines, their sockets | resolve, Happy Eyeballs | the loser's connection, the deadline | exactly one connection survives; it fails only when all addresses failed |
| Loop detection (`nonce.go`) | stamped table of hellos | record, seen | eviction against lookups | a hello of ours is recognised |
| Parsing (`sni.go`, `proxy_protocol.go`) | none | ClientHello, PROXY v1/v2 | lengths, partial input | total; agrees with the format |
| Configuration (`config*.go`, `sections.go`) | the tree of the file | load, validate, place the console, route, edit | which of two patterns is more specific; edits by line | the documented order; the console stays reachable |
| Serving (`serve*.go`, `redirect.go`, `identity.go`, `password.go`) | web servers per listener and configuration, remembered passwords, opened folders | hand over a connection, authenticate a request, retire | hand-over, requests and passwords against reloads | no connection or request hangs; no old password works; closed states hold nothing |
| OpenID Connect (`oidc*.go`) | nothing but a key; state and session cookies, the provider's metadata and keys | gate, callback, redeem, logout | sign-ins across reloads, restarts, key rotation, tabs | a session opens what the provider's answer allows now; no browser is sent round for ever |
| Console (`console*.go`) | sessions, login throttle, the configuration file, backups, credential files, state frames | sign in, save, edit rules, listeners and groups, stop, start, follow | two saves; a failing step; a burst of guesses; a slow page | no saved change is undone; an edit does what it says; pages catch up |
| Flow log (`flows.go`, `console/app.js`) | numbered views of connections, a queue per page, ring of ended ones | publish, snapshot, show | events are dropped and overtaken by snapshots | a page's picture converges and never goes back |
| Logging (`logx.go`, `rotate.go`) | ring of lines, pending bytes, files and generations | log, flush, switch, rotate, compress | a flush against unfilled slots; renames that fail half way | no line is lost uncounted, doubled or out of order on its way to a destination |
| Process (`main.go`, `signal_*.go`, `sync_directory_*.go`) | none | flags, signals | | |

How they interact: a reload calls `CertManager.Apply`, then stores a new runtime
(configuration, route cache, pools) that connections accepted afterwards load
once; a connection keeps the runtime it loaded. The console marks rules and
listeners stopped, replaces the runtime so that its cache is empty, and asks
registered connections to stop through `ConnState`, which the relay registers
with when it begins. Handshakes for names without a certificate push the name
into the proposals ring, from where the worker takes it. A connection that is
served here goes through the same admission and is then handed to the web server
of its listener; a relayed one is dialled, charged to the limiter's buckets and
moved with buffers of the pool. The console's pages save the configuration file,
whose watcher reloads it, and follow connections and state over WebSockets.

`PROJECT.json` lists the hazards at their lines.

## 2. Modules

| Module | Models | Size of a step |
|---|---|---|
| `CertManager` | the certificate manager: `Apply`, `Start`, handshakes, worker, jobs, console, time, crash | a critical section of `m.mu`, a write to disk, an answer from outside |
| `MCCertManager` | configurations and symmetry for TLC | |
| `CertManagerProofs` | its theorems | |
| `BoundedQueue` | abstract: what the ring promises | a call, its effect, its return |
| `Ring` | `TryPush`, `TryPop` | one atomic operation, one access to a cell's value |
| `MCRing`, `RingProofs` | instance; theorems, including the refinement | |
| `Relay`, `MCRelay` | one connection from the connected upstream to `setEnd` | a socket call, a critical section, an atomic store |
| `Server`, `MCServer` | connections from accept to relay, console, reload | an atomic add, a critical section, one slot of a scan |
| `Dialer` | `resolve`, `Dial`, `dialSerial` | a lookup, an attempt, a channel operation, a timer |
| `Limiter` | `reserve`, `waitAll`, the buckets a reload keeps | an atomic load, a compare-and-swap, a sleep |
| `BufferPool` | `Get`, `Put`, `trimIdle` | one ring operation, one access to the stamp |
| `Listeners` | `syncListeners`, `takeOverLocked`, `openLocked`, `setListenerStopped` | a section of `listenersMu` |
| `Serve` | `serveHere`, `webServer`, `retire`, basic auth, opened folders | a channel operation, a critical section, a hash |
| `FlowLog` | the flow log and the page that shows it | publishing a view, a frame, one connection of a snapshot |
| `Logging` | `emit`, the flusher, `ConfigureLogging` | a ring operation, an atomic add, a write |
| `LogFile` | rotation and compression | a rename, a write, a death |
| `SignIn` | OpenID Connect with the browser and the provider | an HTTP request |
| `LocalCA` | one CA folder | a file, a critical section |
| `CaSettings` | a CA's `config.yaml` | `Stat`, `ReadFile`, a write, publication |
| `RuleTable` | the configuration as a tree, routing, and the console's edits | an edit with the load that checks it |
| `ConfigSaves` | the configuration file, its writers and its watcher | a file operation, a channel operation |
| `ConsoleTabs` | sign-ins, sessions and state frames | a critical section, a frame |
| `MCParts` | instances of these fourteen | |
| `ServerProofs`, `RelayProofs` | theorems of `Server` and `Relay` | |
| `ServingProofs` | theorems of `Listeners`, `RuleTable`, `Serve`, `FlowLog` | |
| `TrafficProofs` | theorems of `Dialer`, `Limiter`, `Logging`, `LogFile`, `BufferPool` | |
| `ConsoleProofs` | theorems of `SignIn`, `LocalCA`, `CaSettings`, `ConsoleTabs`, `ConfigSaves` | |
| `PartsProofs` | theorems of `MCParts`: the fourteen side by side | |

A component keeps its deliberately wrong variants beside the operators they
replace, marked `mutant`; no specification uses them. Putting one in place of its
operator breaks a property, which shows that the property depends on that line of
the code.

### CertManager

A configuration is its place in `applied`, standing for the `*Config` pointer;
`Current(i)` is the code's `m.cfg == cfg && ctx.Err() == nil`, since `Apply`
cancels the old context in the section that replaces `m.cfg`. A certificate is a
serial number with an age (`fresh`, `due`, `expired`); a file holds a serial.
`applyMu` is not a variable: it is free when no `Apply` and no installation is
under way, which is when the code's holders have released it.

`ApplyBegin` .. `ApplyWake` are `Apply` and `loadAutoFromDisk`, which reads the
files and stores what it read in separate steps. `HandshakeLoad`, `HandshakePush`
and `HandshakeWake` are `CertificateForClient`. The worker is `TakeProposal`,
`ReadConfig`, `adoptCandidates`, `WorkerAnnounce`, `pendingJobs`, `startJob` and
its sleep. A job runs `JobBegin`, the script's answers, `IssueChallenge` ..
`IssueFinalize`, `InstallBegin` .. `InstallCommit` (key, certificate, map),
`IssueReturn`, `Backoff`, `JobFinish`, `JobRelease`, `JobWake`. `Crash` loses
memory and keeps files.

Abstractions. Unlocking `m.mu` publishes the view handshakes read, so the view is
the maps. Jobs of one class are sorted by due date in the code and taken in any
order here. `Age` only moves certificates that are in use or on disk. The ring of
proposals is a sequence here; the real `TryPop` may report an empty ring while a
producer stalls at its head, which is harmless because every producer signals
the worker after its push, and `NoLostWakeup` is about that signal. Placeholder
certificates, the console's listing, account registration and the details of the
ACME exchange are left out; an order succeeds, fails for now or fails for good.
`scriptAllows` has a branch for a name without a script; `AskHasScript` says it is
never taken.

### BoundedQueue and Ring

`BoundedQueue` is the queue with two-phase calls: an item takes its place in one
step and is ready in a later one. That is deliberate: in the code `TryPop` reports
false while the oldest item is claimed but not yet published, even if later
pushes have returned, so a queue whose false means empty is not implemented.
`Ring` maps to it with `queueOf` (positions `head` to `tail - 1`, an item being
filled taken from its producer) and `calls`: a push takes effect when `tail` is
swapped, a pop when `head` is. Positions do not wrap (they are 64-bit in the
code).

### Relay

Bytes are counted, not told apart, and time is what is left of each deadline and
the age of the last activity. `PumpDeadline` .. `PumpError` are the loop of `pump`
with its switch on errors; `EndStore`, `EndRecord`, `EndShut` are `endDirection`
with its deferred `CloseWrite`; `CloseMark`, `CloseSignal`, `CloseClient` and
`CloseServer` are `closeAll`, called by pumps, the timer, the handler and the
console. A `Close` sends the receiver a FIN (a close_notify under TLS) too, also when the
stream is short, which `streamEnds` has: `shut` alone is `CloseWrite`. `SetKill`,
`Recheck`, `StartPumps`, `Finish`, `SetEnd` are the end of `handle`. The peers are unconstrained: they send, end in three ways (a clean end,
a reset, a cut inside a TLS record) and refuse data at any time. A speed limit is
a wait of any length. Splice and buffer movers are one, the fallback between them
is left out, and so are the sizes of chunks.

`answered` is a history variable: a direction's source closed only after it had
our FIN.

### Server

All connections ask for one name, so a route cache is one entry in each of its
halves per listener; `Rules` lists the listener's rules that match, in order.
Every `Add` on a counter is a step, as are the registration, the lookup and the
insertion of a decision. Eviction may happen at any time. A reload is a runtime
with an empty cache; the set of listeners and rules does not change. Connections
served here take the same path as relayed ones. Locals the code does not read
again are reset, which keeps the state space small.

### Connecting and moving bytes: Dialer, Limiter, BufferPool

`Dialer`: time is events (the lag passes, an attempt uses up its share, the deadline
passes, the cached addresses expire). Addresses are told apart by family only. A
losing goroutine closes its own socket, so what must be shown is that nobody closes
the winner's and nobody leaves the loser's open, with two results in a buffered
channel nobody may read. `Limiter`: `ReserveLoad` reads clock and `tat`, `ReserveSwap`
is the compare-and-swap with its retry; `allowed` records, per era of an unchanged
rate, each charge with its cost, the time it was let through and the sum so far, so
that a window of time is two charges and the difference of their sums. A charge may
cost anything: `pump` keeps to one burst (`limitedChunk`), but `servedConn` charges the
whole buffer it read or writes (`serve.go:248-267`). `Relay` takes a limit as a wait of
any length, so the two modules meet in that assumption only. `BufferPool`: buffers are counted;
`Ring` shows the ring's operations atomic. `peak` is how many returns overlapped
since the pool was last within its limit.

### Listeners and Serve

`Listeners` is the socket side of what `Server` models for connections: `SyncListeners`
closes what is gone, moves the sockets of renamed listeners and opens the rest, and
an open fails when another process has the address. `SetStopped` works with the
configuration the console read before it took the lock. `Serve` follows one
connection from its handshake (`serveHere` looks its web server up in the runtime it
was routed with, by the listener's name now) to its requests, each under the state
current when it begins; passwords cost a slot for hashing and are remembered with the
hash they were checked against; a state is closed a minute after it was replaced.

### Logs: FlowLog, Logging, LogFile

`FlowLog`: a view of a connection is numbered, events go through a drop-oldest queue, a
snapshot lists the table, all of it or as many as fit, and then takes one view at a time,
and the page (`flowUpsert`, `flowMessage` of `console/app.js`) keeps the newer view and
closes a card two snapshots in a row did not list. `OtherFlows` is other connections: they
push an ended one out of the history, and crowd one out of a list that does not take all.
`Logging`: a push claims a slot and fills it later, as in `Ring`; the flusher stops at an
unfilled slot; `out` is the lines handed over so far, each with the destination and who
took it: `writeLog` gives a batch to the file, all of it again to the fallback when the
file fails on the way, and nobody asks what the fallback took. `LogFile`: `Shift` is one
rename of the chain, any step may fail, and the process may die in between; the compressor
works meanwhile. With `MaxKeep` 0 the full file is removed instead of kept.

### SignIn, LocalCA, CaSettings

`SignIn`: the state token stands for the nonce and the PKCE verifier made with it;
issuer and client id are one value. The provider may answer with any groups and with
or without MFA, late, or not at all. A session's ghost fields hold the whole answer.
`LocalCA`: a CA certificate is the n-th of a key, a leaf has a signer and a host; two
open `localCA`s on one folder have different locks. `RenewReadKey`, `RenewReadCert` and
`RenewCA` are `renewCA`, between whose steps files are replaced by hand; an archive may
fail to move a folder, which then stays. `CaSettings`: `StatSettings`, `WriteDefaults`,
`StatAgain`, `ReadSettings` and `SetSettings` are the calls of `loadConfig`, each of which may
fail, with edits by hand between any two; `unread` marks a time that went into use although
what the file had then was not read. Every write has a time of its own, which is what the
code relies on.

### RuleTable, ConfigSaves, ConsoleTabs

`RuleTable` keeps the file as listeners, routes items with their rules, and groups.
`LoadConfig` is what `config.go` checks of them; the console's listener and rule are
merged in as `console_config.go` does. Host names are sequences of labels, and which
labels a glob matches is a constant. An edit is applied to the tree and kept only if
the result loads. A rule is known by its `target`, which no edit changes and no two rules
of a file at the start share, so that "the other rules" of an edit is a set that can be
named. `ConfigSaves` has a text be the set of changes in it, so that a lost
change shows, and gives every credential file a name of its own (the code's has the second
in it). `ConsoleTabs` has what a frame shows be a count that grows and a toggle.

## 3. Runs

Every run uses a `.cfg` that only gives constants their values.

| Run | Instance | Question |
|---|---|---|
| `cert_reload` | one name, two attempts per job, two certificates, two configurations applied, one console operation | Do old jobs, reloads and the console leave files, maps and challenges consistent? |
| `cert_script` | two names, one slot, one-place ring and candidate list, a reload that may remove the script | Is only what has a script asked about, one job per name, and what does a waiting name wait for? |
| `cert_live` | one name, two attempts per job, `list` and `open` configurations, a reload, a crash | Do jobs end and names get certificates under fairness, with retries and reloads during a wait, and does a refusal leave a valid certificate alone? |
| `ring` | three goroutines, two cells, two values, three positions | Is it the bounded queue, free of data races, and do calls return? |
| `relay_safe` | one byte, all endings and refusals, idle and half-close timeouts, a limit, both stops | Is the record true, and a stream that ends short never on record as whole? |
| `relay_live` | one byte, idle and half-close timeouts, a limit, a stop | Do the three ways to end a connection always end it? |
| `server_admit` | three connections, two listeners, limits of two, one and one, PROXY headers | Do limits hold, those of handshakes included, and does everything come back? |
| `server_stop` | two connections, two console requests, three runtimes | Does a stopped rule stay idle? |
| `parts` | all fourteen components of `MCParts`, the larger instances | The safety of each: see the properties |
| `progress` | the nine of them with something to wait for, smaller, with the faults the first leaves out, and a log file of which nothing is kept | Does each come to its end? |
| `cert_key_first` | one name, a renewal, a crash | see the disagreements |
| `serve_rename` | `Serve` with a reload that renames the listener | see the disagreements |

In `MCParts` the components share no variable: a behaviour chooses one (`part`) at the
start and the others rest, so a state of the run is a state of that component alone,
and its liveness is that of the component under its own fairness.

Why these bounds suffice. Two configurations are an old and a new one, which is
all a job can tell apart (it compares with the current one only); two
certificates make a rollback possible; one slot with two names is contention. In the
ring, two cells and three positions are a lap and a half: a cell is reused, and three goroutines are a
producer, a consumer and one that overtakes either. For the relay one byte
already tells data that arrived from data that did not; with the limit on its
direction every wait occurs. In the server, three connections overrun a limit of
two, and two connections and two console requests with three runtimes let one
connection fill a cache another one reads after the rule was stopped, started and
the runtime replaced.

For the components of `MCParts`: lists of up to three addresses in two families have a
first family that fails and a second try in each; two payers, two buckets and a burst
of two with a clock of two instants (what is let through may be later) are a lost swap, an idle bucket and a reload, and
charges of one and three are below a burst and above it; three borrowers overrun a pool
of one; two names and two addresses are a swap, a move and a rename; two
configurations and two requests are a remembered password and its change; two
connections and queues of one drop every event that can be dropped; two lines
and a ring of one are a full ring, and the first of two destinations is a file that may
refuse (a charge beyond `MaxPending` takes the same `Drop`, and is only in the theorem); five
lines of one per file with three generations go round the rotation with two faults; two tabs, two pages and three
configurations are a session for another client and a session for another page; two
callers and two CA keys race an issue with a replacement; two edits reach every pair
of edits from three files; two savers and three writes have a page save on an old
version and one on a new one; two edits by hand or saves around a load meet each of its
calls, one of which may fail; two pages and three guesses reach the lock-out after two and
try once more. Faults
that make these instances too large (crashes of a CA being written, restarts and key
rotation, edits of the configuration file by hand, lost events of other connections,
truncated snapshots, toggles) are in `progress`, which
checks `PartsHold` too. There one wrong guess locks a page out and a second one meets
the lock-out, a ring of two lines holds a filled line behind one that is not (the wake-up
a flush uses up), and no rotated file is kept (`MaxKeep` 0).

Where there is no crash bound above zero the run does not
ask about crashes. The symmetry sets only permute identities that no definition
distinguishes, and are used only in runs of safety properties.

`CHECK_DEADLOCK FALSE` is set for the server and for `MCParts`: connections, calls and
edits are used up, and an instance really stops when all have ended. That nobody
waits for ever before that is what `progress` shows.

### Properties

Each property is defined and explained at the end of its module. The ones worth
arguing about:

- `StaleNeverInstalls`, `NoRollback`, `DiskNotBehind`, `CommitsAreCurrent`: the CA's
  answer may come after a reload, a refusal or a removal; files are written by
  jobs and read by `Apply` at the same time.
- `NoLostWakeup`: the worker sleeps on a one-place channel with a timer; nothing
  but the passing of time may leave it with work it does not know of.
- `KeepsUsable`: a script that refuses a renewal must not take a valid certificate
  away.
- `IsBoundedQueue`, `CellExclusive`: the ring's algorithm as a whole.
- `FinAfterData`: a half-close is passed on only for a clean end and only behind all data
  (`HalfClosesAreWhole`), and where a receiver is given the end of a stream that lacks
  something, which `Close` cannot help, the log never calls that an ordinary end
  (`ShortEndIsTold`).
- `EndIsTold` (`FirstIsFirst`, `ErrorsAreThePeers`, `EndedHasReason`) and `StopIsKept`: the
  log and the console's stop under every interleaving of two pumps, a timer, a handler
  and a console.
- `StoppedRuleIsIdle`: marking, replacing the cache, scanning and the recheck
  before the relay together leave no gap.
- `DialIsRight`, `WithinRate`, `LinesAccounted`, `LeavesAreRight`: what goroutines that
  race for one socket, one arrival time, one ring or one certificate leave behind.
  `LinesAccounted` is about the way to a destination; what a destination does with a batch
  is not all or nothing, and it says exactly when a line comes out twice.
- `ServedIsCurrent`, `SessionIsTheAnswer`: a password or a session accepted before a
  reload opens nothing the present configuration does not allow.
- `RulesRouteRight` compares the lookup, the priority list and the order shown with a
  direct definition of "most specific", and says that no edit takes the console away.
- `LogsKeepOrder` and `EditsKeepWork` join the action properties of three modules each:
  lines and cards keep their order; a save undoes neither another page's save nor more
  than it says.
- `PartsHold` has the rest: the overlap that explains a pool's excess, the ports of a
  configuration, closed cards, generations of a log, settings of a CA, credential
  files, metered guesses, and each component's types.
  `SettingsAreTheFiles` leaves out the times at which the file was not read; the
  disagreements say which those are.
- `PartsProgress`: dials, hand-overs, lines, cards, sign-ins, certificate calls,
  settings, saves and pages. A connection handed over ends for as long as its listener
  keeps its name (`HandOverEnds`; `serve_rename` has the other case), and a closed
  connection's card is closed while snapshots that list everything keep coming
  (`EndedIsShown`).

### Fairness

`CertManager`: the worker, a running `Apply`, a started handshake, the console's
handler and every job take their steps (goroutines are scheduled; scripts, DNS
and CA calls all have timeouts), and retry times pass. Nothing is assumed of the
outcome of a step. `Ring`: a goroutine inside a call is scheduled. The code's
loops are lock-free, not wait-free: a call is retried only when another one made
progress, and since an instance has finitely many positions `CallsReturn` shows
that no call spins without such progress. `Relay`: goroutines run and timers
fire; nothing is assumed of the peers, of a write being taken or of a limit
letting go. `IdleEnds` additionally supposes that time passes, as its antecedent.

`FairPartsSpec`: goroutines that can run do, and timers fire: the lag of a dial, the
flusher's tick, the page's snapshot, the settings' look, the sessions' end, the minute after
which a state is closed. Strong fairness is assumed in two places where the code
queues who waits: a call for a local CA's certificate behind `sync.Mutex`, which hands
the lock to one that waits too long, and a request behind the hash slots, a buffered
channel whose senders queue. The browser of `SignIn` follows its redirects. Nothing is
assumed of outcomes: attempts, writes, the provider and loads may fail every time,
pages may leave, callers may never log again.

### Disagreements the runs show

Two runs check what a comment says and find it violated by what the code does;
`PROJECT.json` quotes the lines.

- `cert_key_first`: "Key first" protects a first issue, but in a renewal a crash
  between the two files leaves the old `cert.pem` beside the new key.
- `serve_rename`: a reload renames a listener that keeps its addresses; a connection of
  it that is about to be handed over looks the new name up in its old configuration
  (`serve.go:388`), finds nil and calls `push` on it, although the comments there and at
  `listeners.go:121` say that the current server serves it.

Others were met while modelling and have no run of their own:

- `certs.go:1574`: a job that installs its certificate and is cancelled by a reload
  before it finishes does not clear the error of an earlier attempt, so the valid
  certificate can be removed from the console.
- `certs.go:715`: a handshake that decided before a refusal proposes the name after
  it, and the script is asked again at once.
- `lockfree.go:80`: `TryPop` can report false on a ring that is not empty.
- `proxy.go:1377`: "The data is incomplete, so it is not forwarded as a clean end of
  stream". `CloseWrite` is not called, but the `closeAll` that follows closes the receiver's
  socket, and that sends a FIN, and a close_notify under TLS, like a clean end. A receiver that
  still reads cannot tell; only the log can (`ShortEndIsTold`).
- `proxy.go:748`: a connection accepted before a stop is routed by its old runtime's
  cache; the recheck before the relay then closes it instead of letting it fall
  through to the next rule.
- `proxy.go:1330`: a wait for the speed limit counts as idleness for the other direction.
- `certs.go:591`: a reload that read the files before a removal stores the removed
  certificate after it.
- `listeners.go:201`: a connection accepted but not registered when its listener is
  stopped is relayed all the same; `listeners.go:163`: a start that read the
  configuration before a reload opens the old addresses.
- `listeners.go:64`: when two listeners exchange their addresses in one reload, the first
  cannot be opened because the second still holds its port, where the repository's README
  (line 408) says a changed address moves the listener.
- `proxy.go:511`: `reload` notes the hash before it loads, so a file that failed for a
  passing reason is not tried again until it changes.
- `console.go:51`: an edit by hand between a save's reading of the file and its rename is
  overwritten; the version check is about the console's own writers.
- `console_oidc.go:243`: credential files no longer named are forgotten before the commit,
  so a commit that fails leaves a configuration without its file; `:438`: two saves in
  one second give the same credential file name.
- `sections.go:103`: a rule added under a routes item with an empty `rules:` is put into a
  null value and is not in the saved text, though `editRules` returns it "as written".
- `console_rules.go:425`: a rule stopped and started again between two frames can leave a
  page with the state in between until the next change.
- `pool.go:56`: a return that stamps the pool full after a borrower cleared the stamp leaves
  a stale one, so a later trim follows a peak that did not last a minute.
- `config.go:1207`: when one listener binds `::` alone, which takes IPv4 too, and another a
  single IPv4 address, the redirect listener has both addresses and so listens on `::`
  for IPv6 only: the other IPv4 addresses get no redirect.
- `localca.go:34`: "two racing clients may both sign one, and the first to publish wins" is
  older than the lock of a name (`:407`); `certificate` says "so only one is ever issued"
  (`:397`), which is what the code does and `OnlyOneIssued` states.
- `localca.go:332`: `renewCA` writes a renewed certificate over one that was put there by
  hand after it had read the old one.
- `caconfig.go:368`: between the writing of the defaults and the `Stat` after it an edit by
  hand is published as the defaults under its own time, and so never loaded, although
  `loadConfig` "reads the CA's config.yaml when it changed since last time" (`:339`); a removal
  there leaves `fi` nil and the process panics, unless it is a page's request. `:379`: a file
  that could not be read is not tried again until its time changes.
- `logx.go:119`: when a file fails in the middle of a batch, the whole batch goes to the
  fallback, so lines the file took come out twice; what the fallback does not take is lost
  uncounted.
- `stats.go:256`: a snapshot of more connections than fit closes no cards, so a card whose
  event was lost and whose record was pushed out stays open until a snapshot fits them all.
- `localca.go:277`: a crash between a new CA's key and its certificate leaves a key alone:
  the CA is there for `openLocalCA`, which cannot open it, and is not made again, where
  `certs.go:274` says "made if missing"; `console_ca.go:205`: deleting a CA does not exclude a
  reload that begins to use it.

## 4. Proofs

A theorem holds for every value of the constants its module's `ASSUME`s allow, and TLC
evaluates those in the runs. They say that limits are naturals (positive where the code
makes them so), that sets the code counts are finite, and that the markers for "none"
are not values. Some say more:

- `ConfigAssumption`, `ServeAssumption`, `SignInAssumption`: what a configuration is a
  function or record of;
- `DialerAssumption`: there are two families, lists of addresses are sequences of them,
  and the reported errors are none of them;
- `LimiterAssumption`: costs and a burst are naturals, in any relation;
- `ListenersAssumption`: the listeners of a configuration have different names and
  addresses, which its check sees to;
- `RuleTableAssumption`, `FirstTextsAssumption`: what a file is made of, that the
  console's domain has no star, and that the rules of a file at the start are told apart
  by their targets;
- `PartsAssumption`: what `MCParts` is given are names of its components;
- `LogFileAssumption`, `NoneYetAssumption`: a missing file is not a sequence of lines, a
  missing key, certificate or leaf not one of these. Any number of generations may be kept,
  none included, as `max_keep` allows.

The bounds (`Max...`) are naturals, or positive ones, and nothing else is said of them, so a theorem covers
any number of reloads, crashes, requests, lines and retries. Every proof has the same
frame: an inductive invariant, one lemma for each of its conjuncts with a step per
action that can disturb it, and theorems that are read off the invariant; what follows
is why each invariant needs more than the property.

### CertManagerProofs

`IInv` is the conjunction of

- `TypeOK`;
- `LocalsOK`: what a program counter says of the locals (an active job has a name
  and a configuration that was applied, a job in backoff has attempts left, the
  worker's list is empty unless it is starting jobs);
- `OneJobPerName`, `ChallengeOwned`, `CommitsAreCurrent`;
- `NamesAllowed`: names in `dynamic` and `candidates` have a script, listed and
  active names are allowed by their configuration, and a job past the script's
  yes has a managed name.

None of the safety properties is inductive without the others: that a challenge is
owned needs that a name has one job; that a commit is current needs the types of
the locals; that an install is of a managed name needs `NamesAllowed`. `TypeCorrect`,
`JobsAreExclusive`, `ChallengesAreOwned`, `CommitsStayCurrent`, `AsksHaveScripts` and
`NoStaleInstall` (an action property) are read off `Inductive`.

The second invariant, `CertsOK`, is inductive relative to the first:

- `SerialsOK`: the certificate a job holds is newer than what its name has in use and on
  disk until it writes it, and what a running `Apply` read from disk is neither behind
  the one in use nor ahead of an installation that waits for `applyMu`. It gives
  `DiskKeepsUp` and, step by step, `NothingRollsBack`;
- `WakesOK`: with no wake-up coming, the worker has read the current configuration and
  every proposal, and each name that needs a job is in its list, has a job, or waits for
  time. `WakesAreNotLost` is its last line. It is about the places between two reads of
  the worker, where a proposal, a reload and the end of a job may each come in;
- `KeptOK`: a name that is listed or asked about because a script covers it has nothing
  good on disk, or is in `dynamic` already, so a refusal has nothing usable to drop:
  `UsableIsKept` (an action property). This holds because `adoptCandidates` reads the
  disk before the name is listed, and because the listing is thrown away with its
  configuration;
- `WaitingHasReason`, for `WaitsHaveReasons`.

Both are stated in `CertManager`.

### RingProofs

The Size positions from `head` on have the Size cells, and a cell's
sequence number says which of four states it is in; `SeqOK` states that,
`OwnersOK` that a claimed position has one goroutine, `LoadsOK` that loaded values
are never ahead of the present, `ValuesOK` that a filled cell holds its item. The
arithmetic (`DivMod`, `Unique`, `CellApart`: positions less than a lap apart have
different cells) is proved first. `PushClaims` and `PopClaims` are the heart: who
wins the compare-and-swap has claimed a free, or a filled, cell, because the
sequence number it read cannot have changed while the counter has not.
`CountersWithinLap`, `NoDataRace` and `NoItemLost` follow from `Inductive`.
`RingIsBoundedQueue` shows the refinement: `Simulates` maps every step to a step of
the queue or to none, using that a position has one filler.

### ServerProofs

Counters are shown to be cardinalities: `CountsOK` says that `active`, a listener's
count and a source's slots are the numbers of connections whose program counter says
they hold one. That gives `ServerTypeOK` (no count goes below zero) and, with
`registered` tied to program counters in `ConnsOK`, `ServerNothingLeaks`. The limits are
not about the counters, which exceed them while a connection is being refused, but about
what was granted: `LimitsOK` counts the connections that saw a value within the limit,
and since values are seen in the order of the `Add`s no more than the limit do. For
handshakes a PROXY header moves a connection between sources, which first asks of the
new one and then gives back the old. `StopsOK` is the argument for `ServerStoppedRuleIsIdle`:
a connection that relays for a stopped rule is killed, or a stop that has not returned
has yet to scan it or has already found it. It rests on the order in `handle`,
registration, `setKill`, recheck, and in the console's request, mark, then scan.

### RelayProofs

`PumpsOK` says what a pump holds: until it has ended, sent is delivered, held and unread
together, and `forward` is only set when the source ended cleanly with everything
delivered. `ShutsOK` and `RecordsOK` order the end of a direction: recorded, then
shut, and only then can a peer's end be an answer to it. `ClosingOK` orders `closeAll`:
a reason, `done`, the sockets; and says that a reason of `error` or `cut` has a peer that
did it. `ShortsOK` says that before anything is closed a direction over with was passed on or
has a receiver that refuses more, and so with both when the record says an ordinary end.
`HandlerOK` has the stop: `kill` is set from `setKill` on, so a stop before it is
seen by the recheck and a stop after it closes. `RelayBytesConserved`, `RelayFinAfterData`,
`RelayEndIsTold` and `RelayStopIsKept` follow, for any amounts of data.

### ServingProofs

Three of these modules loop over lists of any length. No theorem of the library is
needed for that: `SetInduction` is induction over the naturals for a set, from which
`BoundedInduction` gives what holds up to a length. A function that is defined by
recursion is a `CHOOSE`, so `FoldExists` first shows that a function with such an equation
exists; from then on the equation may be used, and what a loop computes is a set, over
which to induct.

- `Listeners`: `PortsOK` says that no two listeners hold one address and that a stopped one
  is known but has no socket. `SyncedOne` shows that a turn of the loop of
  `syncListeners` keeps it, whether the listener is renamed, moved, opened or found in use elsewhere,
  `SyncedEach` that all turns do, and `SyncedAll` that after the loop that removes the rest
  nothing is left, socket or mark, of a listener the configuration does not name.
  `PortsAreTheConfig`.
- `RuleTable`, routing: `Ranks` says that a total order of finitely many places gives each
  a number, `FirstSorted` that sorting a list by such an order puts first what comes before all
  others. `config.go` and `console_rules.go` sort by different comparisons; `Priority` and
  `Shown` say which place each puts first among the rules that match, and `MostSpecific`
  that both are the rule the definition of "most specific" gives. `RulesIInv` keeps a file in the form
  these lemmas are about, with the console's rule in it. `RoutingStaysRight`.
- `RuleTable`, edits: a rule has a spot, its item and its place in the item.
  `RulesPlaced` says that the list of rules is the spots in order, so an edit of items can
  be followed spot by spot: `Moves` is a map from old spots to new ones that keeps order and
  rules and misses only the rule that was named. Taking (`TakeMoves`), putting
  (`PutMoves`) and changing one (`ChangeEdits`), and both renames, are each such a map, or two
  after another, also where an item is emptied, removed or added. `EditsStaySmall` (an action
  property): every rule but the one an edit names keeps its value and its place among
  the others.
- `Serve`: `RememberedOK`: the table of passwords is bounded and every password in it is
  the one its hash is of, which is why a change of the hash needs no clearing of the
  table. `AuthOK` says a request that is past a check has the password of the
  configuration it began under; `RetiredOK` that only replaced runtimes are retired and
  only retired ones closed, with no folder open. `ServeIsCurrent` follows.
- `FlowLog`: what a handler is about to publish, what waits in the queue, the history, the
  snapshot and the card are all views of a connection. `ViewOK` says that a view is as far behind in
  number as in what it shows, so that of two views the one with the higher number never shows
  less, and `SentOK` that a view shows the end only when the handler is past it. `CardOK` has
  what a snapshot may have missed while it went through the table: a connection still there that
  one list missed is in the next, which is why a card that two lists in a row missed may be closed.
  `ClosedStaysClosed`. `AllUpserted` follows a batch of events in order, and `CardsNeverGoBack`
  (an action property) says that a step moves a card forward or leaves it.

### TrafficProofs

- `Dialer`: `DialCounted` ties the number of failures `Dial` has received to the
  goroutines that are over, `DialTried` says that in its time a goroutine fails only with
  no address left, `DialSockets` that an open socket has a goroutine yet to report or
  is the result. `DialsRightly` follows.
- `Limiter`: `LimitTat` is the heart: `tat` is ahead of every charge allowed in its era by
  what was charged since. `ChargeKeepsRate` shows that one more charge keeps that and the
  rate, whatever clock the caller read; `LimitEras` that a bucket stands for one era of a
  rule or listener, also when a relay still holds one that a reload replaced.
  `ChargesKeepRate` is for any rates, costs and number of relays.
- `Logging`: `LogOnce` says that what entered the ring is one sequence of lines that
  differ, from each other and from those in hand; `LogCounts` makes the counters sums over
  it. `EveryLineIsAccounted` and `LinesKeepTheirPlace` (an action property) follow.
- `LogFile`: `InOrder` is the order of all forms of all generations, `Rotating` that the
  place above the file being renamed is free, `Compressing` that a file is removed only
  when the other form holds its lines. `GenerationsKeepOrder`; `LinesFallOffLast` is
  proved along with each step.
- `BufferPool`: `ExcessStaysOverlap`; the property is inductive with the types.

### ConsoleProofs

- `SignIn`: `SessionIsTheAnswer` reads the running configuration, which reloads replace
  under a session that stays; what does not change is the session against its own ghosts
  (`SessionOK`). `SignInIsTheAnswer` follows with `GuardsAreReferenced`: a group a guarded
  page asks for is one the cookie keeps.
  `SignInTyped` adds to the types which step of a tab has what: `SignInTypesHold`.
- `LocalCA`: a CA may be deleted and made again while handshakes still hold the old one,
  whose lock is another. `DeadOK`: what somebody still uses of a CA that is no longer open has
  an older key than everything that came after it. `HoldsOK`: who holds a host's lock knows
  what the table has. `KnownOK` says where each issued certificate is that is neither due nor
  removed: in memory, in the hands of who issued it, of an older key than its CA now has, or of
  a CA nobody uses any more. `LocalCALeavesAreRight` is part of the invariant and needs
  them all.
- `CaSettings`: `LoadSeen` says what `loadConfig` holds between its steps;
  `SettingsFollowTheFile`.
- `ConsoleTabs`: `GuessesStayMetered` by `GateOK`; `ViewersAreCounted` by the count being the
  number of pages in three of their places.
- `ConfigSaves`: `SaversExclude`, that who is past `configFileMu` holds it alone, makes
  `SavesBuild` true: a save that passed the check has the file's text under it unless
  another program came in between. `SavesNeverUndo` and `OverwrittenIsKept` are action
  properties; `CredsThere` follows the file of credentials through the steps of a save, for
  `SavedCredentialIsThere`.

### PartsProofs

`OneRuns` and `OthersRest` say that a step of `MCParts` is a step of the component chosen and
leaves the others alone, so that each of its behaviours is one of that component
(`Behaviours`). The theorems of the components then give `PartsStayRight`, `RulesKeepRouting`,
and, for the action properties that join several modules, `LogsStayInOrder` and `EditsAreKept`.
With them each invariant and each action property that a run finds to hold is a theorem
of the specification the run checks.

### Only model-checked

Liveness and everything under fairness, which is out of the prover's reach: `JobsEnd`,
`NeverForgotten`, `CallsReturn`, `HalfCloseEnds`, `StopEnds`, `IdleEnds`, `PartsProgress`.

## 5. Not modelled

`PROJECT.json` lists every part with what is left out of it. In short:

- bytes: the ClientHello and PROXY headers, TLS records, WebSocket frames, YAML text and
  layout, passwords' hashes, what is in a certificate. Their outcomes are choices of the
  modules that use them;
- what net/http does: files, listings, headers, the reverse proxy, the redirect's answer;
- what only adds up or only shows: counters per host and rule, rates, the console's
  pages and listings, `oidc_check.go`, the wording of logs;
- the table of hellos for loop detection, a probabilistic filter: losing a race costs
  one more hop;
- configuration keys other than listeners, rules, groups, the redirect and what a module
  takes as a constant; creating and importing CAs and changing the console's password,
  which write one file each; `Stop` of a replaced buffer pool, which ends its goroutine;
- flags, signals and directory syncs.

## 6. Plan

The modelling planned is done, in the order of the table of modules, and so are the
proofs of the safety properties.

Left: a refinement of `Server`'s counters to an atomic admission; and the two hazards
without a property, a wait for the limiter longer than `idle_timeout` and a listener that
is stopped between accept and registration, which are how the code is.
