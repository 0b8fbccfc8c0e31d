# vlb, modelled in TLA+

`vlb` is a daemon that turns a Linux box with several uplinks into a gateway
with automatic failover. It probes every uplink, elects the provider that owns
the default route, installs that route in the kernel, and keeps it there.
These modules model the part of it that must not go wrong: which provider
owns the route, when the route moves, what happens to the connections that run
over it, how a provider is declared working or broken, what a start makes of
the machine it finds, what is counted, and how the binary is replaced.

Paths below are relative to the repository (`src/src/...` in the mapping file
`PROJECT.json`, which names the lines behind every definition).

## 1. Inventory

| Component | State it keeps | Operations | What is hard | What makes it correct |
|---|---|---|---|---|
| Selection (`core/selection.rs`) | `FlapTracker::switches` | `decide`, `best_healthy`, `effective_failback`, `record_switch` | sequences of verdicts, pins and restarts; window arithmetic | a broken incumbent is left at once; a usable pin wins; every move has a reason; damping neither starves nor is defeated |
| Failover (`core/balancer.rs`, `net/router.rs`) | `active`, `active_adopted`, `force_override`, the persisted pin, the kernel's default routes, conntrack | `reconcile_inner`, `route_watchdog`, `force_provider`, `clear_force`, `Balancer::new`, `shutdown` | many tasks; views read before the lock; steps that fail; crash between route and flush; other tools editing routes | the kernel's route is the active one; flushes exactly when the route moved; watchdog and switches never undo each other; the pin is durable; the gateway converges |
| Health loop (`health_loop`, `run_canary`, `run_throughput`, `apply_probe_result`) | `ProviderState` | one round per tick | counters with different thresholds, probes that run on different schedules, verdicts older than the outage | rises only on proof; falls when it should and never without evidence; recovers; the cause is named |
| Probes (`net/health.rs`, `net/canary.rs`, `net/http.rs`) | none | ICMP burst, DNS, integrity, canary quorum, throughput classification | combination rules; answers that are late, cut short or somebody else's | proof and failure to prove are told apart |
| Pinning chain (`net/pin.rs`) | the `VLB_PIN` mangle chain | `ensure_jump`, `install`, `remove` | new connections between two edits; order of jump and chain; a run that switches it off | a connection carries the mark of a provider that was active; off means off |
| Startup (`main.rs`, `net/system.rs`) | policy tables and rules, sysctl, NAT, provisional default | `prepare`, `setup_provider_policy_route`, `ensure_bootstrap_default` | leftovers of earlier runs with other settings, partial failure, interfaces that are not there yet | a mark selects its uplink whatever was there before; what is configured is applied; a default is never taken away before there is another |
| Configuration (`core/config.rs`) | none | `validate`; mark, table and rule numbers | arithmetic over priorities and masks | no two providers share a mark, table or rule |
| Client accounting (`clients_loop`, `flush_client_buckets`, `net/clients.rs`) | `ClientMonitor`, live clients, buckets, sessions, the chain `VLB_CLIENTS` | sample, fold, write, flush, add and drop rules | counter resets, two writers at shutdown, limits, resumed sessions | no byte is recorded twice or dropped between two places; a session is a presence; rules stay bounded |
| Uplink traffic (`traffic_loop`, `net/uplinks.rs`, `net/traffic.rs`) | last readings, the chain `VLB_UPLINKS` | install, snapshot, attribute, delta | two kinds of counters, shared interfaces, a chain that is lost and put back | an interval is recorded once; attribution is exact |
| Update (`core/update.rs`) | the binary, its backup, the service | `perform`, `rollback` | crash or failure between any two steps | there is always a binary that starts; what is reported is true |
| Statistics (`obs/stats.rs`) | SQLite tables | insert, retention, `compact`, `failover_times_since`, kv | what is restored from it after a restart | what the daemon reads back is what it wrote |
| Control server (`ui/control.rs`) | connection count | force, auto, status | concurrent commands, the limit of connections | commands are serialised where it matters |
| Log repetition (`obs/repeat.rs`) | counters | `FailureLog`, `OutageLog` | sequences | one line per outage |
| TUI, formatting, logger, sysmon, sd_notify, shell scripts, installer, test lab | – | – | – | presentation and plumbing |

How they interact. `main` runs `system::prepare`, which sets up what the rest
relies on and leaves behind what it cannot do yet. Then each provider has a
`health_loop` task, which first retries its policy table. A round ends in
`apply_probe_result`, which writes that provider's entry in the shared
`providers` map and evicts the pinned connections of a provider that just went
down, and in `reconcile_inner`, which reads the pin, then the map, and then
takes the write side of `active` and holds it until the route, the pinning
chain, conntrack and `active` itself are done. `force` and `auto` arrive over
the control socket, change `force_override` and its persisted copy and call
the same function. The route watchdog compares the kernel's default routes
with `active` under its read side and repairs them. Two sampling loops read
kernel counters: `clients_loop` per client, under its own lock on the live
state, and `traffic_loop` per interface and provider, which asks `active` who
gets the unmarked bytes. Nothing is undone on shutdown but the clients' buckets
are written: the next instance adopts the installed route, rules, chains and
open sessions, restores the pin and rebuilds the flap history from the database.

## 2. Modules

| Module | What it is |
|---|---|
| `Selection` | pure operators of `core/selection.rs`; no state |
| `Gateway` | the route's owner over real time: one step per handler, seconds, flap window, restarts |
| `Failover` | the same handlers split at every await point, with the kernel, the disk, other tools and failures |
| `Probes` | pure operators of `net/health.rs`, `net/canary.rs` and `net/http.rs`: what one probe makes of the network's answers |
| `ProviderHealth` | one provider's `health_loop`: which probes run, counters, roll-up and hysteresis; runs `Probes` on what an uplink may do |
| `Verdict` | abstract specification: what the rest of the daemon may assume of a verdict; `ProviderHealth` refines it |
| `Config` | the defaults, `validate`, and the numbers derived from a configuration |
| `Host` | `system::prepare` and the later changes of policy routing, over a kernel that outlives the daemon; starts only with configurations that `Config` accepts and installs its numbers |
| `Accounting` | `clients_loop` in three steps between the kernel's counters, memory and the database |
| `Uplinks` | `traffic_loop` in three steps over interface counters, the chain and `active` |
| `Update` | `vlb update`: staging, checks, swap, restart and rollback over the files beside the installed binary |
| `SelectionProofs`, `GatewayProofs`, `FailoverProofs`, `ProviderHealthProofs`, `HostProofs`, `AccountingProofs`, `UplinksProofs`, `UpdateProofs` | theorems |
| `MCGateway`, `MCFailover`, `MCProviderHealth`, `MCHost`, `MCAccounting`, `MCUplinks`, `MCUpdate` | finite instances for TLC |

`Gateway` and `Failover` extend `Selection`. They are two cuts through the same
code: time and flap damping need many seconds and few interleavings,
concurrency needs many interleavings and no clock. What one abstracts, the
other has: in `Failover` "has been healthy for the failback window" is the set
`settled`, which a provider enters at any time after it came up (`Settle`) and
which a counted switch may empty (the window doubles); in `Gateway` it is
computed from `since` and `now`. `ProviderHealth` explains where verdicts come
from; the two others let any provider get any verdict in any round, which is
more than `Verdict` allows. `Host` explains where the tables come from that
the probes rely on (`ready` in `ProviderHealth`), and lets any provider be
elected whose marked probes can come back; what the election does to routes
at metric 0 under interference is `Failover`'s. `Uplinks` lets `active` be
anyone at any time. `Update` stands alone: all it does to the daemon is
to restart it, which is `Restart`, `Stop` or `Kill` of the others.

Definitions marked `mutant` in a comment are plausible bugs; no specification
uses them, they exist to show that a property notices.

### Selection

`Healthy`, `BestHealthy`, `Settled` are the predicates of `ProviderView`;
`Decide` is `decide`, split into the pinned case, the cold start and the case
with an incumbent. A decision is a record of its kind and its target: the
reason text and the countdown shown to the operator are left out.
`EffectiveFailback`, `RecordSwitch`, `SwitchesInWindow` are `FlapTracker`. The
code clamps the exponent to 16 and saturates; both are past any cap the
configuration allows.

### Gateway

| TLA+ | Code |
|---|---|
| `owner` | `Balancer::active`; here also the installed route |
| `state`, `since` | `ProviderState::state`, `up_since` |
| `forced` | `force_override` and its persisted copy |
| `switches`, `failovers` | `FlapTracker::switches`; the times of the newest rows of the `failovers` table |
| `ProbeRound(p, s)` | a tick of `health_loop`: `apply_probe_result`, then `reconcile_inner` |
| `ForceProvider`, `ClearForce` | the two commands |
| `Restart` | a crash, reboot or update followed by `Balancer::new` |
| `Tick` | a second passes; each loop ticks at most once in it |

### Failover

| TLA+ | Code |
|---|---|
| `state`, `settled` | the `providers` map as `reconcile_inner` sees it |
| `active`, `adopted`, `forced`, `stored` | `active`, `active_adopted`, `force_override`, kv `forced_provider` |
| `routes` | the defaults at metric 0: ours (`proto static`), another tool's, and which the kernel lists first; `Fallback` is a default at a higher metric |
| `chain` | the provider whose mark `VLB_PIN` stamps on new connections |
| `flows` | the next hops to which a tracked connection is bound (by NAT, or by its mark) |
| `lock` | the holder of `active`; the watchdog holds its read side, which excludes the same writers |
| `seen`, `plan` | a task's local variables: the view read before the lock, the decision taken under it |
| `pc` | where a task awaits |

The path of `reconcile_inner` through `pc`:
`readPin`, `readView` (before the lock), `wait` (for the lock), `repin`, then
for a switch `install`, `flush`, `commit`, and when the incumbent is kept
`verify` (an adopted route is asserted once) and `assert` (after an operator
command), then back to `idle`. `Judge` is the verdict, `Evict` the eviction by
mark before reconciling, `Command` and `Persist` the two writes of a command,
`Look` and `Reclaim` the watchdog, `Restart` a crash at any of these points
with or without a reboot. `External` is any edit of the default routes by
netplan, NetworkManager or a DHCP client, and `Connect` a new connection.

Every best-effort step may fail when `Faults` names it: `route` (the
replacement is refused), `scrub` (rival defaults stay), `read` (the table
cannot be read), `pin` (the chain update is rejected), `flush` (conntrack
fails), `persist` (the database rejects the write).

Left out: outage log lines, the status file, the failback countdown, the TUI,
statistics that nothing reads back, `dry_run`, a pin in the database that
names no configured provider.

### Probes, ProviderHealth and Verdict

`Probes` is what the code computes from the network's answers: a burst of
echoes, the replies of the resolvers (a DNS reply is silence, an error, empty,
an alias without address, or its first address), how an HTTP exchange ended and
how its body was framed, the verdict of one canary target, the quorum, and the
classification of a transfer, with the code's integer arithmetic for kbit/s.
It keeps two facts that a reader may miss: names among `probe_targets` have to
resolve to a public address whatever the pinged addresses do, so that lost DNS
is an Internet failure before the DNS layer's own threshold is asked
(`health.rs:313`), with less patience than the documentation promises a lost
lookup; and only the chunked framing notices a body cut short
(`http.rs:453`), although `http.rs:213-215` promises "never a half-body", so a
canary truncated by a lossy link counts as wrong content.

`ProviderHealth` describes an uplink as a wire, the set of answers to each
probe. `Observed` runs every probe of `Probes` on every such answer, and keeps
one observation of each kind the loop tells apart. One step is one round:
whether a probe runs (`CanaryDue`, `ThroughputDue`, a missing policy table),
what it does to the counters (`RunCanary`, `RunThroughput`, `CountDns`), which
layer is blamed (`ReachabilityFailure`, `CapacityFailure`) and whether the
provider turns (`ApplyProbeResult`) are the code's. All layers are switched on;
time is counted in ticks; a counter is counted up to its threshold because the
code only compares it with that. `weather` says which wire there is at present,
so that liveness can ask what becomes of an uplink that is clear, capped or
intercepted from now on after having behaved in any way before. On a lossy wire
any packet may be lost, also the replies to lookups of target names, as long as
no layer misses as many answers in a row as its own threshold; `lost` counts
what each layer has missed. `lost`, `lastCanary` and `held` are history
variables that no step reads back into the code's state. An uplink that
alternates between good and bad rounds for ever never gets a verdict, which is
why liveness is stated of uplinks that settle.

### Config and Host

`Config` has the settings as records with the shipped defaults, `Accepted` as
`Config::validate` section by section, and `TableFor`, `MarkFor`, `RulePrefFor`
with the wrapping arithmetic of the release build. What a text is (an address,
a host name, a URL) is the constant operator `Kind`. Some things `validate`
accepts on purpose or by oversight, and the model accepts with it: pinning
without a LAN interface, `persist_every_secs` above `offline_after_secs`, any
`dns_failure_threshold`, and masks that lack bits of a mark in between (only the
first and last mark are compared: base 0x1ff, priorities 1 to 3 and mask 0x202
make two providers look alike to the kernel, against the comment at
`config.rs:1107`).

| TLA+ (`Host`) | Code |
|---|---|
| `file`, `cfg` | the configuration file, which the operator edits between runs; what the daemon read at its start |
| `pc`, `next` | how far `prepare` is: sysctl, NAT, one table after the other, the suppress rule, pinning, the provisional default; then `up` |
| `target`, `replace`, `tidy` | the first part of `set_default_route` and `drop_bootstrap_default` after it, with the kernel in between |
| `memory` | the providers without a table, `owns_bootstrap`, and the adopted or elected provider |
| `rules`, `tables`, `main` | `ip rule`, the default of each provider's table, the defaults of the main table |
| `firewall`, `pinning` | forwarding, the FORWARD policy and MASQUERADE rules; hooks and mark of `VLB_PIN` |
| `SetUpHalf` | `setup_provider_policy_route` up to a command that is refused: the provider stays without a table for the health loop to try again |
| `refused` | history: what this start was refused and went on without, the suppress rule (a warning) or the flush of the pinning chain (`pin::remove` looks at no result) |
| `Egress(mark, dest)` | the kernel's lookup: the rules in order, then main |

`Faults` of `Host`: `refuse` (a command fails; the start ends, or goes on
without what was refused where the code does), `kill` between any two steps,
`reboot`, `link` (an interface goes down: the kernel drops its routes).
Interfaces come up at any time, with or without a default route of their own.
Not modelled: the wording of warnings, `dry_run`, the removal of rival
firewalls.

Leftovers that no later start removes are visible in the model and outside its
properties: rules and tables at other numbers, after `table_base` or
`fwmark_base` is changed; rules ahead of ours, after a kill between the policy
and the suppress rule with a lower `rule_pref`; the hook on a LAN interface that
is no longer configured (its chain is emptied, so it stamps nothing); a
provisional default, after a kill between the installation of the first route
and its removal, until the next start adopts it. A default an operator made with
metric 4096 is taken for a provisional one.

### Accounting

| TLA+ | Code |
|---|---|
| `here`, `neigh`, `chain` | hosts, the neighbour table, the rules of `VLB_CLIENTS` and what they read |
| `monitor` | `ClientMonitor`: tracked clients, baselines, who was nudged |
| `live` | `Balancer.clients`: presence, session, pending bytes, ages |
| `todo` | what a tick still has to write, after it released the lock |
| `sessions` | open rows of `client_sessions` |
| `Discover`, `Sample`, `Write` | a tick up to the rules it installs, up to the release of the lock, and its writes |
| `Flush`, `Abort`, `Kill` | the shutdown's flush, which runs while the loop still does; the loop's end; the process's |
| `Talk` | traffic of a host that no rule counts: what the kernel knows of it is its neighbour entry |
| `Adoptions`, `Readings` | the counters, or nothing where they cannot be read |
| `due`, `back` | history: bytes counted and not recorded yet; hosts that came since they were last seen |
| `spoilt` | history: clients of which a rule was left behind, or a reading lost |

Bytes a kill takes with it, a client that is forgotten with bytes pending, and
traffic across a counter reset are lost by design, and `due` leaves them out.

A client has two rules, one for each direction, and every `iptables` command may
be refused. `add_rules` stops at the first refusal, so a client may have a rule
and not be tracked, and get it again in the next tick; `forget` drops the
client whether or not `-D` worked; a reading that fails is taken for zeroes. The
model does all of that, and from then on the client is in `spoilt`: what is said
of bytes and of the number of rules is said of the others. `MaxSpoilt` bounds how
many there are, so that the run still has one left to speak of. Nothing removes a
rule that was left behind but the client's next `forget`, which deletes one
of each.

### Uplinks

| TLA+ | Code |
|---|---|
| `net`, `prev`, `delta` | `/proc/net/dev`, the last reading, what the interface moved in this interval |
| `chain`, `counters` | `VLB_UPLINKS` with its counters; whether this run uses it, and its last reading |
| `Snapshot`, `ReadChain`, `Record` | a tick up to the interfaces' counters, up to the chain's, and from the lock on `active` on; switches, packets and other tools come between them |
| `RecordByInterface` with `LostChain`, `NoChain` | the tick without a reading of the chain: rows per interface while it is put back; per interface for good |
| `grown` | what each counter of the chain grew by, until the tick has read `active` |
| `passed`, `carried`, `steady`, `owed` | history: bytes in the interval; what each provider forwarded while nobody disturbed the interval; what a tick that has read the chain should record |

A chain that another tool unhooks from FORWARD can still be read, so it is not
put back and counts nothing from then on; one that cannot be installed at the
start is not tried again; and an interval with a switch credits all its
unmarked bytes to the new active provider, although `uplinks.rs:24-27` calls
the attribution exact. That also befalls an interval that had no switch:
`traffic_loop` reads the chain at `balancer.rs:3084` and then waits for the
lock on `active` (3087), which a switch may hold. The first two lose traffic
from the display, the third moves it; `EachToItsOwn` is about intervals without
them, and counts a switch until the tick has that lock.

### Update

| TLA+ | Code |
|---|---|
| `file` | what the installed path, `vlb.bak`, `.vlb.update.new` and `.vlb.rollback.new` hold: a build, nothing, or a file not written to its end (`Torn`); `deleted` is "vlb (deleted)", the name the kernel gives a process for its own binary after another file has taken its place |
| `running` | the build the service's process runs |
| `replaced` | the updating session runs from a file it has replaced, so `current_exe` names `deleted` |
| `pc`, `job` | where `perform` or `rollback` awaits, and its local variables; `previous` and `mishap` are history |

A build is one of nested kinds, which is all the checks can tell apart: those
that execute here (`Runs`, `verify_runnable`), accept the configuration
(`Accepts`, `validate_config_with`), and then either come up and answer
(`Serves`), stay up without answering (`Hangs`) or crash. A write or a copy is
two steps, so that a fault or a kill may leave the file torn. `Begin` is a
command (a new process of the installed binary) or a dashboard that updates
again. While the updater watches, the service is not started behind its back:
systemd waits 2 s (`RestartSec` of the unit) and the updater asks every 0.5 s,
`Patience` times in 30 s (`polls`; `Unanswered` is a question that found the
service active and got no answer). Then it stops asking, whatever the service
is: `Deadline` accepts the build with a note, also one that has gone down since
the last question. `Faults` names what may fail: `write`, `copy`, `rename`,
`systemctl`, and `kill`, which ends the updater, or the whole machine, between
any two steps.

Left out: the release query, the download and its checksum (they touch no file;
an update begins with a published build), the order of versions, a second
updater at the same time, the unit file, and a build that crashes only after it
has answered.

## 3. What is checked

State counts are distinct states; every run ends within two or three minutes.

| Run | Instance and bounds | What it shows |
|---|---|---|
| `Gateway_promises` | three providers, base window 1 s, maximum 3 s, threshold 1, five seconds, any commands and restarts; 889 k states | `EscapeIsImmediate`, `PinWinsWhenUsable`, `FailbackIsNotStarved`, `MovesAreJustified` |
| `Gateway_flapping` | a flapping primary and a steady backup, restarts, no operator; 2.2 M states | `SwitchRateIsDamped`: the doubling window bounds the switches in any flap window even when the history is rebuilt from the database |
| `Failover_restarts` | two loops, one operator, the watchdog, routes that may be refused, a higher-metric fallback, a crash or a reboot at any step, one change of verdict after the first ones; 4.2 M states | `NoStaleFlows`, `OnlyMovesResetFlows` (connections are reset exactly when the route really moved), `RouteFollowsActive`, `PinIsDurable` |
| `Failover_pinning` | connection pinning and an operator, evictions that may fail, two changes of verdict; 2.5 M states | `ChainFollowsActive`, `SwitchSparesPinned` |
| `Failover_convergence` | fairness, a stored pin; a change of verdict and an edit of the routes at any time; 734 k states | `WatchdogNeverUndoesSwitch`, `Converges` |
| `ProviderHealth_verdicts` | the shipped canary, an address and a name to ping, two resolvers, thresholds 2 and for DNS 3, any weather, fairness; 15 k states | refinement of `Verdict` (`VerdictSpec`), `NeverUpOnTamperedContent`, `NoFalseAlarm`; `Recovers`, `ThrottlingIsNamed`, `InterceptionIsCaught` |
| `Host_starts` | five configurations of two providers (as shipped, pinning, renumbered behind another router on one wire, pinning and firewall off again on another LAN, a mistake), refusals, kills, reboots, link changes; 1.6 M states | `MarksSelectUplinks`, `SettingsAreApplied`, `NeverWithoutDefault` |
| `Accounting_clients` | two clients and room for one, symmetric, one of them spoilt at most; a timeout of one tick, refused and half-installed rules, lost readings, reloads, restarts, kills; 1.9 M states | `EveryByteIsAccountedFor`, `SessionsMatchPresence`, `RulesStayBounded`, `HereIsNeverGone` |
| `Uplinks_traffic` | three providers on two interfaces, the two behind one interface symmetric, every fault; 4.5 M states | `RowsFitTheInterval`, `EachToItsOwn` |
| `Update_mishaps` | two builds that serve and one of every other kind, any number of updates, two questions before the deadline, all faults but a failing copy; 1.0 M states | `InstalledStarts`, `PreviousIsAtHand`, `ReportIsTrue`, `UpdateKeepsServiceUp`; `CrashingReleaseIsUndone` |
| `ProviderHealth_moved_endpoint` | a good uplink whose throughput endpoint has gone | violates `BrokenEndpointIsNotThrottling` (below) |
| `Host_link_flap` | one configuration, a link that goes down and comes back | violates `ProbesTestTheirOwnUplink` (below) |

Each state machine's `TypeOK` is an invariant of one of its runs; those of
`Host` (no rule twice, one default of each kind) and `Accounting` (ages in their
range) say more than types.

Why the bounds are enough. Selection compares a current, a better and a worse
provider, so three providers reach every branch of `Decide`; two are enough for
the interleavings, which are about one task undoing another's work. A
threshold of 1 with a maximum of three base windows makes the window double,
hit its cap and shrink again within the clock's bound. The first verdict of a
provider is free, so with one change after it a gateway can switch, fail back
and switch again while another task holds a stale view; one crash is enough
because a restart leaves nothing of the daemon but the kernel's and the disk's
state, which the run reaches in every form before it. Thresholds of 2 are the
smallest at which a counter has a value between reset and reached; DNS has 3, so
that its patience is longer than reachability's, as shipped; and
`ThroughputEvery` = 3, `MinSpacing` = `CanaryEvery` = 2 keep the scheduled and
the early measurement apart. `Host` needs no bound on starts: rules are only
added after they were drained, so its states are finitely many; its numbers are
16 bits wide because TLC's own integers have 32, and the defaults fit. In
`Accounting` one client more than there is room for reaches the ceiling, a
timeout of one tick tells a missed tick from a departure, and counters that
read 0 or 1 tell a reset from growth; in `Uplinks` likewise, with two providers
on one interface and one alone. What more bytes, clients or providers do to
`EveryByteIsAccountedFor`, `RulesStayBounded` and `EachToItsOwn` is proved
(section 4). Symmetry is sound there: these runs check no liveness, and nothing
in the modules chooses among clients, or among the providers behind one interface.
`Update` needs no bound on updates; two questions are enough to tell a service
that dies between two of them from one that outlives the last.
Two serving builds tell the binary that was replaced from an older one left in
`vlb.bak`. Deadlock checking is on everywhere.

### Fairness

`Failover`: weak fairness of each health loop (its ticker never stops and its
child processes end), of each operator's task, of a provider that stays
healthy becoming settled, and of the watchdog's repair. Strong fairness of
`Look` only: tokio's `RwLock` queues its waiters, so a watchdog
that asks for its read side again and again is not passed over for ever. No
fairness for commands, other tools, new connections or crashes. `Converges` is
of the form "eventually always" because the instance bounds verdicts and edits:
it says what holds once the world holds still.

`ProviderHealth`: the loop's rounds go on and a missing interface appears in
the end. Nothing is assumed of the weather except what each weather means.

`Update`: the updater's awaits return. Nothing makes a build that cannot stay up
go down in time, or anyone begin an update, start the service or kill anything.

`Host`, `Accounting` and `Uplinks` state no fairness and no liveness: what they
promise in the end (a default route, a closed session, a chain put back) depends
on commands that may be refused for ever.

### Where the code and its documentation part

Two runs check the statement quoted beside the definition and end in a
counterexample.

* `ProviderHealth_moved_endpoint` – `BrokenEndpointIsNotThrottling`.
  `run_throughput` counts a measurement that could not be made like one that was
  too slow. When the throughput endpoint answers 404, two measurements take
  down every provider, named as throttled.
* `Host_link_flap` – `ProbesTestTheirOwnUplink`. The kernel drops the route of a
  provider's table when its interface goes down, and nothing puts it back:
  the table counts as set up. From then on the provider's marked probes fall
  through to main and test whichever provider owns the default route.

More of the kind, met while modelling; the properties speak of the executions
without them:

* A restart while the pinned provider owns the route makes one detour: it is
  `Unknown`, `decide` takes that as unusable under a pin, and the best healthy
  provider gets the route until the pinned one has its verdict. The guard
  that keeps an unproven incumbent is only reached without a pin.
* Two operators at once: `force` writes memory, `auto` clears memory and disk,
  `force` then writes the disk. The daemon is unpinned and its successor pinned.
  `PinIsDurable` has one operator.
* The watchdog's flush (`balancer.rs:1984`) does not ask whether connections are
  pinned, although README.md:358 counts it among what moves nothing that is
  running. `SwitchSparesPinned` leaves the repair out.
* A daemon killed between route and flush leaves connections its successor does
  not flush, as it finds its own route installed; `NoStaleFlows` speaks of
  the time before the first crash. A connection opened between eviction and
  re-aiming stays with the dead provider.
* A failing copy to `vlb.bak` is only logged (`update.rs:328-332`) and the swap
  goes on; a rollback then has nothing, an older binary, or a torn file to
  restore, against `update.rs:19` and the advice of `update.rs:621`.
* After an update, also one that was rolled back, a dashboard runs from a file
  that has lost its name. Its next update goes to "vlb (deleted)", restarts the
  service on the old file, and reports success.
* A release that has not answered when the 30 s are over is accepted with a
  note (`update.rs:428`), where README.md:701 says it is rolled back; also one
  that is down by then, for nobody asks again after the last sleep, against
  `update.rs:222`. The note calls the service active either way.
  `UpdateKeepsServiceUp` has this as its third outcome, and
  `CrashingReleaseIsUndone` speaks of releases that go down while the updater
  asks.
* A lost lookup of a probe target's name is the reachability layer's, with
  `failure_threshold` (2 by default) and not `dns_failure_threshold` (4), although
  README.md:329 and `config.rs:581-588` promise the DNS layer's patience; the
  shipped targets hold a name. `NoFalseAlarm` holds each lost answer to the
  patience of the layer that asked.
* The refusal of the suppress rule is a warning (`system.rs:166`), and local
  traffic with a mark may leave by an uplink from then on; `pin::remove` looks at
  no result (`pin.rs:182-216`), so a start with pinning off may leave the chain
  stamping, although "turning the feature off has to actually turn it off"
  (`system.rs:176`). `MarksSelectUplinks` and `SettingsAreApplied` name both.
* A counting rule that was left behind by a refused `-D` (`clients.rs:382`) or
  by a refused second `-A` (430-465) is not counted against `max_tracked`, and
  the client's next baseline is missing: when it comes back, what the rule
  reads is recorded again, or a direction twice. A reading that fails is taken
  for zeroes (489), and the next one records the whole counter again.
* A session that is resumed counts as seen at the restart (`balancer.rs:2496`):
  a client that left while the daemon was down is connected until then and for the
  grace period, where `balancer.rs:2470-2472` speaks of "the right moment".
* The provisional default is tried once, at the start (`system.rs:193-293`). If
  no interface is up then, and none brings a default of its own, replies to
  probes are dropped for lack of one, so no provider is ever found to
  work; README.md:115 says such providers are retried.

## 4. What is proved

Every invariant and every action property of the passing runs but one
(`HereIsNeverGone`) is a theorem; that one and liveness are left to TLC. The
theorems hold for every set of providers, clients, configurations, priorities,
windows, thresholds and bounds that satisfies the named assumptions of the
modules; those are what `Config::validate` enforces (unique names and
priorities, ordered windows, positive thresholds), finiteness, and that the
model values are distinct from each other and from numbers and records.
`SettingAssumption` (a setting is a record of the file's shape, with natural
numbers, `Typed`) and `TargetsAssumption` say the same of what `Host` and
`ProviderHealth` are given. What a theorem needs beyond that is a hypothesis of
its statement, listed here; the instance of the run that checks the property
satisfies it, unless it says otherwise.

* `SelectionProofs`. `BestHealthyIsBest` (the least priority number exists, as
  the providers are finite and the numbers natural and distinct); `Decide`
  switches only to a healthy provider, obeys a usable pin, leaves a broken
  incumbent, keeps an unproven one and fails back only to a settled one;
  `EffectiveFailback` lies between the base and the maximum window and grows
  with the switches counted (`EffectiveFailbackGrows`); a recorded switch is the
  last element and the rest a suffix (`RecordedElements`), and the recent ones
  among ordered times are the newest (`RecentAreNewest`).
* `GatewayProofs`. `TypeCorrect`, `EscapesAtOnce`, `PinWins`,
  `OnlyJustifiedMoves`, `FailbackHappens`: every property of
  `Gateway_promises`. One lemma, `ReconcileGuarantees`, says what
  any call of `reconcile_inner` leaves behind; each action is then one step.
  `TypeOK` is inductive as it stands because it ties `since` to `state`.

  `SwitchesAreDamped` is the property of `Gateway_flapping`, for one uplink next
  to a steady backup it is preferred to, without an operator (`FlappingUplink`).
  Its invariant `Damping` says that what the tracker remembers is the newest part
  of the table with all of the window (`Restored`), so a restart forgets nothing
  that counts; that switches alternate; and that a return comes no sooner after
  the escape before it than the window asks for which all switches since
  the first of the flap window are counted in (`Spaced`, `Returned`, `Left`). So
  every further pair of switches costs a window, and a budget holds if the
  prices add up to more than the flap window: `Priced(cost)` states that as a
  bound on a table of prices, because the sum itself is a recursion. For the
  instance they are cost[3] = 1, cost[5] = 5, cost[7] = 9 > 8.
  The theorem leaves out a reboot of the machine (`RouteSurvives`): it takes the
  route with it, and a cold start installs one without waiting and without
  counting it. The run includes reboots.
* `FailoverProofs`.
  * `TypeCorrect` – `TypeOK` alone is not inductive: a plan's target must
    be a provider while a thread is at a place that installs it. `TypeInv` adds
    that.
  * `WatchdogIsHarmless` – from `LockInv`: a thread is inside a critical place
    iff it holds `lock`, the watchdog's plan is the active provider while it
    holds it, and only a holder writes `active`. No assumption on faults, edits
    or crashes: this is the claim "serialised on the same lock" in full.
  * `RouteIsActive` – from `RouteInv`, assuming no other tool edits the routes
    (`MaxExternal = 0`) and rival defaults can be removed. It relates `Path` to
    the place of the lock's holder: until the installation it is still `active`,
    after it the plan's target. A refused route, a crash at any step and a
    reboot keep it.
  * `FlowsAreFresh`, `ResetsAreMoves` – from `FlowInv`, assuming also no
    pinning, a readable table and a flush that works. The route read under the
    lock stays the kernel's until this thread installs its own; a thread about
    to flush has moved it; nobody else leaves connections on another next hop
    before the first crash.
  * `PinOutlivesRestart` – from `PinInv`, with at most one operator and a
    database that accepts writes: between the two writes the plan holds what
    memory has and the disk will get.
  * `ChainIsActive` – from `ChainInv`, with pinning on and neither chain updates
    nor routes refused (`Aimed`): the chain is the active provider's, or a
    holder of the lock has aimed it at the target of a switch it is about to
    commit. Edits by other tools, crashes and reboots are allowed. A refused
    route is not, as it leaves the chain on the provider not switched to, which is
    a listed hazard.
  * `PinnedAreSpared` – from `SpareInv`, with pinning on, a readable table, no
    interference and no crash (`Spared`): the route a thread finds is the one
    it takes for the active provider's, so none ever goes on to flush, and only a
    provider that is down has its connections evicted.
* `ProviderHealthProofs`, from `HealthInv`, which ties every counter to its
  threshold and every verdict to the counters behind it. `TypeCorrect`,
  `VerdictImplemented` (the refinement of `Verdict`, step by step) and
  `TamperedNeverRises` hold for any network, targets and thresholds.
  `NuisancesAreNoAlarm` also goes through the probes themselves: what lost
  answers and a busy line do to `probe_all`, to DNS, to each canary target and
  its quorum and to the measured rate. `LossCounted` says that the counters of
  DNS, canary and throughput are the answers those layers have missed in a row,
  and a round keeps the entry `Unsuspected`. It needs no target that expects
  status 511 (`HonestAnswersPass`): the configuration accepts one, and the
  canary then takes the honest answer for a portal's (`canary.rs:448`).
* `HostProofs`.
  * The numbers of `Config`. In every accepted configuration the derived numbers
    do not wrap (`NoWrap`), so no two providers share a table, a mark or a rule
    preference (`NumbersAreDistinct`), none gets a reserved table or mark 0, and
    their rules lie between the suppress rule and main (`NumbersAreUsable`); a
    canary that is accepted can be passed, and not by nobody (`QuorumCanBeMet`).
    These are facts about operators, without a state.
  * `TypeCorrect` – that no rule is there twice and the rules stay in the order
    of preference is the larger part. Refreshing a provider's rule is a drain
    and an insertion: `SiftKeepsOrder`, `SiftInOrder` and `ConcatInOrder` say
    what these do to an ordered list (`RefreshedInOrder`).
  * `SettingsApply` – from `Applied`: each stage of the start, once passed, has
    left its setting in the kernel, or `refused` names it, and no later stage
    undoes it. Other refusals, kills and reboots end the daemon and with it the
    claim.
  * `LastDefaultStays` – from `Kept`: every default leads over a usable
    interface, and between the two commands of an election the elected
    provider's route is in main, unless its link was lost. A provider with a
    table is not set up again, so the history of lost links is not
    forgotten in between.
  * `MarksSelect` – from `TablesReady` and `SuppressReady`: a provider set up
    in this run whose link stayed has its table and its rule, and once the
    suppress stage is passed the suppress rule is there, unless it was refused,
    and, by its preference, first. A lookup of the mark then passes it, and any
    rule that answers the mark leads to the provider's own table, whatever
    earlier runs left. Its hypothesis `OneNumbering`: the settings tried on one
    kernel number their providers from the same bases and mask, and the mask
    tells all marks apart. The code ensures neither: a changed base leaves the
    rules of the old one in place, and `validate` compares only the first and
    the last mark.
* `AccountingProofs`.
  * `TypeCorrect`, `BytesAreConserved` – from `Counted`: the property itself, the
    shape of every record, what each stage of the loop has in hand (`Stages`), and
    that a monitor tracks every client with a rule but those of which one was left
    behind; without the last one a client forgotten by the monitor could keep a
    counting rule. All is said of the clients outside `spoilt`, whatever the steps
    do to the others. One lemma per action;
    `SampleCounts` follows one client through the fold.
  * `RulesAreBounded` – from `Bounded`, which adds the property to `Counted`:
    as a monitor that reads tracks every client outside `spoilt` that has a
    rule, those of earlier runs included, the ceiling on the tracked is one on
    the rules.
  * `SessionsAgree` – from `Present`, which says for each client how its session
    row, its presence and the two lists of the tick in hand agree at each stage,
    and `Settled`: no bucket still holds bytes of a session that was closed. The
    latter needs that buckets are written before the session of an absent host
    can end (`HandedOver`, `PersistEvery <= OfflineAfter + 1`), true of the
    shipped settings and not asked for by `validate`.
* `UplinksProofs`.
  * `TypeCorrect`; `AttributionIsExact` – from `Exact`: at every moment of a
    steady interval, what a provider forwarded is the growth of its counter and,
    if it is active, of the unmarked one, since the last reading; and from
    `Settled`, which says the same of the growth that a tick has in hand while it
    waits for `active`, as long as nobody switches.
  * `RowsFit` – from `Fits`, with no hypothesis. A sum over providers would need
    an induction; the bytes recorded are stated as a set of numbered bytes, and
    every place that holds an interval (the interfaces' growth, the deltas, the
    chain's growth, the rows) as a set of at most as many elements as passed.
    Each step of a tick is an injection of one such set into another
    (`WithinInjection`), whoever is active and however interfaces are shared.
* `UpdateProofs`. `TypeCorrect` needs that a file about to be moved over the
  installed one exists. The other four (`InstalledAlwaysStarts`,
  `NeverOutOfReach`, `ReportsAreTrue`, `ServiceStaysUp`)
  follow from one invariant, `SafetyInv`, which says where the previous binary
  is at every step: installed until the swap, in `vlb.bak` from then on, on its
  way back during a rollback, and never touched by an update that aims at a
  deleted name. They assume that copies do not fail (`"copy" \notin Faults`).
  Any other fault and any kill is allowed.

Only model-checked: liveness (`Converges`, `Recovers`, `ThrottlingIsNamed`,
`InterceptionIsCaught`, `CrashingReleaseIsUndone`) and its fairness, which are
out of the prover's reach; the reboots of `Gateway_flapping`, which
`SwitchesAreDamped` leaves out; and `HereIsNeverGone`, where all clients fit in
one batch of nudges. With more hosts than `MAX_PROBES_PER_TICK` a host just
nudged is passed over and the others get their turn in later ticks; how many
hosts the timeout allows for is neither checked nor proved.

## 5. What is not modelled, and the plan

In this order; the list of hazards in `PROJECT.json` says which line each of
them is about.

1. Agreement of chain and route after a refused route; a second updater over the
   same files in `Update`.
2. `RepeatLog`, statistics retention and compaction, the control server's limit
   of connections.
3. Abstract specification: `Gateway` without time as the specification that
   `Failover` implements when views are taken under the lock.

Not planned: TLS, URL parsing and the wire formats of HTTP, ICMP and DNS beyond
what the parsers tell apart; SQL and the queries for display; the terminal
interface, logging and formatting; and the shell scripts: input and output
without a protocol of their own.
