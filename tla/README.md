# A TLA+ verification project for Yarisugi

Yarisugi is a desktop client for a transparent proxy: it keeps a catalog of
proxy nodes, tests them, runs one of them in a sing-box core, lets a privileged
daemon redirect the host's traffic into that core, and replaces the node by
itself when it stops working. This directory models the parts that run
concurrently, talk to each other or to the kernel, and may fail half way. TLC
checks the models on small instances; TLAPS proves every safety and every action
property that the runs check, for every instance.

- [The system](#the-system)
- [Modules](#modules)
- [Runs](#runs)
- [Bounds](#bounds)
- [Fairness](#fairness)
- [Proofs](#proofs)
- [Where the code and its documentation part](#where-the-code-and-its-documentation-part)
- [Not modelled](#not-modelled)
- [Plan](#plan)
- [How to run](#how-to-run)

## The system

Paths are relative to `src/crates/`.

| Component | Source | State | Operations | Hard behaviour | What makes it correct |
|---|---|---|---|---|---|
| Routing daemon | `netd/src/main.rs`, `netfilter.rs`, `netd-proto` | `DaemonState` (owner, routing on, config, last heartbeat) behind a mutex; the kernel's rules | per connection: handshake, EnableRouting, DisableRouting, Heartbeat, end of stream; watchdog; rollback | the mutex is released around external commands; every command may fail; `?` skips cleanup; a crash leaves the kernel as it was | nobody is locked out by a dead owner; a live owner's traffic is intercepted; the deadman reverts in time |
| Ruleset | `netd/src/netfilter.rs`, `adapter/src/lib.rs`, `egress.rs` (routing and DNS sections) | two nft chains, an `ip rule`, the sockets of the core and of testbeds | a packet's way through them | first-match order; local and forwarded traffic meet in one chain; testbeds share the core's user | no loop, no DNS leak, bypass left alone, trials outside the tunnel |
| Core supervisor | `adapter/src/supervisor.rs` | config file, child handle | `apply_config` (write, check, reload or start, restore), `stop` | SIGHUP is acted on later; the child dies unnoticed; a write or a check fails | the core only runs validated configs; the file and the core agree |
| Proxy controller | `controller/src/proxy_controller.rs` | active node, degraded flag, supervisor, netd client | `switch_node`, `stop`, `degrade_to_direct` | called by the user's and the watchdog's thread; several small locks instead of one | what is recorded is what runs |
| Egress watchdog | `controller/src/proxy_controller.rs` (`run_failover_cycle`) | failure count, ages of manual and automatic switches, copy of the active node | probe, escalate, adopt, heal, degrade | minutes between check and use; the user acts meanwhile | no flapping; no drop without cause; the tunnel comes back |
| Netd client | `controller/src/netd_client.rs` | one stream, its session id, a mutex | call with timeout, heartbeat, reconnect | late answers stay in the stream; the daemon restarts; nothing starts the heartbeat thread | a session left behind lets go; a started thread brings answers and requests back in step |
| Snapshot layers | `storage/src/snapshot.rs`, `soa_store.rs`, `gui/src/dispatcher.rs` | published store, published metric arena, queue of readings | `replace`, `enqueue`, `publish_metrics` | two writers, two pointers, no common lock; row ids change their meaning | a row shows its own readings, and gets them |
| Node list | `gui/src/virtual_model.rs`, `view_state.rs` | desired view, request and result channels, installed projection | request, project, install, announce | results of a store that is gone; full channels | the list catches up; changed rows are repainted |
| Egress testbed | `adapter/src/egress.rs` | port, config file and core of each trial | boot, wait, measure, drop | a port is free only at the moment it is asked for | a report is about its candidate |
| Egress scatter | `adapter/src/egress.rs` | work list, shared index, channel, results | sample, check, gather, verdict | worker and arrival order; answers in pieces | a pass is a real quorum; the trial ends |
| Candidate selection | `controller/src/proxy_controller.rs`, `auto_select.rs` | catalog, finalists, shortlist, failure history | sweep, trials, ranking, choice, history | four kinds of index; labels are not unique; decay over hours | the node switched to is one that passed |
| Query engine, health scores | `storage/src/query_engine.rs`, `gui/src/main.rs` | none | filter, order, score | ties, missing values, an arena one import behind, narrowing to `u16` | a total order; scores that agree with the ranking |
| Repository, subscriptions | `storage/src/repository.rs`, `db.rs`, `subscription_service.rs`, `soa_store.rs` | the SQLite file, shared by every running instance; each instance's dense store | import, refresh, migration, hydration | transaction borders, ids read outside them, a crash between two commits, row ids that are used again | a refresh happens whole or not at all; what is shown is what is stored |
| Probe engine, socket telemetry | `probe/src` | none | connect, classify, grade | several addresses of one name; silent UDP; caps of penalties | a node is dead only if all of it is; no alarm on one statistic |
| Parsers, node types | `parser/src`, `ir/src` | none | text to entries to nodes | containers in containers, limits, two formats with defaults of their own | nothing that can be read is lost, nothing doubled |
| Outbound compilation | `adapter/src/lib.rs`, `egress.rs` | none | node to JSON | tags brought by the node; nested layers | TLS and transport kept, everything through the node |
| GUI window, command lines | `gui/src/main.rs`, `probe/src/main.rs` | widgets | callbacks | | |

How they interact: the GUI (or a command line) calls the controller. The
controller calls the supervisor, which owns the core process, and the netd
client, which talks to the daemon over a Unix socket; the daemon changes
nftables and policy routing. The egress watchdog is a thread of the controller
that calls the same `switch_node` and `degrade_to_direct` as the user. It finds
candidates by a sweep (probe engine), egress trials (testbed, then scatter) and
selection. Subscriptions are parsed into nodes, synchronised into the database
and hydrated into the dense store; a node that is switched to is compiled into
the core's configuration. Measurements go through the dispatcher's queue into the metric arena,
and from there to the node list.

## Modules

| Module | Models | State and its counterpart | Actions and their counterpart |
|---|---|---|---|
| `Netd` | the daemon | `active_session`, `routing_active`, `routing_config`, `age` are `DaemonState`; `pc`, `settings`, `step` are a task's place and locals; `policy`, `nft` are the kernel's | every region under the mutex is one step, and so is every `ip` and `nft` command: `ClaimController`, the four additions, the ruleset load, the commit, the undo of a failed enable, the rollback, `Heartbeat`, `WatchdogCheck`, `Crash` |
| `Lease` | what the daemon promises about ownership | `holder`, `granted`, `claiming` | `Acquire`, `Grant`, `Abandon`, `Revoke`. `Netd` implements it: holder is `active_session`, granted is `routing_active`, claiming the sessions inside an enable |
| `Nodes` | both parsers of entries, the constructor and identity of a node | (operators) | `parse_entry` and its six schemes, `parse_proxy` and its six types, `try_new`, `Identity` |
| `Outbound` | `compile_outbound`, `compile_full_config`, `compile_testbed_config` | (operators) | one operator per function |
| `Ruleset` | `render_ruleset`, `install_policy_routing`, over `Outbound` | one packet, where it is, and its last routing decision; the entry and the node in use | output chain, re-routing, prerouting chain, the core dialling, a testbed dialling |
| `Supervisor` | `apply_config`, `start`, `reload`, `stop` | the file, the child handle, what the process runs, a pending SIGHUP | read of the old file and write, check, reload or start, restore, each of them failing too; the process's own reload and death |
| `ProxyController` | the fields that `Controller` and `Failover` share | `active`, `degraded` | |
| `Controller` | `switch_node`, `stop`, `degrade_to_direct` | `active`, `degraded`, per thread its `place`; the supervisor's mutex is a predicate of the places | one step per lock region and per call to netd |
| `Failover` | `run_failover_cycle`, `escalate`, `auto_adopt`, `heal_or_stay_degraded` | watchdog state, the cycle's copy `seen`, ages in ticks, the truth about the network | one step per hook call; user, network and time interleave with all of them |
| `NetdClient` | the client and, as seen from the stream, the daemon | streams in both directions, the session in use, the heartbeat thread (off, beating, about to reconnect), the daemon's owner | `StartHeartbeat`, `Send`, `Receive`, `GiveUp` (timeout), `Reconnect`, `ReconnectFails`, other calls between a failed heartbeat and the reconnect; the daemon's answers, with failing commands, end of stream, deadman, crash, restart |
| `Snapshot` | store, arena, queue, worker, import | `store`, `arena`, `queue`, the worker's clone | the two stores of `replace`, clone, apply and store of `publish_metrics`, `Enqueue` |
| `Viewport` | the virtual model, its worker, the timer | request, job, results, installed projection, changed-row queue | view change, import and refresh, projection, timer tick, publication |
| `Testbed` | trials that run side by side | port, file and core per trial; the one temporary file all of them are checked through; who listens on a port | port choice, write and check, own file, spawn, readiness, measurement, drop |
| `Scatter` | one trial | shared index, worker places, channel, ordered results | take, check, send, gather, join |
| `Probe` | `probe_addr`, `ping` | (operators) | what one address proves, a datagram that cannot be sent there included, and the best of several |
| `Health` | `health_grade`, the scores of sweep and trial | (operators) | the grade of a connection, `ConfirmsTrouble`, `verified_health`, `reachability_health` |
| `Selection` | sweep to switch, over `Probe` and `Sorting` | outcomes, finalists, results, shortlist, history | `Sweep`, `RunTrials`, `Escalate`, `Adopt`, `Heal`, `UserStop`, `Age` |
| `Ingest` | the batch side of the parser | (operators) | containers and how they are recognised, base64 and when it is refused, the limit, the report |
| `Sorting` | what Rust's sorts and SQL's ORDER BY return | (operators) | sorting by a relation, the first k, ascending numbers |
| `Query` | the query engine, over `Sorting` | (operators) | filter, comparison, order |
| `Catalog` | repository, migration, hydration, over `Ingest` and `Query` | the file's committed tables; per instance its transaction, place and dense store | import and refresh (with `allow_empty` or not) statement by statement, migration and backfill row by row, skipping rows that do not decode, the two queries of hydration, failure and kill at any of them |
| `Subscriptions` | what a refresh promises | which subscription lists which nodes, and which a caller may empty | one refresh. `Catalog` implements it |

`MCNetd`, `MCFailover`, `MCRuleset`, `MCSnapshot`, `MCSelection` and `MCCatalog` only hold the values of
constants that a `.cfg` cannot write. The `*Proofs` modules hold theorems.
Components that one proof module treats share its name space, so `Supervisor`,
`Controller`, `Testbed` and `Viewport` put their own name before `Init`, `Next`, `Spec` and the like.
Some variables are ghosts, written and never read by the actions: `mishap`
(`Supervisor`), `torn` (`Controller`) and `shared` (`Testbed`) remember that
something outside the component has failed half way, so that a property can say
what holds until then; `streak`, `trial` and `overtaken` (`Failover`) remember
what the network and the user did during a cycle; those of `Catalog` remember
which instance another one's commit has overtaken. Definitions whose comment begins with "Mutant of" are deliberate mistakes; no
specification uses them. Each is put in the place of the definition it is named
for to see that the property it belongs to notices.

Modules are linked by what they take from each other, not by a product of all
states. `Controller` takes the supervisor and netd as atomic answers ("ok",
"refused", "lost"), which `Supervisor` and `Netd` justify or refute; `Failover`
takes `switch_node` and the probes as hooks that succeed or fail; `Selection`
explains what `Failover` calls a candidate; `Testbed` and `Scatter` explain what
`Selection` calls a result; `Health` says when the kernel's telemetry lets
`Failover` escalate early; `Catalog` makes the rows whose ids `Snapshot` and
`Viewport` carry, and `Ruleset` runs whatever node an entry makes.

Data that no property distinguishes is left out. A configuration, a node, a
session, a view are model values; a latency is a level; a reading is the node it
was taken at and whether it is verified or made up; a packet is the handful of
bits the chains look at, and an entry is a record of the fields it has.

## Runs

One run for each module, with all that is checked of it. The failures a module
models are on in its run; those it leaves out are named under
[Bounds](#bounds) and [Not modelled](#not-modelled).

| Run | What it checks and shows | Distinct states |
|---|---|---|
| `Netd` | Two sessions and the watchdog, commands failing at will, the daemon killed and restarted once anywhere while the kernel keeps what was installed. `NoLockout`: ownership never stays with a session that can neither use it nor lose it. `OwnedRoutingIntercepts`: an owner whose heartbeats count has its table loaded. `DeadmanBound`: routing is reverted one polling period after the timeout at the latest. `LeaseSpec`: refinement of `Lease`. | 1.5 million |
| `Ruleset` | Every kind of packet through both chains, the policy rule, the core and testbeds, for the node of every entry: `NothingTakenBack` (`CoreTrafficEscapes`: no loop; `TrialEscapes`: a trial measures its own node while the tunnel is up), `BypassUntouched`, `NoDnsInTheClear` (of sockets bound to no interface), `ThroughTheNode` (nothing the core dials off the LAN goes beside the node). `FaithfulOutbound`, from entry to outbound: `NoDowngrade` (TLS, REALITY and a transport the parser knows are kept), `NothingLostOnTheWay` (nodes told apart stay apart), `SameNodeEitherWay` (URI and Clash item of a server are one node where the two say the same). | 167,752 |
| `Supervisor` | `RunsValidated`: the core never runs a refused configuration, reads, writes (the restoring one included), checks and spawns failing at will. `CoherentAtRest`: between calls a live core runs what is on disk, unless a read, a write or a check has failed by itself. `SwapTakesEffect`: a swap reported as done takes effect. | 984 |
| `Controller` | `SwitchOwnsCore`: nothing gets between a switch and its core, whatever netd answers. `ActiveIsServed`: what is recorded as active is what the core runs, until netd has failed a switch half way. | 1,216 |
| `Failover` | `CooldownRespected`, `NoHastyDegrade`, `OnlyTheOvertaken` (within the manual window only a cycle the user overtook acts against the user) and `OnlyOnEvidence` (telemetry cuts the wait short only when every connection is bad in two respects), with failing hooks, repeated labels and an interfering user. `TunnelComesBack`, `DeadNodeReplaced`: once a node that is fast enough to be tried every time (`Fast`) works for good. | 36,652 |
| `NetdClient` | `LeftSessionLetsGo`: a session the client has left loses the routing, heartbeat thread or not. `Resynchronises`, `Reconnects`: once the thread has been started, stray answers are got rid of and a broken stream is replaced; the program has no call that starts it (see `ReestablishesItself` below). | 61,826 |
| `Snapshot` | Two imports, the first over the demo's rows, race with probes and publications. `ShownIsMeasured`: no real row shows what was measured at another real node. `AcceptedIsShown`: a queued reading is published. | 86,462 |
| `Viewport` | `WorkPending` (no lost wake-up), `CatchesUp`, `RowsRepainted`, with full channels and lost announcements. | 36,272 |
| `Testbed` | `MeasuresOwnNode`: cores that fail, die or come up late, the kernel free to hand out any unbound port: only trials that were given the same port can report on each other's node. Configurations are checked through one shared file, and some are broken. | 348,540 |
| `Scatter` | `ReportSound` (`ReportComplete`: every target has its check; `QuorumIsHonest`: a pass is a real quorum) and `TrialEnds`, for all answers in every order. | 99,174 |
| `Selection` | `SweepIsFair`: a node is dead only if each of its addresses refused it or could not be sent to (`PingIsBest`), and no faster one is left out (`FastestPromoted`). `ScoreFollowsRank`: what passed comes first (`WorksBeforeReachable`), and the scores of the window agree with the choices of auto mode. `SwitchesToAPasser`, `HistoryIsTheirOwn` over several rounds of escalation, adoption and healing. | 585,200 |
| `Catalog` | Two instances over one file, every statement failing and either instance killed at will, payloads that are read, refused, not recognised and unsupported. `AtomicRefresh`: refinement of `Subscriptions`; a subscription is emptied only for a caller who allows it. `ImportAdds`: an import replaces nothing. `NothingLost`: a report has the nodes its payload describes, if the code can read it, and says so if not. `IdNamesOneNode`: a row id means one node across a commit. `ShownIsStored`: what is hydrated and listed is what is committed (`StoreMatches`), after the migration every row that decodes has its kind (`KindsRight`), and the comparison given to the sort is a strict total order (`OrderIsTotal`). | 1,362,850 |

A property that is a conjunction has a mutant for each of its parts. Deadlock is checked everywhere except in `Scatter`, where one trial is modelled
and ends.

## Bounds

- `Netd`: two sessions (one owner, one rival) and one configuration: no
  property compares configurations, and a second one only renames the first.
  Timeout and polling period are one tick each (the theorem `DeadmanHolds` is
  for every timeout and period). Ages saturate one step after the last value a
  guard distinguishes. A session id is never reused, so a behaviour ends when
  both sessions have closed and only time passes; one crash is enough for the
  restarted daemon to meet the leftovers of the first. Sessions are symmetric;
  no liveness is checked in this run, so symmetry is sound. `Prompt` is on: time
  does not pass the watchdog's deadline while the watchdog is runnable, which
  is what `DeadmanBound` needs. The other theorems do not need it. Failing
  removals of policy routing are left out: the code ignores them, and no
  property of the run looks at leftovers.
- `Supervisor`: two good and two bad configurations, so that a bad one can
  follow a bad one, a good one a good one, and each the other. A write that
  fails leaves the file as it was or truncated.
- `Controller`: two nodes, two threads; more threads do not exist.
- `Ruleset`: the entries cover, for each protocol with layers, every pair of a
  security and a transport, and for all protocols every kind of host, port,
  name, credential (escaped ones too) and cipher; both settings of `core_uid` and of the gateway.
  No socket of an application is bound to an interface: a bound one would pass
  the policy rule by, and its queries with it.
  One packet at a time is enough: the chains keep no state.
- `Failover`: three nodes, one of them dead for good, two sharing a label; all
  three reachable and two of them tried in a rescore (eight in the code), so that
  one is always left out. One node is fast enough never to be (`Fast`); which of
  the others it is, the sweep decides anew each time; two
  failures required, windows of two ticks; six kinds of connection (sound, far
  past one threshold, past two, past all) in any combination, the code's floor.
- `NetdClient`: three sessions (the one in use, one that still owns the routing,
  one more; a session that has ended and owns nothing may be used again). A call
  may give up as long as it leaves one message in the stream (`MaxBacklog`): a
  late answer, and the one the next call waits for. The heartbeat thread is
  started at any time or never.
- `Snapshot`: two demo rows, then one real row, then three with a gap in the ids:
  an id of the demo's means a real row after the first import and another is
  gone; a queue of two, so that it fills.
- `Viewport`: two views, one ordered by readings; result channel of two (four in
  the code) and announcement queue of one (64), so that both fill.
- `Testbed`: two threads, two ports, so that a closed port can come back or
  not, and three nodes, one with a configuration the check refuses.
- `Scatter`: two operators, one of them with an expected body, one of two sites
  sampled, two workers, a quorum of two.
- `Selection`: three nodes of which two share a label, two finalists, shortlist
  of two, so that its order matters and a node is left out; names with no, one
  and several addresses, over TCP and UDP, all answers and an address to which
  nothing can be sent; a fast and a slow median; weights saturate at three half
  units. Medians that `u16` cannot hold are left out by an assumption: the
  timeouts of a check do not let them happen.
- `Catalog`: two instances (symmetric), three nodes, two subscriptions and
  three row ids, so that an id can be used again and the last subscription id is
  met; one payload of each kind the parser tells apart: lines and a Clash document,
  plain and in base64, base64 that `decode_bundle` refuses, a Clash document it
  does not recognise, YAML without a list, sing-box JSON, no text at all, an
  empty list; beyond the limits of three entries and one failure; a caller with
  `allow_empty` for one subscription; a file from before the migration, with a
  row that no longer decodes; a reading is followed across one commit.

## Fairness

- `Netd`: the run checks safety. `Spec` adds that time passes, the watchdog's
  loop goes on, and a spawned task runs until it waits for its peer (nothing is
  assumed of peers); only `OrphanedRoutingEnds` is about it.
- `Supervisor`: a call runs to its end, and a live core handles its signal. It
  may die first.
- `Failover`: the thread is scheduled (every hook has a timeout) and time
  passes: weak fairness. Strong fairness of `Rescore` and `AutoSwitch` says that
  these hooks do not fail for ever: a rescore that is tried again and again (a
  database read, a thread pool) some day succeeds, and so does a switch. What
  the network does is not assumed but a hypothesis of the properties:
  `Recovers(n)`, some node eventually works and goes on working; without it
  there is nothing to come back to. Nor is it assumed that such a node is tried:
  the properties speak of `Fast`, the nodes that every sweep finds among the
  fastest `Finalists`. A working node that is not may be left out for ever, and
  a tunnel stay down or a dead node in place although it works.
- `NetdClient`: calls end (`RESPONSE_TIMEOUT`), the daemon serves its streams and
  its deadman, whose commands succeed in the end. Strong fairness of the
  heartbeat, of a thread that has been started: the mutex it needs is taken by
  others only for single calls, so it gets it again and again. Nothing is assumed
  of `StartHeartbeat`: `start_netd_heartbeat` (`proxy_controller.rs:385`) has no
  caller. Strong fairness of `Reconnect`: attempts at a running daemon do not
  fail for ever. No restart of the daemon is assumed.
- `Snapshot`: the worker's loop wakes at each interval and drains the queue;
  strong fairness because the queue may be empty in between. Imports and probes
  need not happen.
- `Viewport`: the timer fires for ever, its resort interval included (strong:
  the resort tick alternates with plain ones), the event loop finishes its
  callback, the worker runs.
- `Scatter`: threads run; every check has a timeout.
- `Ruleset`, `Controller`, `Testbed`, `Selection` and `Catalog` state no
  liveness.

## Proofs

Each proof module extends the modules of its components and needs only their
`ASSUME` (types of the constants, distinctness of the special values, and what
is noted below) plus what the theorem itself assumes. Every invariant and every
action property of the runs, the two refinements included, is a theorem; so are
the type invariants of `Netd`, `Supervisor`, `Controller` and `Failover`, which
the runs do not check again.

- `NetdProofs`. `TypeCorrect`; `NoDeadClaim` (`NoLockout`); `OwnerIntercepts`
  (`OwnedRoutingIntercepts`); `DeadmanHolds` (`DeadmanBound`, assuming that the
  watchdog is prompt); `ImplementsLease`. `NoLockout` is not inductive: whether
  a closing session may skip the rollback depends on its owning nothing, so it
  is strengthened to `OwnerInv` with `ClosingInv` (a closed stream is only in
  its cleanup) and `ReleaseInv` (a session that merely releases owns nothing).
  `LoadedInv` adds when the table is in the kernel: from the load to the next
  deletion, the moments between a deletion and the clearing of the owner
  excluded. `DeadmanInv` trades the age against what is left of the watchdog's
  sleep: their sum is at most timeout plus period. The refinement needs
  `OwnerInv` for the step in which a failed enable gives the ownership back.
- `ControlProofs`: the watchdog, the controller it calls, the supervisor the
  controller calls.
  - `Failover`. `NoFlapping` (`CooldownRespected`): `EscalationInv` carries the
    check made at the gate through the rest of the cycle (a goal of escalating
    implies that the cooldown was over, and nothing but the cycle itself restarts
    it). `DegradesForCause` (`NoHastyDegrade`), for every catalog and number of
    trials, of the nodes that are sure of a trial (`Fast`): `OfferInv` says that
    what of them is left to try is what is left to offer. Of all nodes
    (`DirectOnlyWhenAllDead`) it fails.
    `LaterCyclesKeepOff` (`OnlyTheOvertaken`): `WindowInv` says that a cycle past
    the gate has found the window over, or carries the ghost that says the user
    has switched since. `EvidenceNeeded` (`OnlyOnEvidence`) for every set of
    statistics and every floor up to 70: every deduction of `health_grade` has a
    cap, and one alone leaves 70 (`OneIsNotEnough`). With a higher floor one
    statistic would be enough; the code's default is 35. `WatchdogTypes`
    (`TypeOK`).
  - `Controller`. `OwnsCore` (`SwitchOwnsCore`) for every behaviour of netd, from
    mutual exclusion of the places that hold the supervisor's mutex. `Served`
    (`ActiveIsServed`) uses `Recorded`: until netd fails a switch half way
    (`torn`), record and core differ only inside a call that holds the mutex.
  - `Supervisor`. `RunsOnlyValidated` (`RunsValidated`), inductive with the
    fact that a pending SIGHUP goes with a file that is valid or about to be
    restored; `Coherent` (`CoherentAtRest`), which uses `FileInv`: what the copy
    taken before a write holds, and that the core runs it. The ghost `mishap` is
    part of the statement because a check that fails by itself makes it false: a
    restored file need not be what the core has. So do a failing write, the
    restoring one included, and a previous file that could not be read.
- `RulesetProofs`. `NothingIsTakenBack` (from `CoreEscapes` and `TrialsEscape`),
  `BypassIsUntouched` and `DnsIsCaptured`, from `PlaceInv`, which says for each
  kind of packet which mark, route and place go together: the properties alone
  are not inductive, since nothing in them says that the core's packet is still
  bound when it is routed, or a query over `lo` when it leaves.
  `AllThroughTheNode` (`ThroughTheNode`) from the tags that `compile_routing` and
  `compile_dns` name. `OutboundIsFaithful` (`FaithfulOutbound`): whatever records
  the entries are, with any keys and values (a host is a text of some kind, `tls` a
  boolean, and an entry with a scheme has a host: a URL has one). `UriNode` and `ClashNode` say what
  each parser makes of an entry it accepts, `LayersKept` that the outbound keeps
  its TLS, REALITY and transport, but for the transport a VMess URI has that its
  parser does not know, `StayApart` that two nodes with one outbound are one node, and
  `EitherWay` that a URI and the Clash item with the same values give one node.
  What sets the two formats apart is named in `SaysTheSame` and excluded there.
- `EgressProofs`. `ReportIsSound` (`ReportSound`), in two parts.
  `ReportIsComplete` by `Covered`: every position is unfetched, with a worker, in
  the channel or in the report. `QuorumHonest` by `Honest`, every result is that
  of its own position, and by an injection of the counted positions into the
  operators, which the lemma `ListsOfTargets` provides: no operator is sampled
  twice. `TrialsAreIndependent` (`MeasuresOwnNode`): `Own` says that port, file,
  core and report of a trial that was never given a port another one holds are
  its own; what the shared check said does not enter it.
- `GuiProofs`. `RowsShowTheirOwn` (`ShownIsMeasured`), for catalogs whose real
  rows only grow at their end while an id keeps its index (`Appends`), which is
  what imports do: a new subscription removes nothing, new rows get the highest
  ids, and demo rows, replaced by the first import, count from one. `LayersInv`
  says that every entry of an arena, published or copied, that was measured at a
  real node is of the node at its index in the store, if that row is real.
  For numbers made up for demo rows it fails (`NothingInvented`).
  `NoLostWakeUp` (`WorkPending`), by `Pipeline`: the newest thing in each
  stage (request, job, result, screen) is for the wanted view, or an earlier
  stage has a newer one.
- `CatalogProofs`, for any number of instances over one file, payloads of every
  length, and failures and kills at every statement. `CatalogInvariant` is the
  core, `CatInv`: `Shape` (one write transaction, held by the instance that is
  at one of its statements), `JobInv` (the report in hand is that of the
  payload until it is written, and has a node unless the caller allows none), `Committed` (foreign keys, and no row without a subscription) and
  `DraftInv`, which says statement by statement how the open transaction differs
  from the file. `RefreshIsAtomic` (`AtomicRefresh`) follows: only a commit
  changes what is listed, `DraftInv` says to what, and `JobInv` that it is
  nothing only where `allow_empty` was given. `ImportsAdd`
  (`ImportAdds`) adds `ImportInv`, `IdsNameOneNode` (`IdNamesOneNode`) adds
  `HeldInv`. `WindowShowsTheFile` (`ShownIsStored`) adds `UniqueInv` (a node has
  one row, in the file and in the transaction), `KindInv` (rows whose kind is
  still the default are on the list of whoever fills the column, and those that do
  not decode are marked so), `StoreInv`
  (rows hydrated so far) and `GhostInv`, and needs that the comparison of the
  query engine is a strict total order (`BeforeIsTotal`) to know what its sort
  returns. `NothingIsLost` (`NothingLost`) is about the loop of
  `ingest_with_timestamp`: `ScanSays` is its invariant, `IngestComplete` what it
  leaves for each kind of payload. It promises the nodes of a payload that is
  `Readable`, and of any other that there are none and a failure is recorded.
  Text without an entry and a Clash document with an empty list are the payloads
  without nodes that are no error.
- `SelectionProofs`, for any number of nodes, addresses, finalists and rounds.
  `RoundInv` says what each phase has found: after the sweep `Promotes` (the
  finalists are the first by `SweepKey` among those not proven dead), after the
  trials `Ranks` (the shortlist is the head of the sorted trials, each score
  that of its own finalist). Hence `SweepsAreFair` (`SweepIsFair`, with
  `FirstOfTheBest` for the loop of `ping`, for TCP and UDP answers of every kind), `SwitchesToPassers`
  (`SwitchesToAPasser`), `HistoriesAreTheirOwn` (`HistoryIsTheirOwn`) and
  `ScoresFollowRanks` (`ScoreFollowsRank`), the last from lemmas on how the
  scores fall with the latency. Assumed of the constants: latencies of a sweep
  are below the sentinel `u16::MAX`, medians at most it, and a literal address
  is one address.
- `SortingProofs` has what both need: a finite set with a strict total order has
  exactly one sorted sequence (`SortedFacts`), cutting it keeps the lowest
  (`FirstK`), and `FirstFailure`: a property that holds at the start of a loop
  and fails somewhere has a first step at which it fails.

Loops are recursive functions in the model. The library's induction theorems
take an operator as a parameter, which no installed prover can instantiate;
the proofs use well-foundedness of the numbers instead (`WFMin`, through
`FirstFailure`): were the loop's invariant false somewhere, there would be a
first step that breaks it.

Only model-checked: liveness, which needs fairness and ENABLED
(`SwapTakesEffect`, `TunnelComesBack`, `DeadNodeReplaced`, the three properties of
`NetdClient`, `AcceptedIsShown`, `CatchesUp`, `RowsRepainted`, `TrialEnds`).

## Where the code and its documentation part

Each of these definitions states what the repository says, and TLC refutes it.
They are kept at the end of their modules, so that they can become properties of the module's run the day the code or the sentence
changes. To see a counterexample, put the name in the module's `.cfg` in place
of the properties there, with the constants of the third column.

| Module | Definition | Constants | The code does | The repository says |
|---|---|---|---|---|
| `Netd` | `RevertedWithinTimeout` | as in the run | reverts up to one polling period after the timeout | "within 5 seconds" (`README.md:42`) |
| `Netd` | `NothingLeftBehind` | `MayFail <- NoFailures`, one session, `MaxCrashes = 0` | a second enable of the owner, or a rollback racing with an enable, leaves rules that nobody removes | "automatically reverts all `nftables` rules and policy routes" (`README.md:42`) |
| `Netd` | `PolicyAllOrNothing` | `MayFail <- AddMayFail`, one session, `MaxCrashes = 0` | an `ip` command that fails leaves the earlier ones | "rolled back on failure" (`netfilter.rs:43-44`) |
| `Netd` | `OrphanedRoutingEnds` | `Spec`, `Prompt = FALSE`, one session, no symmetry | routing without an owner is kept alive by sessions that claim it and fail | a heartbeat is refused to others, "otherwise any authorized connection could keep routing alive indefinitely" (`main.rs:287-289`) |
| `Ruleset` | `StampedReachTproxy` | as in the run | a stamped local packet is returned by the mark line of prerouting, before the tproxy line | stamped "so the policy rule routes them into TPROXY" (`netfilter.rs:187-189`) |
| `Ruleset` | `TrialIsolated` | as in the run | without `core_uid` a testbed's sockets are stamped like an application's and taken into the tunnel | "an isolated, reproducible stack trial" (`egress.rs:384`) |
| `Ruleset` | `SingleProxyOutbound` | as in the run | a node labelled "direct" has the tag of the direct outbound, and the tag names both | "Routes every connection to the single proxy outbound" (`adapter/src/lib.rs:220`) |
| `Supervisor` | `OkMeansServing` | as in the run | reloads a core that has exited and reports success | "hot-reloads (or cold-starts) the core" (`supervisor.rs:112-113`) |
| `Controller` | `SwapAtomic` | as in the run | netd fails after the core was replaced: the new core stays, the record does not follow | "The swap is atomic" (`proxy_controller.rs:225-227`) |
| `Controller` | `TornDownTogether` | `Answers = {"ok"}` | a switch between the two halves of a tear-down ends with interception and no core | "disable routing via netd, then stop the core" (`proxy_controller.rs:295`) |
| `Controller` | `DegradedMeansDirect` | as in the run | the flag of a tear-down lands on a newer, successful switch | cleared "when any switch succeeds" (`proxy_controller.rs:231-232`) |
| `Failover` | `ManualWindowHonoured` | as in the run | a cycle already under way undoes a manual switch | "Never auto-act while a manual switch is younger than this" (`proxy_controller.rs:695`) |
| `Failover` | `ConsecutiveFailures` | `Samples = {}`, `Dead = {dead, n1}` | failures of the previous node count against the next | "must fail quorum on consecutive cycles" (`proxy_controller.rs:679-680`) |
| `Failover` | `EverySwitchConfirmed` | as in the run | adopting from idle is not confirmed | "independent second confirmation probe before every automatic switch" (`README.md:188-189`) |
| `Failover` | `DirectOnlyWhenAllDead` | as in the run | drops to direct when the shortlist is dead | "only when every candidate in the catalog is simultaneously dead" (`proxy_controller.rs:682-683`) |
| `NetdClient` | `ReestablishesItself` | as in the run | nothing starts the heartbeat thread, the only one that reconnects | "transparently re-establishes it" (`netd_client.rs:7-8`) |
| `NetdClient` | `RulesetTied` | as in the run | a new session has no routing enabled | "keeps the firewall ruleset tied to the live daemon session" (`netd_client.rs:8-9`) |
| `Snapshot` | `AlignedAtRest` | as in the run | a publication across an import restores the shorter arena | "Both are aligned by dense index" (`snapshot.rs:18-20`) |
| `Snapshot` | `ProvenanceSurvives` | as in the run | an import clears readings and provenance | "the distinction survives a full catalog refresh" (`README.md:124-126`) |
| `Snapshot` | `NothingInvented` | as in the run | demo readings are published under real rows' ids | a reading is measured or "carried over from the cold store" (`soa_store.rs:231-234`) |
| `Viewport` | `AnnouncedIsRepainted` | as in the run | an announcement lost to a full queue leaves a row unpainted under a static order | "Announces metric-driven point updates for the given node ids" (`virtual_model.rs:127-128`) |
| `Testbed` | `NeverPoisoned` | as in the run | two trials on one port measure one core | "a dead node cannot poison the others" (`proxy_controller.rs:421-423`) |
| `Testbed` | `RejectedForItsOwn` | as in the run | the check reads a file that a concurrent trial may have overwritten | fails "if the binary is missing, the config is rejected" (`egress.rs:436-437`) |
| `Scatter` | `AllExpectedCounted` | as in the run | a body after the headers' segment is not read | "how many answered exactly as expected" (`egress.rs:536-538`) |
| `Scatter` | `OnlyOperatorsCounted` | as in the run | `verified` counts sampled sites too | "Number of operators that answered exactly as expected" (`proxy_controller.rs:445`) |
| `Selection` | `DeadIsProven` | as in the run | an address to which a UDP socket cannot be connected, any IPv6 one, is `Unreachable` though nothing was sent (`probe/src/lib.rs:257-263`) | "proven dead: refused, timed out, unresolvable" (`README.md:97`) |
| `Selection` | `FailureOnRecord` | as in the run | the failure that got a node replaced is not recorded | "recent failures decay over time rather than being erased by one good sample" (`auto_select.rs:14-15`) |
| `Selection` | `OldFailuresStayDecayed` | `MaxWeight = 8`, `MaxAge = 2` | a new failure revives decayed ones in full | "failed twenty minutes ago" and "failed last Tuesday" are told apart (`auto_select.rs:82-83`) |
| `Selection` | `NothingPassedAnywhere` | as in the run | a passing node with the incumbent's label is dropped with it | "Nothing passed trials anywhere" (`proxy_controller.rs:1043`) |
| `Selection` | `WorksShowsAbove` | as in the run | a slow node that passed its trial scores below a fast one that only answered | the cap "keeps "reachable" and "works" from collapsing into one number" (`gui/src/main.rs:304-306`) |

`StaysInStep` in `NetdClient` is refuted too, though nothing in the repository
promises it: after a heartbeat that was answered late and a reconnect that
failed, every heartbeat may be answered by the acknowledgement of the one
before. `Resynchronises` allows for that.

Smaller things met on the way, none of them with a definition of its own. The
backfill of `protocol_kind` is done "in a single pass" (`db.rs:84-85`) that is
never resumed when cut short. An import reports as new nodes the size of the
whole store. The order by falling latency lists untested rows first. A Clash item takes
its gRPC service from `ws-opts` and nowhere else; an IPv6 literal in brackets in a URI
becomes a domain name; REALITY without a server name is accepted; a VMess entry
with a transport or a security the parser does not know becomes one without
(`uri.rs:355`); the password of a TUIC URI is not percent-decoded (`uri.rs:209`),
those of Trojan and Hysteria2 are; the outbounds of Hysteria2 and TUIC have no
`tls` object. The first two, the password and what else sets the two formats
apart is listed with `SaysTheSame` in `Ruleset`.

A base64 payload of more than 8 MiB once decoded, or with a comment among its
lines, is refused with a recorded failure and none of its nodes
(`format.rs:5-23`). A Clash document is known only by a line that is just
`proxies:`, `proxy-groups:` or `rules:` (`format.rs:74-79`). One stored payload
that does not decode fails the loading of all probe targets; the backfill of
the kinds skips it.

`start_netd_heartbeat` and `decide_with_margin` (with `switch_margin`) are in
the code but nothing calls them. The first is an action of `NetdClient` that
may or may not happen, the second is left out.

## Not modelled

- In the parsers: the tables of percent decoding and base64 and the grammar of
  YAML. Whether a value is decoded, base64 refused and a document recognised is
  modelled; the country that `metadata.rs` guesses from a name is not.
- In the node types and the compiler: WireGuard and multiplexing, which no
  parser produces, and the tables that translate names.
- In the probe engine: netlink messages, the timeouts of single sockets and the
  pacing of a batch. Their outcomes are inputs of `Selection` and `Failover`.
- In the repository: `bulk_insert_nodes`, `upsert_subscription` and
  `load_all_hashes`, which only tests call.
- The GUI's rendering and the command lines: the callbacks that change shared
  state are in `Snapshot` and `Viewport`. `--demo-nodes` over a database that has
  rows already.
- The inside of TLS and SOCKS exchanges, nftables syntax, and subnet parsing:
  one outcome each. What sing-box does with a query it intercepts is its own.
- Modelled as external, from how the code uses them: the kernel's routing
  decision, sing-box's reaction to a signal, port allocation, SQLite's
  transactions, the network.

## Plan

The order was: the daemon first (it can cut the host off the network), then what
drives it (`Supervisor`, `Controller`, `Failover`, `NetdClient`), then how a
replacement is found (`Probe`, `Testbed`, `Scatter`, `Selection`), what the user
sees (`Snapshot`, `Viewport`) and where nodes come from and go to (`Nodes`,
`Ingest`, `Catalog`, `Query`, `Outbound`). All of these are in place. What is
left, in order:

1. Proofs: an agreement invariant of `NetdClient` (which request an unread answer
   belongs to), from which the daemon's side of `Resynchronises` would follow.
2. `Session`: `Controller` and `NetdClient` composed with `Lease` in place of
   the daemon, to check what a user is told against what the kernel does, with
   restarts and lost answers, and the controller's own answers refined to it.
3. Liveness of the daemon (ownership left by an ended session is taken back),
   and `Testbed` composed with `Scatter`.

## How to run

In this directory:

    tlc -workers 2 -config Netd.cfg MCNetd
    tlapm NetdProofs.tla

`PROJECT.json` lists, for every run, its module and configuration; for every
definition, the lines of the repository it models; for every property, the
mutant it must notice; and the hazards of the code with the properties that
cover them.
