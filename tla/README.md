# RouteFlux: TLA+ specifications, model checking and proofs

RouteFlux runs on an OpenWrt router. It stores subscriptions (lists of proxy
nodes), picks a node, and makes the router send traffic through it: it renders a
config for Xray, points dnsmasq at a local resolver, loads an nftables table, and
can hand the traffic to Zapret instead when no node answers. This directory holds
TLA+ modules of that program, the TLC runs that check them, and proofs checked by
the TLA+ proof system.

Every operation of RouteFlux changes two things that nothing keeps together: the
**ledger** (three JSON files that say which connection there is) and the
**runtime** (what Xray, dnsmasq, nftables and Zapret do). Each operation is a
sequence of commands and file writes, any of which may fail, and the process can
die between any two. The specifications are about what remains true of the pair,
and about the two decisions on which traffic depends: which node is used, and
which packets are sent to it.

## 1. The system

| Part | State | Operations | Correct when |
|---|---|---|---|
| **Application service** (`internal/app/service.go`, `auto.go`, `workflows.go`) | none of its own but a health cache; works on the ledger and the runtime | add, refresh, remove; connect, disconnect; health check; restore; Zapret test; settings | the ledger never says more, or less, than the router does |
| **File store** (`internal/store`) | `subscriptions.json`, `state.json`, `settings.json` | load (migrating, recovering), save by temp file and rename | what was saved is what is loaded, by any version; nothing of the user's is lost |
| **Store lock** (`store/lock.go`, `app/store_lock.go`) | a POSIX record lock on `.routeflux.lock` | `WithWriteLock(fn)` | read-modify-write operations do not lose each other's updates |
| **Scheduler and daemon** (`app/scheduler.go`, `cli/daemon.go`) | two goroutines, ticks | restore at start, refresh scan, health check | the route recorded before a restart is there after it |
| **Node health and selection** (`internal/probe`, `app/auto.go`, `app/auto_state.go`) | health per node, in memory and stored | health update, score, anti-flap policy, failback threshold | a failing node is left, a working one is not, and it comes to rest |
| **Xray backend** (`internal/backend/xray/writer.go`) | `config.json`, its last-known-good copy, the Xray process | `ApplyConfig`, `CaptureRollback`, `RollbackConfig`, `Stop` | a switch takes effect or what is left can be named |
| **DNS runtime** (`platform/openwrt/dns_runtime.go`) | dnsmasq snippet, restart-pending marker, what dnsmasq has loaded | `Apply`, `Disable` | dnsmasq ends up running what the snippet says |
| **Firewall manager** (`platform/openwrt/firewall.go`, `dnsmasq.go`) | rules file, nftables table, policy routing, dnsmasq sets | `Apply`, `Disable` | all parts are in place, or none |
| **Zapret manager** (`platform/openwrt/zapret.go`) | marker, host list, IP list and config with backups, the service | `Apply`, `Disable`, `Status` | the user's own files come back |
| **IPv6 switch** (`platform/openwrt/ipv6.go`) | a sysctl file, the kernel's flags | `Apply`, `Status` | off means off, also after a boot |
| **Firewall settings and services** (`domain/firewall.go`, `app/service.go`) | mode, selectors, drafts, catalog of target services | configure a mode, drafts, port, QUIC; define and delete services | what is stored can be resolved, and is what is applied |
| **Proxy ports** (`app/proxy.go`) | settings | `ConfigureProxy` with rollback | settings and runtime agree |
| **Xray config generator** (`backend/xray/generator.go`) | none | a config from a node and the settings | table and routing rules together do what the settings mean |
| Parser, speed test, inspection, CLI, TUI, LuCI, installer | none that lasts | | not modelled, see section 7 |

**How they interact.** CLI and LuCI start one process per operation; the daemon
runs the health loop and the refresh loop as goroutines. Each writing operation
runs under `WithWriteLock`, loads the ledger, calls the backend and the managers
one after another, and saves the ledger. Readers take no lock. The managers run
shell commands with a context. The only callbacks are the operations passed to
the lock.

**What is hard.** Partial failure of a sequence of commands; error handlers that
repeat the command that failed; a crash or reboot in the middle (nftables and
`/tmp` are volatile, Xray's config and Zapret's marker are not, Xray may start at
boot by itself); decisions taken from evidence (a file, a marker, a table's
presence) about a runtime that has moved on; the rollback to a config and to a
state captured earlier; two transports that must not overlap; locks with the
semantics of POSIX; readers that repair a file without the lock; memory of health
that is older or newer than the stored one; three schemas of one document.
`PROJECT.json` lists each hazard at its line, with the properties that cover it
or the reason that none does.

## 2. The modules

| Module | Models | State |
|---|---|---|
| `RouteFluxService` | the operations of the service, step by step | `subs`, `st`, `cfg` are the three files; `rt` the runtime; `conf` the Xray config on disk and last-known-good; `op` the operation holding the lock: program counter and local variables |
| `XrayOutcomes` | the outcomes of a failing `ApplyConfig` or `RollbackConfig` | |
| `XrayRuntime` | abstract: every backend call is one step with one of those outcomes | running config, files, snapshot |
| `XrayBackend` | `writer.go`, one step per file write or reload | running config, `config.json`, last-known-good, the call in progress |
| `AtomicLedger` | abstract: updates are added one at a time and never lost | set of updates |
| `StoreLock` | `WithWriteLock` with record locks, threads, processes, deaths, removal of the lock file | lock files, holders, open descriptors, what each thread loaded |
| `StoreCodec` | what a document of each schema means: decoding, migration, validation, encoding | |
| `FileStore` | one JSON file: locked updates, lock-free readers, recovery of malformed text, disk faults, deaths | the text at the path, texts set aside, lock, each process's job, history |
| `ZapretManager` | `Apply` and `Disable`, one step per file or command | files, copies, marker, service, program counter |
| `DNSMasq` | dnsmasq and its two snippets (external) | snippets on disk, what the process has read |
| `DNSRuntimeManager` | `Apply` and `Disable` with the restart marker | marker, program counter |
| `FirewallManager` | `Apply` and `Disable`: rules file, table, route, rule, dnsmasq sets, conntrack limit | those, and a program counter |
| `RouterPlatform` | composes the two managers on one dnsmasq, with crashes and reboots | the union |
| `TargetCatalog` | target services, presets, expansion of selectors | |
| `TrafficPolicy` | the table made of the settings, Xray's routing rules, and what a connection is meant to do | |
| `IPv6Manager` | the IPv6 switch | sysctl file, kernel flag |
| `FirewallSettings` | composes the last three: settings, drafts, services and listeners, stored and applied | settings, drafts, catalog, listener, what Xray and the table have been given |
| `NodeHealth` | `internal/probe`: health update, score, best node, `ShouldSwitch` | |
| `AutoSelection` | the daemon's health check over time, its memory, exclusions, Zapret fallback and failback | links, stored state, memory, exclusions |
| `MC*` | values of the constants for TLC | |
| `*_proofs` | theorems and proofs | |

**The service.** A handler (`ConnectManual`, `HealthCheck`, `RestoreRuntime`,
`SetRouting`, ...) is an action that is enabled when no operation runs; it
evaluates the guards of the Go function and sets `op` to its first external step.
Each external step (`StopDNS`, `ApplyXray`, `ApplyFirewall`, `SaveConnected`, ...)
is an action with a twin ending in `Fails`. The control operators `Teardown`,
`Selecting`, `Fallback`, `TestMode`, `Reapply`, `Raised` and `Finished` are the
shared functions of the code (`disconnectRuntime`/`markConnectionFailed`,
`applyNodeSelection`, `activateZapretFallback`, `applyZapretTestMode`,
`reapplyCurrentConnection`, the error returns and the success returns with what
each caller still writes).

`st` is the stored state, and the state an operation has loaded: within the lock
they are equal, so the module keeps one. The exceptions are explicit: the restore
point of a Zapret test, the node a selection was asked for, and the rollback's
preserved state (the one loaded when the operation began, which is still what the
file holds).

**Auto mode.** `RunAutoHealthCheck` is one health check as a whole: it takes the
memory if its key still matches the stored state (`Merged`), probes every allowed
node, decides, applies, and saves or only remembers. Between checks the network
changes, the refresh loop loads and saves the state (which takes health back to
the stored one), the daemon restarts, the user connects or excludes nodes. Time
passes in health checks. `applying` is what the router makes of an attempt to
apply a node (`applyNodeSelection`): it comes up; Xray does not, and the config
that was there comes back (`unready`) or not (`stuck`); Xray's, DNS's or the
firewall's step fails (`broken`); or it was not even prepared. It changes, like the network, at
any time between checks.

**Firewall settings.** Every operation holds the lock, so it is one action:
validate, store, reapply, with the failure of the application as an alternative.
`xray` and `table` hold what the router was last given, so an operation that
decides that nothing needs to be applied is visible. `TrafficPolicy!Decision`
follows one connection through the prerouting chain and Xray's rules in the
code's order; `Intended` is what the settings mean it to do.

**The file store.** `Changes` are updates of a loaded value; `Meaning` is what a
load returns for a text. `meant` is a history variable with the value of the last
save, or of the defaults since the file was malformed. A field of a stored
document is a set with its value, or empty where the file lacks it, which is what
distinguishes the schemas; `foreign` is a field of which a later version has
changed the type, and which does not decode here.

**How the modules fit.** `RouteFluxService` treats `ApplyConfig` as atomic with
the outcomes of `XrayOutcomes`; `XrayBackend` is shown to have no others
(`KeepsContract`, a refinement). It treats operations as not overlapping;
`StoreLock` is shown to give that for one-goroutine processes (`LedgerIsAtomic`,
a refinement of `AtomicLedger`), and `lock_daemon` shows where it does not. It
treats a manager's call as one step that on success is in force, and on failure
done, not done or, for Zapret, half done; that success means in force is what
`DNSTakesEffect` and `FirewallTakesEffect` say of the managers, with the
exception they name. It lets a health check pick any node; `AutoSelection`
says which.

**Faults.** `Faults` is the set of steps that may fail in a run. A failing step
may leave its effect done or not done. A crash ends an operation between steps; a
reboot also clears what is volatile. A fault is the environment's choice at every
step, so a run with all of them covers each combination. A load of the ledger is
such a step (`load`): most operations return when it fails (`Refused`), and the
few that go on without what they could not read have an action for that
(`RemoveUnread`, and alternatives of `SetZapretSelectors` and of the changes of
auto mode and exclusions).

## 3. The runs

| Run | Faults and instance | Shows |
|---|---|---|
| `service_faults` | all; one subscription with two nodes of one name, two settings profiles | `TypeOK`; `DropOnlyWhenDown`: the end of a connection is recorded last; `ConnectOnlyWhenServing`: a connection is recorded after all its parts are there; `ZapretOnlyWhenOn`; `RestoreReestablishes`: what the daemon's restore reports as done is done, whatever was there before; `RemovalDisconnects`: a subscription is not emptied under its connection |
| `service_setup` | failures of setting up; two subscriptions (one the pasted server list), three nodes, four Zapret profiles | `DisconnectedMeansDown`, `NodeHonest`: between operations ledger and runtime agree |
| `service_transport` | preparing, applying, DNS, firewall; the same catalogue | `TransportHonest`, `ExclusiveTransports` |
| `service_ends` | all; one node | `OperationEnds`: every operation returns |
| `xray_contract` | all; three configs | `KeepsContract` |
| `lock_processes` | three processes, two operations each, deaths | `HoldsLock`, `LedgerIsAtomic` |
| `store_files` | disk and deaths; each of the three files, two processes, two updates, one corruption | `ChangesSurvive`: the file means what the last save made of it, in whichever schema it began; `CorruptKept`: malformed text is kept; `NewerKept`: a later version's file is left alone, or set aside whole where this version cannot decode it |
| `zapret_files` | files, service, status, deaths; three files | `UserFilesKept`, `DisableRestores` |
| `platform` | every command, deaths, reboots; two DNS configs, a policy with domains and one without | `NoRestartForgotten`, `DNSTakesEffect`, `FirewallTakesEffect`, `OnlyFailuresMislead` |
| `firewall_traffic` | the IPv6 switch and the application; eight addresses, two clients, a preset and two names to define; names with one address, on one list or on two, and that of a DNS server; TCP to the transparent port and to another | `CatalogSound`, `NoDanglingSelectors`, `AppliedMatchesStored`, `TrafficFollowsPolicy`, `IPv6StaysDisabled` |
| `selection_monitor` | changes of the network and of the router, refreshes, restarts, user actions; two nodes | `WorkingNodeKept`, `MovesToCandidates`, `FailbackEarned`, `Settles`, `StopsSwitching` |
| `lock_daemon` | two goroutines in one process | expected violation of `HoldsLock`: the process's lock is shared and dropped by the first to finish, against the comment at `store/lock.go:11` |

**Exceptions the properties name.** They are part of what is claimed, and each is
a behaviour of the code:

- `lapsed` (firewall): `Apply` takes a table next to an unchanged rules file for
  the finished work of an earlier `Apply`, and an unchanged snippet for one that
  dnsmasq has read. An operation that was cut short can leave either untrue;
  then, and only then (`OnlyFailuresMislead`), a later success may be hollow.
  `lapsed` is set while that evidence is false and cleared by the success that
  makes it true again.
- `lapsed` (Zapret): the set of files whose marker or copy says something else
  than the truth, after a `Disable` that was cut short among its copies, or an
  `Apply` that wrote a list and has no copy of it.
- `overtaken` (store): a reader that recovers a malformed file renames and
  replaces whatever is at the path by then. `ChangesSurvive` says that without
  malformed text nothing is ever replaced unread, and that otherwise only this
  can take a saved change.
- `CurrentIsPrompt` (selection): at an average latency beyond about four seconds
  the score of a healthy node falls below that of a failing fast one, and a
  health check may leave it. `WorkingNodeKept` speaks of nodes above that line.
- `applying \in {"stuck", "broken"}` (selection): a health check that tries a
  faster node, and fails at Xray's, DNS's or the firewall's step or cannot bring
  back the config that was there, disconnects (`markConnectionFailed`). So a
  working node may be lost for a faster one; `WorkingNodeKept` says that it is
  never lost to anything else, nor within the cooldown.
- `"unread"` (removal): the removals ignore the error of loading `state.json`, and
  take what they cannot read for not active. `RemovalDisconnects` speaks of
  removals that could read it.
- `~Decodable` (store): a later version's file is decoded before its schema is
  looked at; where it gave a field another type, it counts as malformed and goes
  the way of malformed text. `NewerKept` then still says that the whole of it is
  set aside.
- `Foreseen` (traffic) names four kinds of connection: to a name that was not
  resolved through the router, under a policy that selects by address; to an
  address that a listed name shares with another name (`Mistaken`); to a DNS
  server under a name, which Xray does not know for one; and TCP to the
  transparent port itself, which the redirect rules leave out. Each conjunct is
  needed: TLC refutes the property without it.

`service_setup` leaves out failing teardowns, loads, saves and crashes, and
`service_transport` also verification and Zapret: with them the properties are
false, as they must be (a teardown that fails cannot leave the router down) or
because of the behaviour in section 6. What holds with every fault is in
`service_faults`. `FailbackEarned` is checked with a cooldown as long as the
failback threshold, since it is false with a shorter one (section 6). These
conditions on the runs are the hypotheses of the theorems.

**Bounds.** Nothing in the service or the managers counts, so their state spaces
are finite without bounds: only the constants are small. Two nodes are enough for
a switch, a rollback and a node missing after a refresh; two of one name for
`connectManual`'s choice among them; two subscriptions for the removal of the one
that is not active; a third node and the server list for merging. Three Xray
configs let a switch follow a switch. `MaxOps` and `MaxRestarts` bound
`StoreLock`; two operations let one begin after a process has lost its lock.
`MaxUpdates` and `MaxSpoils` bound `FileStore`: two updates and one corruption
let an update fall between a reader's look at a malformed file and its rename,
with the second update on top. The files a run begins with are of each schema
and of a later one, decodable and not. There are two names for malformed files that are
set aside, so that a third recovery finds none; the two processes are alike and
interchangeable (symmetry), as are two nodes of one subscription and one name.
Two DNS configs and two policies let an `Apply` find another's remains.
Three-bit addresses give ranges of one and of several blocks; `RangesAreSplit`,
which TLC evaluates before the run, looks at every range they have. Definitions
let two names refer to each other, alone or through a preset that is redefined,
and change what an active name stands for. Two of the four names share an
address and one has a DNS server's; of the two TCP ports one is a transparent
port that a listener is given. A port is given on its own
(`UpdateFirewallPort`) and not with a mode (`PortInputs`). In `AutoSelection` latencies come
in units of 10 ms; the links are dead, near, and far enough behind that to be
left for it, and failures raise an average beyond the ceiling; thresholds keep
the code's order with smaller numbers (`MaxRecoveryWindow`, `MaxSuccessStreak`
and `FailbackThreshold` are 2, as are `Cooldown` and `PersistInterval`);
`FailureBound` and `MarginBound` are at the values beyond which a score no longer
changes;
`MaxEvents = 2` events interrupt the checks, of which there may be any number.
Deadlock is checked except for `StoreLock`, which stops when every goroutine has
done `MaxOps` operations.

**Fairness.** `RouteFluxService!FairSpec` adds weak fairness of `Step`, the next
step of the operation that runs: its process is runnable, and each command it
waits for is bounded by a context or by the number of attempts. No fairness is
assumed of handlers, crashes or reboots, and none of success: a step may fail
each time. `AutoSelection!FairSpec` adds weak fairness of `RunAutoHealthCheck`:
the health loop ticks for as long as the daemon runs, and `procd` respawns it.
`Settles` and `StopsSwitching` need no fairness of the network: they speak of
what happens once it has been left alone, which the bound on events makes
certain.

Each property of a passing run has a mutant: a definition changed the way a bug
could, next to it in the module and marked `Mutant:`, under which TLC finds the
property violated. They are not part of `Next`.

## 4. The proofs

All are for every value of the constants that meets the `ASSUME`s, hence for any
number of subscriptions, nodes, profiles, processes, stored documents, names,
address ranges, links and any set of faults. Where a theorem has a hypothesis of
its own, it is a named definition, and the run of the property meets it.

**`RouteFluxService_proofs`**: `TypeCorrect`, `DropsWhenDown`,
`ConnectsWhenServing`, `ZapretWhenOn`. The properties speak of one step, but a
step that saves `state.json` says nothing of the runtime; why the runtime is right
there depends on the steps before. The inductive invariant is
`IInv == TypeOK /\ StateOK /\ OpOK`: `StateOK` relates the fields of the stored
state (a connection that is not Zapret's is a proxy connection to a node), and
`OpOK` says, for each program counter, what has been established so far: after
`StopDNS` that DNS is off, after `StopXray` that Xray is too, and so on up to
`saveDisconnected` and its like (all down), `saveConnected` (the proxy serves what
is to be recorded) and `saveZapret` (Zapret on, proxy down). `Init => IInv` and
one lemma per action, grouped by what the action touches, give
`Spec => []IInv`; each theorem then goes through the actions that write `st`.

`RestorationReestablishes` and `RemovalsDisconnect` hold for every set of faults
too. The first adds to `IInv` that a restoration which has not failed is at a step
from which the route can still be set up, and that one with only `settings.json`
left to save has set it up (`RestoreInv`). The second rests on the call itself: a
removal that does not tear down first is one of another subscription or node than
the state names, or one that could not read the state.

`DisconnectedDown` and `HonestNode` are theorems under `SetupFaultsOnly`: any step
that sets a route up may fail, but no teardown, load, save or process. `QuietInv`
says what an operation under way owes the ledger: how it was called at each step
(`CallOK`: for instance, a selection that will not record its node is one of the
recorded node), where a ledger without a connection still means that everything
is down (`DownOK`), and where the running and the last-known-good config are the
recorded node's although a candidate is being tried (`NodeOK`). `HonestTransport`
and `TransportsExclusive` are theorems under `TransportFaultsOnly`: preparing
and applying Xray's config, DNS and firewall may fail. Their `TransportInv` says
which transport is in place between and during operations, and that only a Zapret
test is a connection without a subscription. Both sets of faults are those of the
runs, and section 6 says what happens beyond them.

**`XrayBackend_proofs`**: `BackendKeepsContract`, that `XrayBackend` implements
`XrayRuntime` under the mapping that shows the state of the call's start while a
call is in progress. `op.start` is a history variable for this. The invariant says
for each program counter how files and running config relate to that start; a
step inside a call is a stutter, and a return or a failure is one of the outcomes. A reload that fails may have done
nothing, stopped Xray, or started the new config all the same, which is why a
failed application can leave the candidate running over the previous config's
file.

**`StoreLock_proofs`**: `LockIsHeld` and `OperationsAreAtomic`, both under
`OneThreadPerProcess`. The invariant: a goroutine in `fn` holds the lock of the
file it opened, and what a goroutine between load and save has loaded is what the
files hold, since all have opened the same file. `LockIsHeld` is also proved for
`RestartSpec`; `OperationsAreAtomic` is not, since it is false there (section 6).

**`FileStore_proofs`**: `TypeCorrect`, `StoredChangesSurvive`, `CorruptFilesAreKept`,
`NewerFilesAreKept`. `FileOK` says what the text at the path means and where the
malformed texts are; `JobOK` what each process knows at each of its steps: an
update holds the lock and has seen the file that is there, a recovery has seen a
malformed text that another process may have replaced since. For
`NewerFilesAreKept` it says that a process beyond its load has seen something
other than a later version's file, unless one that does not decode. The codec enters as
a lemma: loading what was saved gives the saved value, since every value that a
load or a change returns is `Canonical`.

**`ZapretManager_proofs`**: `TypeCorrect`, `UserFilesAreKept`, `DisableGivesBack`.
`FileInv` relates a file, its copy and the original at every step by three stages
(`Saved`, `Restored`, `Dropped`), and `MarkerInv` says what the marker implies;
a step of an operation moves one file from one stage to the next, and a failure or
a death anywhere leaves each file in a stage the next operation can go on from, or
in `lapsed`.

**`RouterPlatform_proofs`**: `TypeCorrect`, `RestartsAreRemembered`, `DNSIsInForce`,
`FirewallIsInForce`, `EvidenceIsSound`, of the composition: each manager's
invariant is shown to survive the steps of the other, which restarts the dnsmasq
both use. For DNS: the marker is there whenever snippet and process may differ.
For the firewall: at each step, which of rules file, table, route and rule can be
relied on.

**`AutoSelection_proofs`**: `TypeCorrect`, `WorkingNodeIsKept`,
`MovesAreToCandidates`, `FailbackIsEarned`. From bounds on the score of a node whose last probe
succeeded and of one whose last probe failed, that a working, prompt node is
healthy after the check's own probe and the best node only displaces it by the
anti-flap rules; what then becomes of the attempt is followed for each outcome of
applying a node.

`FailbackIsEarned` supposes `CooldownCoversRow`: the cooldown lasts at least as
many checks as the failback threshold (by default ten checks and three). The
health that the daemon goes by can hold successes from before the fallback, so the
count of successes says nothing by itself. `RowsOK` says what does: while Zapret
is in use, each allowed node's row of answered checks is either at least its count of
successes, or as long as the fallback has lasted, up to the threshold.
Through every check, refresh attempt, restart and exclusion one of the two
remains, and when the cooldown is over the second suffices. The attempt to prove
it showed that excluding a node and letting it back in during the fallback was a
second way for old successes to count (section 6).

**`FirewallSettings_proofs`**: `TypeCorrect`, `CatalogStaysSound`,
`SelectorsStayDefined`, `AppliedIsStored`, `IPv6IsKeptDisabled`, `TrafficFollows`.
The centre of the first five is a lemma that redefining or deleting a service which the active selectors do not
reach leaves their expansion, and so table and rules, as they are; closedness and
freedom from circles of the catalog are what the expansion needs to be defined.

`TrafficFollows` says that the two renderings of one policy, nft chains and Xray
rules, come to what its mode promises, for every connection. Its lemmas follow a
connection through the rules: which list of rules takes it and with what outcome
(`PairOfRules`, `RulesOfSelectors`, `RulesOfPolicy`), that the table's sets hold
what the selectors mean (`SetsHoldTargets`), that whatever is captured meets a
rule that agrees with the intention (`CapturedAsIntended`), and that whatever is
not captured is meant to go directly (`OthersGoDirectly`). The invariant `RunOK`
ties this to the program: Xray has the rules of the stored settings and catalog,
under whichever listener, and a policy in force does not panic. Of the network it
supposes nothing: names may share addresses with each other and with DNS servers,
and `Foreseen` says which connections suffer from it. Its hypothesis is
`RangesSplitExactly`: the blocks of a range are the range, unless
rendering panics; a range is split by recursion, about which see below, and TLC
evaluates it for every range of three bits.

**Only model-checked**: the liveness properties `OperationEnds`, `Settles` and
`StopsSwitching`, since liveness under fairness and `ENABLED` are out of the
prover's reach; and what the recursive splitting of ranges computes, since that
takes induction over data. Every other property of a passing run is a theorem.

## 5. What the models abstract

- A node is an identifier with a name; an Xray config is the node it was rendered
  for, or, in `FirewallSettings`, the routing rules. Outbounds are left out.
- `RouteFluxService` keeps the settings that steer an operation; modes, selectors
  and ports are `FirewallSettings`'. There the connection is only the node in use
  and whether it carries QUIC.
- In `RouteFluxService` a load of the ledger fails as one fault, whatever the file
  and the reason: unreadable, of a later version, or without a name to be set
  aside under (`FileStore` has these apart). A load in front of a save within one
  step (`markConnectionFailed`, the rollback) fails to the same effect as the save.
- A failing egress check counts as a failing verification; with
  `strict_egress_check` off it is ignored by the code, which is `VerifyXray`.
- A death inside a step leaves what a failure of that step may leave, followed by
  the crash at the next step.
- `zapretExpandedTargets` uses the selectors' domains only. A user whose selectors
  are address ranges can enable the fallback, and it always ends in
  `markTransportDirect`; the profile `cidrs` is there for that.
- `StoreCodec` keeps the fields whose loading does more than copy them, and one
  selection of each kind. The directory entry of a renamed file is taken as
  durable: the code does not sync the directory, and power loss is not modelled.
- A rendered policy is its name in `FirewallManager`, its content in
  `TrafficPolicy`. The table's output chain, for the router's own traffic, is
  left out.
- The average latency of a node is kept as a whole number; the probes of one
  check see the same network.
- In `selection_monitor` a link that answers probes also carries traffic
  (`HonestLinks`). The passing of a probe by a link that carries nothing is what
  the egress check charges to health, and section 6 says what becomes of it.

## 6. Observed divergences

Found while modelling. Only the first is kept as a run, since the comment it
contradicts is a plain promise; the others are recorded for the reader of the
code, and the properties are stated so as to leave them out.

- **Lock within the daemon** (`store/lock.go:11`, run `lock_daemon`). Two
  goroutines share the process's record lock.
- **Restart removes the lock file** (`cli/restart.go:25`): an operation that runs
  goes on beside the next, which locks a new file (`StoreLock!RestartSpec`).
- **Removal of a misidentified subscription** (`service.go:436`): a `connectAuto`
  that finds no healthy node names another subscription in the ledger than the
  one whose node runs; removing the latter then leaves its node in use.
- **Removal with an unreadable state** (`service.go:397`, `435`, `473`): the error
  of `LoadState` only makes the subscription or node count as not active, so it is
  removed and its node goes on running, where the comments say "removes a stored
  subscription and disconnects if it was active" (`service.go:331`) and "removes all
  stored subscriptions and disconnects if one is active" (`455`). Changes of Zapret's
  selectors (`1343`), of auto mode (`2128`) and of the excluded nodes (`2196`) ignore
  the error too: the setting is stored and what runs is left as it is.
- **A working node lost to an attempt** (`service.go:3030`, `3048`, `3073`): when a
  health check tries a faster node and Xray's config, DNS or the firewall cannot be
  applied, `markConnectionFailed` (`4192`) disconnects instead of going back to the
  node that works; only a failed verification is rolled back (`3135`), and a rollback
  that fails disconnects too.
- **Candidate over the previous file** (`writer.go:96`): when the reload of a new
  config reports failure although Xray started with it, and the reload that undoes
  it fails, the candidate runs and `config.json` is the previous one.
- **Rolled-back failback** (`service.go:3135`): a failback from Zapret whose
  candidate does not verify ends with Xray running, Zapret off and
  `active_transport: zapret`.
- **Zapret test without a subscription** (`service.go:3873`): the next restore or
  change of routing tears it down and leaves it recorded.
- **Zapret test that fails late**: the proxy comes back next to a running Zapret.
- **Recovery by readers** (`store/recovery.go:13`): a lock-free reader may rename
  away a file that was repaired or replaced meanwhile, although `docs/config.md:70`
  promises that recovery sets aside the corrupt file.
- **A later version's file that does not decode** (`store/migrations.go:104`, `365`):
  it is unmarshalled into today's types before its schema is compared, so one with
  a field of another type is set aside as corrupt and replaced by the defaults,
  where `docs/config.md:71` says that future versions "are not downgraded
  automatically and remain a hard error".
- **Recovery of `settings.json`**: proxy listeners with one port for two purposes
  fail `proxy.Validate` in `decodeSettings` and count as corruption: all settings
  go back to defaults. A corrupt `subscriptions.json` is an error instead, and stays.
- **Fields lost on load**: Zapret CIDRs are dropped (a test,
  `migrations_test.go:407`, expects that), and `strict_egress_check` is never
  decoded.
- **Transparent port** (`service.go:1966`): not compared with the proxy listeners,
  although `ConfigureProxy` compares the other way round. TCP to that port of any
  destination is not redirected (`platform/openwrt/firewall.go:240`, `243`) and goes
  out directly, whatever the policy; `UpdateFirewallPort` accepts any port, 443 too.
- **Order of saves** (`service.go:2103`): the refresh interval is stored in the
  subscriptions before the settings.
- **Target services** (`service.go:2067`): a change of services is validated with
  the whole firewall settings, and settings that are disabled or render nothing
  fail. So an alias cannot be created before the firewall is configured, although
  `README.md:483` describes creating one first and routing it afterwards.
  Deletion looks at firewall selectors, not at Zapret's.
- **A range that ends at 255.255.255.255** panics in `Validate`
  (`platform/openwrt/firewall.go:596`): the first address after its last block
  wraps to 0, and the loop goes on to shift by a negative count.
- **Ranges for Xray** are handed over unsplit (`service.go:2886`), and Xray, which
  reads addresses and CIDRs, refuses the config.
- **DNS servers by name** (`generator.go:454`): the direct rule requires domain
  and address at once.
- **Shared addresses** (`generator.go:194`): a policy that selects targets sends
  everything it has captured by address to the node, where `README.md:496` says
  that traffic to other names behind the same address falls back to direct. The
  run has such names, and `Mistaken` is what `TrafficFollowsPolicy` leaves out
  for them.
- **Health rolled back**: `touchRefreshAttempt` (`service.go:4177`) saves the state
  it loaded, so health learnt in memory since the last save, up to five minutes,
  is taken back. A failed verification drops what the check had learnt.
- **Failback counts probes** (`auto.go:67`): the health check that finds no
  candidate passes `activateZapretFallback` the state from before its probes, so
  the failures that led to Zapret do not end the rows of successes from before it.
  Where `switch-cooldown` is shorter than the threshold's number of checks, one
  healthy check may lead back, although `cli/zapret.go:134` says "Set how many
  healthy cycles are required before proxy failback"; with `Cooldown = 1` TLC refutes
  `FailbackEarned`. A node that was excluded while the fallback began keeps its
  old row in the same way, and is let back in with it; the count of answered
  checks in the model starts from that row.
- **Slow but working nodes**: see `CurrentIsPrompt` in section 3.

## 7. Not modelled

- The **subscription parser** turns text into nodes and keeps nothing; its unit
  tests have the examples.
- **Inspection, ping and speed test** measure with a temporary Xray and store
  nothing.
- **CLI, TUI and LuCI** call one operation of the service each, or several one
  after another, each under the lock.
- **The installer and the init scripts** are shell; what a boot does is an action
  of the models.
- Of the **generator**: outbounds by protocol, DNS hosts, sniffing, JSON.
- Of the **scheduler**: the refresh scan's snapshot of the active subscription
  (`scheduler.go:97`), used after other operations have run.
- Of the **DNS runtime**: the migration of a legacy UCI configuration.
- Of the **firewall**: the output chain; the text of the rules.
- Of the **service**: renaming and moving subscriptions, status reports,
  diagnostics, and settings no modelled behaviour depends on.

What would come next: the scheduler over several subscriptions on top of
`AutoSelection`; power loss in `FileStore`.

## 8. Running

    tlc -config RouteFluxService_faults.cfg MCRouteFluxService
    tlc -config RouterPlatform_effects.cfg MCRouterPlatform
    tlapm FirewallSettings_proofs.tla

The largest runs are `service_setup` with 2.9 million distinct states,
`service_transport` with 1.2 million, `service_faults` with 0.9 million,
`platform` with 0.6 million and `store_files` with 0.4 million;
`selection_monitor` has some 0.13 million and `firewall_traffic` 0.1 million, with
every connection followed in each. The longest take about a minute and a half. The
proofs take about ten minutes in all.
