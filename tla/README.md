# A TLA+ model of the FoxHole OpenWrt client

FoxHole runs on an OpenWrt router. It keeps a desired state (profiles, rules, paired
phones), runs one tunnel, and enforces with nftables and policy routing which traffic
may leave through it. The code is a set of short-lived ucode and shell processes that
share files under `/etc/foxhole` and `/tmp/foxhole`, the kernel's tables and a few
`flock` locks. There is no long-running daemon that owns the state: correctness
depends on the order in which independent processes read and write it, and on what is
left when one of them is killed. That is what these modules are about.

Before it runs anywhere the client is built, signed and put into bundles by Python tools.
They are one-shot programs that read large files several times while builds may write
them, so the same questions arise: which edition was read, and what is left of a run
that was refused or killed. The release modules are about these.

Paths are relative to `src/package/foxhole-openwrt-client/root` unless they start with
`src/`.

## 1. Inventory

| Component | State | Operations | Talks to |
|---|---|---|---|
| Tunnel runtime: `usr/libexec/foxhole-supervisor`, `foxhole-runtime`, `etc/init.d/foxhole-runtime`, `core-adapter.uc`, `core-model.uc`, `runtime-model.uc` | table `inet foxhole`, routing tables 201 and 202, engine configuration, proof, policy receipt, status, procd's instance | prepare, engine, binary, probe, apply, bridge, down, cleanup, mode, status; start, stop, reload, respawn | reads `state.json`; started by RPCs, triggers, workers |
| Desired-state RPCs: `usr/share/rpcd/ucode/foxhole.uc`, `model.uc` | `state.json` with its revision | save/delete/start/stop server, settings, rules, devices, clients | `state.lock`, restarts the runtime |
| Settings backup: `backup-service.uc`, `backup-model.uc`, `foxhole-backup-job`, `foxhole-backup-recover` | journal and snapshots in `backup-restore/`, and the three files it replaces | export, validate, apply (queue), status, worker, recover | `engine.lock`, `state.lock`, init scripts, every service's start |
| PIN, sessions, pairing: `pin-policy.uc`, `pairing.uc`, `foxhole.uc` | `auth.json`, `pairing.json`, PIN policy, sessions in rpcd's memory | unlock, pair.create/unlock/revoke, pin.change, setup.reset | handoff, mobile |
| Phones: `mobile.uc`, `mobile-network.uc`, `init.d/foxhole-mobile` | `mobile.json`, listener certificate | provision, client access and deletion | state, inbound |
| Handoff: `handoff.uc`, `handoff-adapter.uc` | lease journal, nftables set elements with timeouts | request, revoke, observe | pairing, runtime status |
| Engine packages: `engine-service.uc`, `engine-model.uc`, `engine-registry.uc`, `package-operations.uc` | registry, plan, job journal, Stop intent | plan, apply, run, recover, reconcile | apk, runtime, `engine.lock` |
| Updates: `update-*.uc`, `foxhole-update-job` | policy, job journal, update state | check, plan, apply, run, tick, recovery | engines, apk |
| RAM updates: `ram-*.uc` | upload, plan, journal in RAM and on flash | upload, plan, switch, recover | updates |
| Inbound server: `inbound.uc`, `foxhole-inbound*` | published client lists | publish, revoke | state, firewall |
| Probe, history, logs | caches keyed by tunnel generation, ring of samples | sample, rotate | status |
| Traffic classification: `runtime-model.uc` `nft_config`, `model.uc` `policy_decision` | none | pure functions | - |
| Private store: `private-store.uc` | - | read, write by rename | everything |
| Transaction helper: `src/native/transaction/build.py`, `src/tools/check-transaction-*.py` | work directories, build tools' process groups, the three data files of the base package | build, record, check, install | the package tree |
| Signing: `src/tools/sign-apks.py`, `stage-apk-assets.py` | signed packages, `APK-SIGNATURES.json`, staged files, `apk-assets.json` | sign, stage | the candidates' builds |
| Five-role line: `src/tools/package-budget.py`, `indexed-auth.py`, `package-catalog.py`, `prepare-install-bundle.py`, `verify-install-bundle.py` | budget, catalog, bundle | measure, bind, assemble, verify | the release directory |
| Compact line: `src/tools/build-engine-catalog.py`, `compact-install-bundle.py` | engine catalog, bundle | extract, assemble, verify | the release directory |
| Transport: `src/tools/build-bundle-transport.py` | archive, copied files, sums | wrap | a flat bundle |
| Remote enrolment, LuCI interface, native helpers, other tools | - | - | - |

### What is hard here

* Up to four controller commands run at once, none of them under a lock on the kernel
  policy or on `/tmp/foxhole`; each reads `state.json` once and works on for seconds.
* The supervisor is a shell script: a trap runs only when its foreground command has
  returned, and after `trap -` a TERM kills it. procd adds respawns with a limit and a
  SIGKILL ten seconds after TERM.
* Several locks are only tried, not waited for, and a caller that gives up leaves work
  to somebody else.
* Transactions over several files are journals by hand. A renamed file is not on the
  flash until somebody runs `sync`.
* Stop must win against everything that is under way, even when the router was stopped
  already and only the Stop intent changes.
* The calls for PIN, pairing, leases and clients write up to six files, two kernel
  objects and a service one after another, with no journal: each order of writes was
  chosen so that a cut between any two leaves a state that refuses too much rather than
  too little, and a retry must finish the work.
* Phones ask over an unreliable network: a request may come late, twice, or after the
  one that undoes it.
* The release tools hold no lock on what they read. Digests, inode numbers and a last
  rereading are all there is against a writer.

### What makes the components correct

* Runtime: a closed egress stays closed; what runs, what is published and what is
  installed belong to one state and one tunnel generation; Stop takes effect; every
  restart gets through.
* Backup: all three files or none, also after deaths and power losses; nothing newer
  than the queueing of the job is overwritten; no tunnel is kept or started halfway; a
  job needs a human only if something outside the transaction touched its files;
  everybody returns.
* PIN, sessions, pairs: nothing made under a PIN outlives it; guessing takes the time the
  policy says; a router that waits for its setup has nothing of its last owner.
* Handoff leases: what nftables lets past is leased, and for no longer; status is unknown
  rather than wrong, except from rpcd's cache after a torn change; a release is for good; a
  revocation gets through in the end.
* Clients: one registration makes one client; a deleted one is served again by no listener
  that procd keeps; "nothing to do" is true; the server comes back.
* Release lines: every result is of one build, says so truthfully, appears at once and is
  not touched again; a tool refuses only for a reason; a build ends and leaves nobody.
* Engine and update jobs (planned): the registry and the installed packages agree when a
  job is finished; a Stop during a job is never undone; recovery runs once.

## 2. Modules

| Module | Models | Runs |
|---|---|---|
| `Runtime` | the tunnel runtime | `runtime`, `runtime_*` through `MCRuntime` |
| `RuntimeProofs` | proofs about `Runtime`: types, the closed egress | (tlapm) |
| `RunProofs` | more of them: what runs, is published and is recorded belongs to the desired state; a stop that is through | (tlapm) |
| `Backup` | queue, worker and recovery of a settings restore, with the calls, the init script and the update tick that interleave with it | `backup_*` through `MCBackup` |
| `BackupProofs` | proofs about `Backup`: types, the closed tunnel, the final Stop | (tlapm) |
| `Settings` | abstract: the settings change at once, and a power loss leaves those of one moment | refined in `backup_crash`, `backup_power` |
| `RestoreProofs` | more of them: the commit is current, no job is stuck without meddling, a finished job is whole in the files and on the flash, both refinements of `Settings` | (tlapm) |
| `Pin` | the PIN policy with its counter, tiers and blocks | `access` |
| `Handoff` | lease journal, firewall table and its receipt, status with rpcd's cache, the phones' requests | `access` |
| `Inbound` | the publisher of remote clients, the listeners and their end, the client records of `mobile.json` and `state.json` | `access_clients` |
| `Access` | composes the three above with sessions, PIN changes, pairing, provisioning, deletion, reset, deaths and reboots | `access*` through `MCAccess` |
| `AccessProofs`, `LeaseProofs`, `ClientProofs` | proofs about `Access` | (tlapm) |
| `ReleaseProofs` | proofs about `Release`, line by line, with both refinements | (tlapm) |
| `Transaction` | build of the native helper, installation of its three data files | `release` |
| `Signing` | signing of candidates, staging under release names | `release` |
| `Legacy` | the five-role release line, schema 1 | `release` |
| `Compact` | the compact release line, schema 2 | `release` |
| `Transport` | a bundle wrapped for transport | `release` |
| `Publication` | abstract: a bundle appears at once, whole, and never changes | refined in `release` |
| `Release` | composes the five release modules; the two refinements | `release` through `MCRelease` |

Operators named `X_Something` that stand directly before `Something` (or before the place
they belong to) are deliberately wrong variants, one for each checked property.
Substituting the variant makes the property fail; nothing else uses them.

### Runtime

*State.* `desired` is `state.json`. `nft`, `route`, `proofRoute` are the kernel: the
table is absent, the bootstrap policy or the normal one for some rules. `confFile`,
`proof`, `receipt`, `status`, `probeLock` are the files of `/tmp/foxhole`. `ctl[o]` is
the controller command run by owner `o` (supervisor, init script, phone poll, or an
orphan whose supervisor is gone) as a list of steps it has still to do plus what it has
read; `sup` is the supervisor's position, `child` the tunnel process with its
generation, `init` and `procd` the service manager.

*Actions.* A controller command is one action per externally visible step: read the
state, install or remove the table, the routes, the files, the proof, the checks of
`apply connected`, the receipt, the status. Any step may `Fail`, which runs the catch
block as the code does: read the state again, for a core profile install the emergency
policy, write the error status. The supervisor has one action per line that waits for
something. `TrapDue` says when the shell runs a trap; `SupDies` is TERM before a trap is
set or after `trap -`. The init script is a stop followed by `foxhole-backup-recover`,
`mode` and a start. `Edit` stands for the RPCs that change `state.json` and restart the
service; `Poll` is the background probe of `phone_status`; `Age` makes a proof older
than its 4990 ms.

*Abstractions.* Packet rules are the contents of the table, not the packets. dnsmasq,
rp_filter and endpoint resolution are left out, as is the time a killed child takes to
end. Runs of the init script are serialised, as rc.common's procd lock does. Starting
the profile that is active already, or stopping a stopped router, is a `Reload`.
`defer_stop_for_update` (an update's package phase) is left to the update module. A
Hysteria profile without the kill switch opens the egress when it ends; that is what
`down()` says and no property denies it.

### Backup

*State.* `mem` is what a process reads from each of six files: `state.json`, the uci
configuration, the update policy, the journal, the Stop intent, and the credentials
(`pairing.json`, `auth.json`, `mobile.json`, of which the journal keeps hashes). `disk`
is, for each file, the set of contents it may have after a power loss: a write adds the
new content, `sync` leaves only the present one. `engineLock` and `stateLock` are the
two flocks. `rpc` is rpcd's single call, `wk[j]` the worker of job `j`, `rec[p]` a run
of `backup.recover()` by rpcd, the init script or a worker, `init` the runtime's init
script, `tunnel` the one it has started: none, up, told to end, or told to end with
another to follow, `tick` the automatic update tick. `stopped` and `meddled` are history
variables.

*Actions.* Every write and every sync is a step; between the two anybody may run, die,
or lose power. `WorkContext` to `WorkAborted` are the worker: the engine lock, the first
locked section, quiesce, APPLYING, the two product files, STATE_COMMITTING,
`state.json`, COMMITTED, resume, the catch block and the recovery in `run_backup`.
`RecPeek` to `RecSync` are `recover()`: a peek without lock, both locks without waiting,
the verdict, the rollback file by file, the journal. `InitStop` to `InitDone` are the
init script with the gate of `start_service`. A stop only makes procd send TERM:
`InitStop` leaves the tunnel ending, nobody waits for it, quiesce of a restore no more
than anybody else, and `TunnelEnds` comes when it likes (procd kills a supervisor that
sits in a probe after ten seconds). A start that comes first has its tunnel follow.
`RpcQueue` to `RpcLaunch` queue a restore; `RpcLock` to `RpcRestart` are the calls that
stay available or race the restore: Stop (intent before state), client revocation, PIN
change and pairing revocation, and a guarded product call (edit or start a profile). A
caller may have seen the revision a restore has just replaced, which `Bridged` lets
through for Stop and revocation only.

*Abstractions.* A document is the profile it selects and its panel options; a state
remembers which document it came from, how often it was edited and whether a client was
cut, which is what the hashes without Stop tell apart. The snapshots of the journal
directory are readable and intact. A power loss leaves each file at one of the contents
it may hold, independently of the others. At boot rpcd (START=12) has recovered before
the runtime's gate (START=95) looks. Export and validate change nothing. What a
supervisor that was told to end does in its last seconds is `Runtime`'s matter; here it
only lives on beside the restore's writes. The other services with the same gate, the
pruning of the previous job's directory, the policy write of the update-settings call
and the record of a linked client in `mobile.json` are left out. The update tick writes
the policy with a time of its own (`Ticks`), so that no two writers write the same
policy. A request whose id is already journalled, whose document cannot be used or that
finds no space is a refusal (`RpcRefuse`).

*What it promises.* To `Settings` the three files a restore replaces are one thing. It
changes by `Restore` (all of it, as the next revision of what was in force, never a job
over its own document), by `Serve` (a call's next revision, of the same document) or by
`Retime` (the tick's policy), and a power loss leaves one of `kept`, which every change
may extend only with the settings it puts in force. `Amount` reads them off the files:
while a job is pending and `state.json` is not its own, what its journal found stands
for the product files. `RestoresAtOnce` is this refinement with the files as processes
read them, `LosesNoHalf` the one in which `kept` is what every combination of contents
of `disk` amounts to. From the first event nothing is promised for (`disturbed`) both
allow everything.

### Pin, Handoff, Inbound, Access

*State.* `auth`, `pairs`, `phones`, `state`, `base` are `auth.json`, `pairing.json`,
`mobile.json`, what clients and devices `state.json` has, and whether `inbound.json` is
there. `policy` is the PIN policy; `sessions` are the tokens somebody holds. `journal`,
`table`, `receipt` are the lease journal, the nftables table with its elements, and the
adapter's receipt of it, `cached` the listing of the table that rpcd keeps for 250 ms
and, while it says active, for another 250 ms each time it is used; `asks` the requests
under way on the network. `pub` is the publisher, `files` what it publishes, `inst` the
listeners procd keeps, `served` the clients that these serve, `ending` the clients
served by listeners procd has told to end, which may take them a second, `loop` the loop
that starts it. `rpcd` says whether it waits for a publication it forced. History
variables: `tally` (guesses and the time since), `over` (claims released with an
acknowledgment and not asked for since), `stray` (how long a torn change may still
show), `gone` (deletions that were acknowledged, and those of them for which procd was
asked), and the PIN and registration a pair, session or id was made under.

*Actions.* rpcd serves one call at a time and holds `state.lock` while it writes, so a
call is one action; its parameter `k` says after how many of its writes it ended. All of
them is an answer, fewer is a failing write, a query that times out or the death of rpcd
(`Cut`), after which sessions are as before or gone. `StorePin` and `SetupReset` have 6
and 10 writes, `DeleteClient` 4, a change of leases 3 (table, receipt, journal). Only
the forced publication of `phone_provision` lasts: it takes inbound.lock, runs beside
other processes and is waited for with a limit (`ForceStarts`, `ForceEnds`). The
publisher reads without a lock, prepares, then compares and publishes under `state.lock`
(`PubPublish`, which may be killed after any of its five steps). `Revoked` is
`foxhole-inbound-revoke`: procd forgets the listener, then its process is seen to be
gone; of a listener that procd has forgotten before nobody looks at the process.
`PhoneStatus` asks for the status and may fill the cache, which a change of leases
empties only when its receipt is written, and which goes when its time is up or rpcd
dies. `Respawn` is procd starting a listener from the configuration there is now. `Tick`
is time: requests age, leases, tombstones, elements and PIN blocks run out.

*Abstractions.* A credential, claim or id is a number; a PIN is which one in a row; a
lease's address is its claim. Six failures, 60 s and 300 s are `PinLimit`, `ShortBlock`,
`LongBlock`; 60 s and 5 s are `MaxLease` and `Fresh`. The limits of 64 sessions, 10 pairs,
8 pairing failures a minute, 32 replaced claims and 96 tombstones are refusals that change
nothing, as are all others. The configuration of the inbound server is the set of clients
it serves; files for several clients are written in one step. A factory PIN is a flag.
`phone_handoff` compares the tunnel's status before and after; that needs the runtime and
is left out. A power loss that tears files which were never synced is left out here
(`Backup` has it); a reboot loses `/tmp`, the kernel's tables and memory.

### Transaction, Signing, Legacy, Compact, Transport, Release

*State.* Each module has the files a tool reads with their content as the number of the
build they are of, the processes with what they have read so far, and the output. In
`Transaction` a file is an inode, a time stamp and two halves, because that tool detects
writers by comparing them; a build step is a process group with a leader and children. In
the others a digest is the content it was taken of.

*Actions.* One per read that later decides something, one per write or rename. A writer
(`Rebuild`, `Tamper`, builds of candidates) may come between any two reads, file by file.
Rival runs on one output directory, and a kill at every step, are there where the tool
has an answer to them. `Spawn` to `StepEnds` are `run_step()` and
`stop_owned_group()` with their deadlines, a tool that ignores SIGTERM or hangs in the
kernel, and a log that overflows.

*Abstractions.* Formats, compiler flags, ELF and licence checks are a verdict or a single
edition number; what the operator gives the budget tool and only the catalog looks at
(firmware version, document sizes and protocols, the form of the memory evidence, a
provisional policy) are the budget's `terms`; numbers of packages, sizes and keys are
left out; a signature is a boolean of the file; a written file never regains its old
content. The flash mode of the five-role line is the RAM mode without volatile binaries.
`Release` lets a behaviour be of one line: the lines share no file, so interleaving
them adds states and no behaviours.

`Publication` is what both bundle lines promise: an output that is absent, then appears in
one step and is whole, and never changes. `Release` shows that `Legacy` (offer <-
`published`, whole <- `WholeBundle`) and `Compact` (offer <- `bundle`, whole <-
`OneSource`) implement it.

Two things are coarser than the code. In `Transaction` a tool's children stay in its process
group; one that calls `setsid` would escape `stop_owned_group()`. In `Compact` the copy and
the `adbdump` of a package, and the dump and the digest, are one step each.
`Transport` reads `SHA256SUMS` twice, as the code does: a rewritten manifest lists a
content for every file, possibly one that is gone or still to come.

## 3. What is checked

| Run | Instance | Shows |
|---|---|---|
| `runtime` | two stories: a core profile without and a Hysteria profile with the kill switch, blocked, with 1 edit, reload, crash, failure and recovery codes 0, 1, 10; or two core profiles and a rule change, with 3 edits and nothing that fails | `TypeOK`, `CoreLossStaysClosed`, `KillSwitchStaysClosed`, `RunningIsDesired`, `ReceiptIsSound`, `PublishedWithReceipt` |
| `runtime_orphan` | off and one core profile, 1 edit, an orphaned command, a power cycle | `Settles` |
| `runtime_stop` | off and one core profile, 1 edit, crash, failure, phone poll; recovery codes 0 and 10 | `StoppedIsStopped`, `StopTakesEffect` |
| `runtime_off` | off and one core profile, 1 edit, 1 crash | `OffLeavesNoPolicy` fails |
| `backup_races` | two jobs, 3 calls, a foreign uci commit, an update tick | `StopWins`, `CommitIsCurrent` |
| `backup_crash` | one job, 2 calls, 1 failing write or sync; 1 death, and a reload, a tick or a second death | `FinishedIsWhole`, `NoTunnelHalfway`, `StuckOnlyIfMeddled` and the refinement `RestoresAtOnce` |
| `backup_power` | one job, 2 calls, 2 power losses, 1 tick; with fairness | the refinement `LosesNoHalf`, and `EverybodyReturns` |
| `backup_torn` | one job, 1 call, 1 death, 1 power loss | `DurablyWhole` fails |
| `backup_contention` | one job, 2 calls, no disturbance | `WorkerUndoesItsWrites` fails |
| `release` | two installers, two build attempts with 2 steps in one work directory, 3 writes by tools, 1 kill; two signers, 2 packages, 2 builds; two wrappers, 3 members, 2 writes to files or manifest; 2 editions and 3 tool starts of each bundle line, 1 file spared by a rebuild | `InstalledIsPinned`, `StepLeavesNobody`, `RecordIsTheFile`, `SignatureRecordIsTrue`, `StagedIsWhatItIsCalled`, `RefusalHasAReason`, `EntryIsOfItsSlot`, `TransportIsTheBundle`, the refinements `FiveRolesArePublished` and `CompactIsPublished`, and `BuildHasAnEnd` |
| `access` | who comes in, and leases: one pair, two registrations, 2 PINs, 2 claims, leases of 2 ticks, requests fresh for 1, 3 requests, 5 guesses in batches of 2, 1 cut, 1 reboot | `GuessesAreSlow`, `ElementsAreLeased`, `StatusIsTrue`, `ReleasedStaysReleased`, `NothingOutlivesThePin`, `RevocationGetsThrough` |
| `access_clients` | clients and the server: the same pair and registrations, 2 ids, 2 changes of the tunnel, 1 cut, 1 reboot | `DeletedStaysDeleted`, `NothingToDoIsTrue`, `SetupIsEmpty`, `OneClientPerPhone`, `ServerComesBack` |

*Why the bounds are enough.* The runtime has at most one supervisor and four commands
whatever the budgets are, and each hazard needs one disturbance at the wrong moment, or
two edits to get from one profile to another and back, which the second story exceeds by
one. The other disturbances meet the first story only: in the second nothing fails, so
that three edits fit. The action constraints `OneStory` and `OneMore` keep the two
stories apart, and let a behaviour of `backup_crash` have one of reload, tick and second
death; both runs check safety only. `Respawns` is 1 where the code has 5: the counter is
only compared with zero. A restore is raced by one call at a time because rpcd is
single-threaded; three calls are the queueing and two others, or two restores and one
other. Two power losses are one that interrupts the restore and one that interrupts its
recovery. Only one foreign edit and one tick happen in a behaviour since each is a
single fresh value.

The `access` runs have one concern per behaviour (`plan` in `MCAccess`): who comes in;
leases, with PIN changes and no reset; clients, with no PIN change and a tunnel that
stays as it is; and the server of a router that has no phone. Revocation, PIN change and
reset meet the first three. Each concern alone has all its calls and cuts; what is not
mixed writes disjoint files. One cut is enough to leave every intermediate state, the
owner's retry comes after it, and a reboot or a death of rpcd may come on top. Two
registrations are the pair and the one that replaces it under the same id. Three
requests are a grant, a release and one that is late; a lease of 2 ticks outlives
`Fresh`, as 60 s outlive 5 s. Claims are interchangeable, so the first request is of
claim 1. All nine safety properties that hold are proved for every value of these bounds
(section 4); the runs add the two liveness properties and a check of each against a
wrong variant.

Of the bundle lines: two builds are needed to mix editions; the reads of a tool are at
most three per file, and 3 starts are budget, catalog and bundle in a row or one of them
again. A build that leaves one file alone is what makes a mixture pass the cheaper
comparisons.

*Deadlock.* It is not an error that nothing happens: an idle router waits. Being stuck
is what `Settles` and `EverybodyReturns` are about.

*Fairness.* `Runtime`: weak fairness of every running process (commands, supervisor,
init script, procd), which the kernel's scheduler gives, and of `ChildUp`: a tunnel
engine that goes on running creates `foxhole0`. An engine that never does is the
supervisor's wait of 20 attempts running out, which is one of the budgeted failures.
`StopTakesEffect` holds without the fairness of `ChildUp` too; `Settles` needs it.
`Backup`: weak fairness of rpcd's call, of the init
script, of each worker and each recovery. rpcd is not assumed to win a lock against a
competitor for ever; every holder lets go and the competitors run out of work.
`Release`: weak fairness of the steps of `build.py`, not of the tools it runs.
`Access`: time passes, midnight comes, the publishing loop goes on (it is procd's), rpcd's
waits end, and an owner who wants a pair revoked logs in and repeats the call until it is
done: strong fairness, because a session may lapse between login and call. `MCFairness`
is the same, each condition restricted to the plans that have the action. Without an owner
who repeats, `RevocationGetsThrough` is false, which is what the error of a refused call
is for.

### Findings

* `runtime_off` (`foxhole-runtime:523`): a tunnel exits just before an explicit Stop.
  The dying supervisor's `down()` has read the state with the profile still selected;
  the init script then cleans up; `down()` installs the emergency policy afterwards.
  The router ends stopped, in mode off, with a table that blocks.
* `backup_torn` (`backup-service.uc:211`): recovery compares what it reads and publishes
  a terminal phase; it syncs only after that. If the files were written by a process
  killed before its own sync, a power loss in that moment can keep the terminal journal
  and an old file, and no recovery looks at a terminal journal again.
* `backup_contention` (`backup-service.uc:346`): the worker only tries `state.lock`. A
  PIN change or a pairing revocation, which hold it across nft commands, can make the
  last section, the catch block and the recovery in `run_backup` fail one after the
  other. The journal stays APPLYING, configuration and policy stay replaced, the tunnel
  stays stopped, product calls are refused until a Stop, a reload or a reboot recovers.

Three more steps end elsewhere than a document says. They have no run of their own: the
models have them, and the properties say what remains true beside them.

* `build-bundle-transport.py:39`: the operator's digest is compared with a first read of
  the bundle's `SHA256SUMS` (line 36), the members with the lines of a second. A writer in
  between gets other contents wrapped, consistently, and they are reported under the
  operator's digest, with which `BUNDLE-TRANSPORT.md:42-46` has the operator name the
  bundle. `TransportIsTheBundle` speaks of that digest only while the manifest has not been
  rewritten.
* `handoff-adapter.uc:166`: status answers from a listing of up to 250 ms ago, each answer
  "active" restarts the 250 ms, and only a change of leases that got as far as its receipt
  drops the listing. After a torn revocation a phone that asks often enough is told "active"
  with no element in the kernel, until its lease has run out. `ARCHITECTURE.md:157-159`
  calls the status a "fresh actual NFT readback". `StatusIsTrue` allows wrong answers only
  from the cache, and only while a torn change may show.
* `foxhole-inbound-revoke:27`: procd forgets the listener before its process is seen to be
  gone. If that is cut or takes too long, the deletion is refused; the retry finds no
  instance and is acknowledged without a look at the process, which may serve the client
  until procd kills it. `ARCHITECTURE.md:222-224` says that the process "must be gone before
  state removal returns". `DeletedStaysDeleted` speaks of the state and of the listeners
  procd keeps, not of those it was told to end.

Met while modelling `access`, all within what the code promises and therefore not runs of
their own:

* A renewal that is up to 5 s old opens the way past the tunnel again after a release if
  the lease had just run out when the release came: `request()` makes tombstones only
  of a lease that is live. `ReleasedStaysReleased` is about releases of a live lease.
* `setup_reset` cut after it removed `inbound.json`, while a publisher is in its locked
  part: the server may serve again, and a later `delete_client` is acknowledged without
  asking procd, as `foxhole-inbound-revoke` ends at once without `inbound.json`.
  What `DeletedStaysDeleted` says of the listeners is of deletions for which procd was asked
  (`gone.asked`).
* The listener of before a reset may live for the second procd gives it: `SetupIsEmpty`
  speaks of the listeners procd keeps.
* Quiesce of a restore does not wait for the tunnel to end; a supervisor in a probe may live
  on for ten seconds while its files are replaced. No document says otherwise;
  `NoTunnelHalfway` is about tunnels nobody has told to end.
* `delete_client` cut after the revocation leaves the shared server down for all clients
  until the publisher finds a reason to publish: a change of state or tunnel, or the next
  day. `ServerComesBack` needs the midnight.
* If the first creation of the table is cut before its receipt, or a cut meets a change of
  the LAN device, the table is not recognised any more (`TableLost`): leases and, once
  there is a journal, PIN change, revocation and reset are refused until a reboot. What the
  table then lets past runs out within 60 s. `RevocationGetsThrough` excludes it.
* `foxhole-inbound-loop` is not started by the call that creates `inbound.json`, only with
  the service.
* `foxhole-bootstrap-enroll` makes a new factory PIN and leaves setup sessions of the
  earlier one if its restart of rpcd fails. `NothingOutlivesThePin` counts PINs the owner
  sets.

And while modelling `release`:

* `unsigned_sha256` of `APK-SIGNATURES.json` is from a third read of the candidate and may
  be of a later build than what was signed; the content and signed digests are true.
* `stage-apk-assets.py` does not check signatures or the signing record.
* A refused or killed run of the transport leaves its output directory behind, which the
  next run refuses.

With `MaxOrphans = 1` (a command that outlives its SIGKILLed supervisor)
`CoreLossStaysClosed`, `RunningIsDesired`, `ReceiptIsSound`, `PublishedWithReceipt`,
`StoppedIsStopped` and `StopTakesEffect` do not hold: the orphan writes policy and status
from a state that is gone, and the tunnel may live on. Only `Settles` is checked there.

`StoppedIsStopped` has two more conditions, and TLC finds it violated without either. With
recovery code 1 the init script returns without writing a status; if its TERM met the
supervisor between `trap -` and `down()`, nobody writes one and an earlier "connected"
remains with the credential file. With two failures a step of `cleanup` and the status
write of its own error handler may fail, with the same result.

`ReceiptIsSound` used to say that the policy fingerprint of a receipt has the rules of the
state it names for as long as the generation lives. That is false, in 37 steps with two
edits and a recovery that stopped a restore halfway (code 10): the init script's `block`
has read the state before the second edit, and replaces the table between the step of a
TERMed supervisor's `connect` that installs it and the one that verifies it
(`core-adapter.uc:169`, `foxhole-runtime:460`); the receipt then records rules of neither.
That supervisor is on its way out and its restart removes the receipt, so the property now
speaks of a supervisor that has not been told to stop.

`DurablyWhole` holds for power losses alone (`RestoresAreDurable` in section 4; what
`backup_power` checks, `LosesNoHalf`, speaks of unfinished journals too) and fails once a
process dies as well (`backup_torn`). `StuckOnlyIfMeddled` counts as
meddling: a failing write or sync, a foreign uci commit, the tick's write, and a product
call or revocation that changes `state.json` while the flash may still hold
STATE_COMMITTING; all of these really lead to RECOVERY_REQUIRED, which no call clears.

## 4. What is proved

`RuntimeProofs` proves with TLAPS, for any sets of profiles and states and any budgets:

* `TypeCorrect`: `Spec => []TypeOK`. `TypeOK` is strengthened with `RespawnOK` (procd's
  retry counter stays within its limit), one lemma per process.
* `ClosedInvariant`, `CoreLossClosed`, `KillSwitchClosed`: for `MaxOrphans = 0`, the two
  fail-closed invariants.

The two invariants are not inductive: that no command opens the egress depends on which
state each running command has read. `ClosedInv` adds

* who runs what: no orphans, the phone only probes, the init script runs a command only
  where it waits for one, an absent supervisor is in its initial state;
* `InitHalted`: between the stop and the start of a restart procd starts nothing;
* `StopIsAsked`: only TERM makes a supervisor or its `down()` a requested stop, hence an
  unrequested `down()` closes rather than opens;
* `ArmedOK` / `SealedOK`: while the promise is in force the table is there, no cleanup
  is running, and every command past its read knows the present state (`ArmedOK`) or one
  with the kill switch on (`SealedOK`).

`Follows` says once what a controller step can make of a command, so that each process
only has to show that the commands it starts are harmless. The constants' assumption
`RuntimeAssumption` is checked by TLC in every run.

`RunProofs` proves, with the same assumption `MaxOrphans = 0`, that the tunnel and
everything said about it are of one state, although `prepare`, `engine`, `binary`, `probe`
and `connect` each read `state.json` on their own and hold no lock:

* `RunningAsDesired`: whenever a supervisor waits for a live tunnel and no restart is due,
  status, policy, route and tunnel are those of the state the owner last saved.
* `ReceiptsAreSound`, `PublishedAfterReceipt`: what the core profile's receipt says of its
  generation and policy, and that it is there when "connected" is published.
* `StopsAreStopped`: when a stop is through no tunnel runs; and, as long as at most one
  step has failed and the recovery of backups refused no start (`MostlyWorks`,
  `1 \notin RecoveryCodes`; both are needed, see section 3), no status claims a tunnel and
  a status that reports success left no credential file.

The first three rest on `RunInvariant`, `Spec => []RunInv`. Its idea is `Undisturbed`: every
edit leaves a restart due before anything else can read the new state, and that restart
stops the supervisor before it starts another. While no restart is due and the supervisor
has not been told to stop, everything read so far is therefore the present state
(`ConnectKnows`, `PrepareKnows`, `SupKnows`), and the init script runs no command that could
replace what `connect` installed. The other parts say what this needs: which command runs at
which place of the script (`SupRuns`, `InitRuns`), that a command that succeeded did all of
its steps (`HandlersFailed`, `StopPlanned`), that a live tunnel is the supervisor's own and
the newest generation (`ChildKnown`, `SecretMatches`), that a restart tells an old
supervisor to stop before procd starts a new one (`HaltTerms`), and what the fence of
`apply connected` has seen by which step (`FenceKnows`). With an orphan `ChildKnown` and
`Undisturbed` are false: its command may write at any time.

`StopInv` says who is still to act: while the status claims a tunnel that nobody wants, a
request, procd, the init script or the supervisor goes on to a status write (`ClaimEnds`);
and a status "disconnected" has the files removed, or a `down()` before it that removes them
first (`SecretsGo`). `HandlersCost` charges each error handler that stands in for that
`down()` to the failure budget, which is how `MostlyWorks` enters.

About `Access`, nine theorems, one for each safety invariant of the passing runs, for
any pairs, credentials, claims, limits, lease lengths and budgets, and one listener or
many:

* `GuessingIsSlow` (`AccessProofs`). `SlowInv` says that some number `n` of whole
  batches has been guessed: wrong guesses are `n * PinLimit` plus the policy's failures,
  the tier is `n` up to 2, and the ticks so far plus what is left of the block are the
  waits of `n` batches. The theorem's formula alone forgets how much of the present wait
  is left.
* `PinIsTheOwners`, `ResetLeavesNothing` (`AccessProofs`). `PinInv` is the invariant with
  the shapes of the files. For the reset, `EmptyInv` adds that nothing the publisher has
  under way is of the last owner's state (`pub.state.resets < state.resets`), that procd
  keeps no listener, and that the PIN record is written last.
* `NobodyPassesWithoutLease`, `StatusIsNeverWrong` (`LeaseProofs`). `LeaseInv` bounds
  each element by the time a torn change may still show, or by its lease. For the status
  `StatusInv` adds that a lease that outlives every torn change has its element in the
  table (`Lasting`), and that what rpcd remembers has the elements of all leases that do
  (`RecalledBy`): so once `stray` is 0 an answer from the cache is what the table would
  give.
* `OneIdPerRegistration`, `DeletionIsForGood`, `NothingToDoIsProved` (`ClientProofs`).
  `ClientInv`: every id was made once, for the registration the phone's record is of, and
  the record is written before the state. `GoneOK` and `ServedOK` carry a deletion through:
  an acknowledged id is in no state, no listener that procd keeps, no configuration from
  which it would start one, and no publication that can still get past its comparison.
* `ReleaseIsForGood` (`LeaseProofs`). For each claim that is over, no live lease has
  it and every request that is still fresh has a tombstone that outlives it: the remaining
  time of the tombstone plus the age of the request exceeds `Fresh`. This is why a tombstone
  is kept for the longest lease, and it uses `Fresh < MaxLease`.

A call with a cut is one action with a parameter, so the step of a proof is one call, with
a case for how far it came. `ASpec`'s fairness is not used.

`ReleaseProofs` proves the eight safety invariants of the release lines and both
refinements of `Publication`, for any numbers of runs, packages, members, writes, builds
and deaths:

* `InstalledIsWhatWasPinned`. `InstallInv`: an installation holds in memory only what its
  manifest digest pins, it has created every file it has come past, and nobody has
  created a file without those before it. Since creation is exclusive, the first file
  decides whose the others are.
* `BuildStepsLeaveNobody`, `RecordsStayTrue`. `BuildInv`: no tool lives between two steps
  of an attempt, a work directory is of one attempt and only that attempt's tools write
  to it, and a record is made after the last of them is gone. A killed attempt may leave
  writers in its directory, but then it never records.
* `SignatureRecordsAreTrue`, `StagedPackagesAreNamedRight`. `SignInv`: the output
  directory is of one run, which visits each package once; so a package once there keeps
  its content (`Stays`), its signature comes later. `StageInv` uses `Stays`: version and
  digest of a row, read one after the other, are of one content. The two need that no
  package is listed twice.
* `WrappedIsTheBundle`. `WrapInv`: the output is of one run and nothing in it is newer
  than the bundle (`NotNewer`); no file is older than the line it was checked against,
  nor is what has been taken of it since (`Vouched`, `Taken`). What the third read finds
  as listed was therefore never taken otherwise. The lines are those of one read of the
  manifest, and the given ones unless the manifest was rewritten.
* `FiveRolesImplementPublication`, `CompactImplementsPublication`. While a run assembles,
  the output is absent and the copy made; only the verification of that copy leads to the
  rename, and what it accepts is whole (`AcceptedIsWhole`) or of one source
  (`AcceptedIsOfOneSource`). Each step is a `Publish` or leaves the output alone.
* `EntriesAreOfTheirSlots` uses the compact line's invariant.
* `RefusalsHaveReasons`. The property is only about a refusal; `ReasonInv` therefore
  says for every place of the three tools what they hold and what they have found out,
  as long as nobody has written since the budget tool began (`Alone`). What was read is
  what is there, document by document (`DocsTrue`), package by package (`PackagesTrue`),
  then bindings, binaries and receipts (`BindingsTrue`, `PayloadsTrue`) and the ten
  copies (`CopiesTrue`). What `package-budget.py` has compared by then (`Found`) adds up
  to `Coherent` when it writes, so an existing budget is the one budget the files have
  (`BudgetTrue`), and the catalog's row repeats its budget also when somebody writes
  (`CatalogRepeats`). The tools that come later then find every comparison satisfied
  (`BudgetFacts`, `CopyPasses`), or the refusal is one the property lists, the terms
  that only the catalog looks at among them.

The exclusive creations need an identity for "nobody" that is no run's: the assumptions
`TransactionAssumption`, `SigningAssumption` and `TransportAssumption` say so.

`BackupProofs` proves three of `Backup`'s safety invariants, for any jobs and documents and
any numbers of deaths, power losses, faults, foreign commits, ticks and reloads:

* `BackupTypeCorrect`, which therefore needs no run. `LaunchOK` strengthens `TypeOK`:
  the job that rpcd launches has no worker yet.
* `HalfRestoredIsDown`. `NoTunnelHalfway` speaks of the journal and the tunnel only.
  `LockInv` says who holds which lock where, whose a run of `recover()` is, and that a
  worker in quiesce waits for its own run of the init script. So whoever decides a job is
  alone with its journal. `HalfInv` says what this is for: a job is queued as PREPARED, a
  worker from quiesce to `mark` has a pending journal, from APPLYING on and whenever the
  journal is halfway there is no tunnel but one that is ending with none to follow (`Down`,
  which `TunnelEnds` cannot disturb), and the init script neither starts it nor holds a
  recovery's "ok", and a recovery writes only once it has decided on a terminal phase.
* `StopIsFinal`. `StopInv` adds what `stop_intent` is for: a job queued before a Stop has an
  intent below the router's (`Bounded`), also between the Stop's two writes; a worker that
  comes to write `state.json` has the router's, hence no Stop since (and `state.lock`
  keeps the next one out); a recovery rewrites the journal for its own job only
  (`SameJob`). As in the runs, a Stop counts as long as the flash has it: `stop_server`
  does not sync `state.json`, and a power loss that brings the earlier state back ends
  `stopped`.

They use that an absent journal is not a journal (`AbsentAssumption`): in the program
its file is missing. None of the three needs to know how old the contents in `disk` are,
since a power loss also ends every process and every tunnel.

`RestoreProofs` proves the four other invariants and the two refinements, for the same
constants:

* `CommitsAreCurrent`. `JobInv`: all copies of a job's journal, in the files, on the flash
  and in the hands of worker, recovery and rpcd, are of one plan and differ in the phase
  (`Same`); no `state.json` on the flash is newer than the one that is read
  (`NewestState`); and a worker that has compared the revision still finds it, because it
  holds `state.lock` from there to the write (`Current`).
* `NeverStuckAlone`. `PhaseInv` ties the phase of the journal to `state.json`: while the
  flash may hold the job PREPARED, APPLYING or CANCELLED its document is in no `state.json`
  (`NotYet`), before its worker's mark there is no mark on the flash (`Unmarked`), from then
  on nothing but the mark until the commit (`Marked`), and a recovery cancels or confirms
  accordingly (`Justified`). `PeaceInv` adds that without meddling the product files are the
  job's before or after wherever a recovery may look (`OwnFiles`, `Decidable`) and replaced
  at the mark (`Replaced`), so the verdict is never RECOVERY_REQUIRED.
* `FinishedJobsAreWhole`. `WholeInv`: a worker or a recovery has behind it exactly the files
  its place says (`RolledOut`, `RolledBack`), and what a finished job left stays
  (`SettledInv`). Conditions: no foreign commit of `/etc/config/foxhole` (`Unedited`), which
  may put the old value back after the job, and no power loss (`Lossless`), after which the
  files are what the flash has: that is the next theorem. Deaths, failing writes and syncs,
  calls and ticks are all there.
* `RestoresAreDurable`. `FlashInv` says the same of every combination of contents the flash
  may hold: a finished journal on it is finished in memory too (`FinishedForAll`), whoever
  goes on has synced what it wrote or is about to (`Flushed`, `DocFlushed`, `OutOnFlash`,
  `BackOnFlash`), and a recovery gives up only on a job that is not finished (`GivesUp`).
  Any number of power losses at any step, but no death of a process and no failing write or
  sync (`Unfailing`): with one, the run `backup_torn` shows that it is false.
* `RestoresImplementSettings`. A job is in force from the step that writes its
  `state.json`: it still finds the state it planned for (`Fresh`), so that its own is
  the next revision, and the product files are its own by then (`RolledOut`). Until then
  what the worker writes to them counts for nothing, because the job is pending
  (`PendingWork`) and its document in no `state.json` (`NotYet`); what a recovery writes
  does not either, because it replaces files for a job it cancels only (`Justified`). At
  the terminal phase the files are what stood for them (`RolledOut`, `RolledBack`).
  Deaths, failing writes and syncs may come at any step. Excluded are a foreign commit
  and a power loss, and from `RECOVERY_REQUIRED` on nothing is claimed: a human decides.
* `LossesImplementSettings`. `Uniform`: what a combination of the files on the flash
  amounts to depends on its `state.json` only (`With`). This follows from the invariants
  above and `Announced`: until the sync of `prepare_job()` the flash may lack the
  journal, and then it has the product files as the journal found them. A step that
  loses nothing keeps `With`, and a power loss chooses one `state.json`. The conditions
  are those of `RestoresAreDurable`, and `MeddlingShows` derives two of them from
  `meddled`.

Conditions like these appear in the theorem's formula and not as assumptions on a constant:
they hold in every behaviour up to the first such event, and in all of a behaviour in which
the budget is not used. Of `StuckOnlyIfMeddled` the condition is part of the property.

Only model-checked: liveness (`Settles`, `StopTakesEffect`, `EverybodyReturns`,
`RevocationGetsThrough`, `ServerComesBack`, `BuildHasAnEnd`), which is beyond the prover.
`RunningIsDesired`, `ReceiptIsSound`, `PublishedWithReceipt`, the two fail-closed invariants
and `StoppedIsStopped` are proved for `MaxOrphans = 0` only; with an orphan they are false.

## 5. Plan

In this order:

1. `EngineJob` and `Update`: job journals, the worker's identity, Stop intent and the
   deferred Stop of the package phase; composed with a one-line abstraction of the runtime.
2. `phone_handoff` with the runtime: the comparison of status before and after.
3. `Probe`, `RamUpdate`; `nft_config` against `policy_decision` as pure functions.
4. `Gate`, an abstract egress that is open or closed, which `Runtime` implements; proof of
   the refinement from `ClosedInv`.

## 6. Not modelled

LuCI's JavaScript only calls the RPCs. Certificates, enrolment links, the TLS listener's
identity and the legal notices are data formats. The remaining tools
(`build-source.py`, `check-hysteria-security.py`, `server-package-reuse.py`,
`engine-legal.py`, the installer) check files they read once, with no second actor.
`update_client` and `client_access` edit one record under the lock; `phone_resolve` changes
nothing. The native recovery helpers are outside the control plane. Engine jobs, updates,
RAM updates, probe and history are in the plan.
