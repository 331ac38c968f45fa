# Formal models of bluehashapp (Windows port)

TLA+ specifications of the `csid` daemon: how it comes to hold a key, how keys
travel between the devices of a user, how a desktop is paired with a user, how
files are encrypted, and how the daemon serves its clients and stops. TLC checks
small instances, TLAPS proves most of the safety properties for every instance.
Paths below are relative to the repository (`src/` here).

## 1. Inventory

### Components

| Component | State | Operations | Where |
|---|---|---|---|
| Hardware identity (HIK) | X25519 secret and a version, two Credential Manager entries | load or generate, rotate | `csi-core/src/crypto.rs`, `keychain.rs` |
| PNK session | `pnk`, `logged_in_user`, `device_id`, `key_version` in `DaemonState`; the `pnk` credential | Login, SyncKeys, RotatePnk, daily rotation, RotateHik, Logout | `csid/src/main.rs`, `csi-core/src/broker.rs` |
| Desktop pairing | `oauth_listening`, one polling task, rows of `desktop_sessions` | StartOAuthFlow, poll, consume | `csid/src/main.rs:544`, `broker.rs:303`, `supabase_phase3_desktop_link.sql` |
| File watcher | `in_flight`, `pending_encrypt`, manifest in memory and on disk, `.tmp`/`.enc` files | start-up scan, event handling, encrypt, EncryptFile, EncryptFileToNetwork, OpenFile, GetFiles | `csid/src/watcher.rs`, `csid/src/main.rs:928` |
| Network sync | one `nk:<id>` credential per network, rows of `networks`, `network_members`, `key_broker` | a sync every 10 s and on request | `csid/src/main.rs:405` |
| Broker (Supabase, external) | tables `devices`, `key_broker`, `desktop_sessions`, `networks` | REST reads, inserts and patches | `csi-core/src/broker.rs`, `*.sql` |
| IPC server, service, tray | pipe instances, the STOP flag, the `RwLock`; the tray keeps none | accept, one task per client; start, stop; send a command, retry | `csid/src/main.rs:316`, `service.rs`, `csi-tray` |

The daemon is one process on a tokio runtime. Every pipe client, the heartbeat,
the daily rotation, the network sync, the watcher and each pairing's polling
task are tasks of their own. They share one `DaemonState` behind an `RwLock` and
communicate through nothing else inside the process; between machines they
communicate through rows of the broker only.

### Where it is hard

* **State read before an await and used after it.** All handlers but Logout copy
  what they need under the lock, release it and make one or several HTTP calls.
  Two requests, or a request and a timer, interleave at every call.
* **Calls that fail, take effect without an answer, or are never answered.** No
  call is retried by the daemon; the user retries the whole request. The HTTP
  client sets no timeout (`broker.rs:54`).
* **Errors that are ignored.** The result of `store_pnk` is dropped; a read of a
  stored key that fails counts as "none stored" (`main.rs:431`, `646`, `849`).
* **Three copies of a key** (memory, Credential Manager, broker), updated by
  different operations and not together.
* **Crashes.** Memory is lost, credentials, files and broker rows survive.
* **One lock for everything.** A broker call made under a guard holds up all other
  tasks.
* **The file system.** Users and editors act on the directory while the daemon
  does; events arrive late; a plaintext file is deleted by the daemon.

### What makes each component correct

* *PNK session*: a registered daemon has its keys; a rotation is all or nothing;
  the key in use can be had again; the device row names the identity in use; a
  device is registered once; versions do not go back.
* *Pairing*: one attempt at a time; every attempt ends; the user logged in is the
  one who linked that attempt's session.
* *Watcher*: nothing the user saved is lost; an entry names the key its file is
  encrypted under; a file is never marked in flight for ever; what was removed is
  listed; what is listed opens.
* *Network sync*: whoever opens the copies of one version gets one NK, the one the
  owner's daemon has stored; every member's device gets one it can use.
* *Identity store*: after a crash the identity is the old or the new one, with
  its version; one that was rotated away never comes back.
* *Server*: every command comes back; nobody waits for himself; a stop comes
  through.

The hazards, each at its line and with the properties aimed at it, are listed in
`PROJECT.json`.

## 2. Modules

| Module | Contents |
|---|---|
| `KeyWrap` | `wrap`/`unwrap`: who can compute the shared secret a key was wrapped under. Constant-level, used by `PnkSession` and `NetworkSync`. |
| `PnkSession` | the PNK of several daemons, and the tables `devices` and `key_broker` |
| `PnkSessionProofs` | its inductive invariant and theorems |
| `PnkRowsProofs` | the device rows: registered once, and naming the identity in use |
| `Pairing` | StartOAuthFlow and its polling task |
| `SingleFlight` | what `oauth_listening` promises; `Pairing` refines it |
| `PairingProofs` | its inductive invariant and theorems |
| `Watcher` | the directory, its events, the encryptions, the manifest |
| `WatcherProofs` | its inductive invariant and theorems |
| `NetworkSync` | sync_networks_once: NKs, members, their delivery |
| `NetworkSyncProofs` | its inductive invariant and theorems |
| `NetworkOneKeyProofs` | one key per network, until two runs meet or a read fails |
| `HikStore` | the hardware identity: two credentials and the copy in memory |
| `FreshIdentity` | what a machine promises about its identity; `HikStore` refines it |
| `HikStoreProofs` | its inductive invariant, theorems and the refinement |
| `Server` | accept loop, connections, the lock, the tray's commands, the stop flag |
| `ServerProofs` | its inductive invariant and theorems |
| `MCPnkSession`, `MCWatcher`, `MCNetworkSync`, `MCServer` | symmetry sets and constant functions for TLC |

How they fit together: a pairing that has reached `ApplyIdentity` goes on as
`Login` of `PnkSession` does; what a login, a sync or a rotation does to
`DaemonState.pnk` is `AdoptLogin`, `AdoptSync` and `AdoptRotation` there, and
appears in `Watcher` as `Login` (followed by `DrainPending`) and `SetPnk`, which
may give the PNK any value at any time: every order in which `PnkSession` can
change it is included. `RotateIdentity` of `PnkSession` is a whole rotation of
`HikStore`: it runs under the write lock, and `HikStore` shows what a crash in the
middle of it leaves. `Server` is the frame of all of them: it knows of a request
only in which order it takes the lock and calls the broker, and its properties
are about the waiting that the other modules leave out.

Definitions named "Mutant:" in their comments are plausible mistakes in the
operation defined after them. They are used by no specification; substituting
one for its operation must make a run fail, which shows that the run's property
depends on the operation.

### PnkSession

One step of a request is one lock section, one credential access or one broker
call; `task[d][t]` holds its program counter and the locals that live across the
await. The program counters follow the source:

| pc | next step | source |
|---|---|---|
| `hik`, `check`, `register` | `export_public_hik`, then the two calls of `register_device` | `main.rs:845`, `broker.rs:138` |
| `load`, `fetch`, `unwrap`, `generate` | where the PNK comes from | `main.rs:849-868` |
| `list`, `push` | `get_devices_for_key_distribution`, one `push_wrapped_pnk` per device | `main.rs:870-879`, `755-770`, `821-832` |
| `rotate`, `export`, `device`, `patch`, `version`, `pnk` | RotateHik | `main.rs:792-818` |

`op` tells the requests apart that share steps. At `push` with nothing left to
push a request ends: `AdoptLogin`, `AdoptSync`, `AdoptRotation`,
`AbandonRotation` or `RewrapDone`. StartOAuthFlow's post-login code and Login are
one set of actions: they differ in log lines only. So are RotatePnk and the daily
timer. A run of the network sync takes identity, user and device from one lock
section and delivers network keys (`StartNetSync`, `PushNetworkKey`); it is here
because its rows share `key_broker` with the PNK's, and `NetworkSync` has it in
detail. A broker call that writes has three outcomes: `ok`, `refused` (no effect)
and `lost` (effect, but an error here). A PNK is a serial number and carries, as
a ghost, the user it was generated for. Versions grow by `saturating_add(1)` on a
`u32` from 1; `MaxVersion` is far below saturation, which nothing here examines.

`load_pnk` and `store_pnk` may fail (`CredFaults`): every error of the former leads
to the broker, as a missing entry does, and the latter's result is ignored, with the
old entry or none left behind. The ghost `mishap[d]` records what has ever gone
wrong on a machine; no action reads it, and the properties that do not survive one
of these events name it:

| mishap | event | exempts it from |
|---|---|---|
| `unstored` | a `store_pnk` failed | the stored half of `RegisteredHasKeys`; `VersionNeverGoesBack` |
| `unread` | a `load_pnk` failed although a key was stored | `VersionNeverGoesBack` |
| `overlap` | a registration met another one or a RotateHik | `OneRowPerHik`, `RowFollowsIdentity` |
| `logout` | a Logout came in the middle of a login | `RowFollowsIdentity` |
| `unpatched` | RotateHik's PATCH of the row was not answered | `RowFollowsIdentity` |

In each case the exempted behaviour is one the code really has (section 4).

### Pairing and SingleFlight

`attempt[a]` is one request and the task it spawned. `holder` maps it to
`SingleFlight`: the attempt that is not idle, if there is one. The web site is
the action `LinkSession`. `MaxPolls` stands for `MAX_POLLS` = 150; the loop runs
at least once, which is the assumption on it. A call that is never answered
(`Hang`) leaves its attempt at `hung`; `SingleFlight` then is `stuck`, and its
flight is ended by nothing but `Reset`, a restart.

### NetworkSync

`task[m][t]` is one run of `sync_networks_once`; the 10 s loop and each
SyncNetworks request are runs. A run takes user and identity at its start and
goes on with them whatever the session does meanwhile. The program counters:

| pc | next step | source |
|---|---|---|
| `memberships`, `networks` | the two calls of `list_user_networks` | `broker.rs:397-436` |
| `next` | the next network of the list: is there a stored NK? | `main.rs:429-431` |
| `fetch`, `store` | get a delivered NK and store it | `main.rs:437-457` |
| `generate` | the owner makes one | `main.rs:461-469` |
| `load`, `members`, `devices` | what to deliver, and to whom | `main.rs:473-486` |
| `deliver`, `push` | per device: delivered already? if not, push | `main.rs:490-517` |

A machine has one row of `devices`, whose id is the machine; Login, registration,
RotateHik and Logout are single steps (`PnkSession` has them in detail, with the
cases in which a row goes stale or is duplicated). The web site is `AddMember`,
`RemoveMember` and `RaiseVersion`; nothing in the repository raises
`key_version`, but the daemon reads it at every run. `store_nk` deletes the
credential before it writes, so a failed store leaves none. An NK carries two
ghosts, the network and the user it was made for; `joined` is the ghost that
remembers past members. A broker call is answered, fails, loses its answer or is
never answered (`Hang`, which leaves the run at `hung` for ever: the 10 s loop waits
for its own run, `main.rs:313`); a read of the stored NK may fail, which
`load_nk(..).is_ok()` takes for "none stored" (`CheckNk`) and the later read for "not
this time" (`LoadNk`). All these count against `MaxFaults`.

The ghost `disturbed` collects the machines on which two runs have met or a stored
NK was not read. `OneKeyUnlessDisturbed` exempts them: these are the two ways in
which the code makes a second key of a network on one machine, and the run
`NetworkOneKey` shows the first.

### HikStore and FreshIdentity

Each step is one Credential Manager call, which succeeds or fails, and the
process can die between any two. `store_device_secret` deletes the entry and
ignores what comes of it, then writes. `load_or_generate` makes a new identity on
any error of the read. An identity is a serial number with the version it was
generated for as a ghost; `last` and `retired` remember which identities a process
has worked under. The refinement maps `FreshIdentity`'s current identity to
`last`: a crash half way through a rotation may replace the identity (the new
secret is stored, the daemon comes back under it), but a retired one never returns.
Its version then is behind, which is all that can happen to it: the broker's
`hik_version` column, where it ends up, is read by nobody in the repository.

### Server

A request is its `Plan`, the sequence of its lock sections and broker calls as
they stand in `process_request` and the functions it calls:

| step | code |
|---|---|
| `read`, `write` | a guard that is dropped before the next await: one step |
| `share`, `own` | a read or write guard that lives across an await, until `release` |
| `call` | one or more broker calls |
| `may` | a place where the request may return, dropping its guard |

A section that the code may leave out (a branch not taken) is always in the plan,
which only adds waiting. RotateHik keeps the read guard of
`if let Some(device_id) = { state.read().await.device_id }` until the end of that
statement: the workspace is edition 2021, where the temporary of a block's last
expression lives that long. A request that waits for the lock is in `queue`;
tokio's `RwLock` serves its waiters in order, readers and writers alike. The
polling task that StartOAuthFlow spawns and the watcher take the lock as Login and
EncryptFile do and are not tasks of their own here; the encryptions that drain
`pending_encrypt` at the end of a login are left out.

`cmd[c]` holds both ends of a connection. `instance` is the one pending pipe
instance: free, or open to a client that the accept loop has not taken yet;
between `Connect` and `CreateNext` there is none, which is when a client's open
fails and is tried again. A client starts its next command when the daemon is done
with its last. `Probe` is `ensure_daemon_running`, which touches the pipe and goes.
`Exit` is the end of `run_daemon`: its runtime is dropped with every task at its
await. A call in `hung` is never answered.

### Watcher

`tmp`, `enc` and the manifest are indexed by the content, because do_encrypt
names a ciphertext after the hash of the plaintext: two files of the same content
in one directory share a `.enc` file. `fs::write` is two steps (truncate, fill)
so that another task can rename the file between them; `handle` says which
directory entry the open file has become meanwhile. The file system watcher's
event kinds are those the arms of `handle_event` name: `created` stands for
Create(File) and for a rename to a plaintext name, which that function treats
alike. Whether the `notify` crate reports precisely these kinds on every
platform is outside the repository. Saving a new file raises `created`,
overwriting one raises `modified`.

Three ghost variables carry what the properties need and no action reads:
`owed[p]`, what the user last left at `p`; `overlapped`, contents that two
encryptions were writing at the same time; `unrecorded`, contents whose last
encryption ended between its rename and a complete save of the manifest, or whose
new file met the late event of an old one. They delimit exactly the cases in which
the code gives no guarantee.

## 3. Runs

Each takes seconds to a few minutes with two workers on a laptop.

| Run | Instance | Shows |
|---|---|---|
| `PnkConcurrent` | 1 device, 2 concurrent requests, 1 user, 1 row id, failing calls, 2 keys, 1 HIK rotation, versions 1 and 2 | `TypeOK`, `RegisteredHasKeys`, `RowFollowsIdentity`, `RotationAllOrNothing` |
| `PnkSequential` | 1 device, 1 request at a time, 3 row ids, no failing call but failing reads and writes of the stored PNK, 2 keys, 2 HIK rotations, versions up to 3, a network's key of version 1 | `RegisteredHasKeys`, `KeyRecoverable`, `OneRowPerHik`, `VersionNeverGoesBack` |
| `PnkDelivered`, `PnkNetworkKey` | smallest instances | refute `DeliveredKeyOpens`, `PnkIsPersonal` |
| `Pairing` | 2 attempts, 3 sessions, 2 users, calls that fail or hang, 2 polls | `TypeOK`, `ListeningHasOwner`, `LogsInWhoLinked`, `RefinesSingleFlight` (with liveness) |
| `Watcher` | 2 paths, 2 contents, the watcher task and a client, a PNK and an NK, two of: user actions, I/O errors, crashes | `TypeOK`, `NothingLost`, `TagMatchesKey`, `MarkHasTask`, `RemovedIsListed` |
| `NetworkSync` | 2 machines, each with its own user, the runs of the owner's, one at a time, 1 network, 1 fault, 1 HIK rotation of the member's machine, versions 1 and 2 | `OneKeyUnlessDisturbed`, `MembersAreServed` (liveness) |
| `NetworkConcurrent` | 1 machine that 2 users share, 2 runs at once, 1 network, 1 fault, 1 HIK rotation | `TypeOK`, `KeysFromOwner`, `OnlyMembersGetKeys`, `OneKeyUnlessDisturbed` |
| `NetworkOneKey` | 1 machine, 2 runs at once, no failing call | refutes `OneKeyPerNetwork` |
| `HikStore` | 5 identities, 3 failing calls, crashes anywhere | `TypeOK`, `RestartKeepsIdentity`, `VersionNotAhead`, `RefinesFreshIdentity` |
| `Server` | the popover's poll, a second client with any of 7 requests, the rotation loop, 2 tries, 1 call that hangs, pipe errors | `TypeOK`, `AtMostOneMore`, `NoGuardWaits`, `CommandsEnd`, `StopEnds` (liveness) |
| `ServiceStop` | the heartbeat instead, no failure, nobody has to send a command | refutes `ServiceStops` |

**Bounds.** `MaxKeys`, `MaxHik` and `MaxVersion` limit how many keys, identities
and versions are made; `Sessions` the rows of `desktop_sessions`; `MaxOutside`
the user's actions, failures and crashes in `Watcher`, `MaxPending` its queue;
`MaxFaults` the calls and accesses that fail or hang in `NetworkSync` and
`HikStore`; `MaxMade` the identities of a machine; `MaxHung` the calls of `Server`
that are never answered; `Syncing` the machines whose network sync is followed.
`MaxNkVersion` is the highest version of a network's key (0: no networks).

* Two requests at once are what it takes for a race on `DaemonState`; a third
  adds no new pair of reads and writes. `PnkConcurrent` has one row id, so that no
  machine is registered twice, and does not follow a machine on which two of the
  mishaps have happened (`OneMishap`; without this bound its 3.1 million states hold
  as well). The type invariant, `RegisteredHasKeys`,
  `RotationAllOrNothing` and `RowFollowsIdentity` are proved for all sizes
  (section 5), and so is `OneRowPerHik`, which `PnkSequential` checks with three rows.
* `KeyRecoverable` and `VersionNeverGoesBack` are about one request at a time, answered
  calls, one user and, the latter, one machine; they are claimed for no more.
  A refused PATCH in RotateHik leaves a row with the old HIK; a rotation does not
  deliver to a device row that another user registered; and with two machines a
  rotation adopted while `device_id` is still None, then a new row that starts at
  version 1, lets SyncKeys take the daemon from 2 to 1. Credential Manager failures
  are in: two keys and a network's key are enough for a read that fails to replace
  a stored key by a generated one, by a delivered one and by the network's.
* Two attempts are enough to violate a single flight; three sessions let an
  attempt find a row of an earlier one.
* In `Watcher`, two paths with equal contents, two contents at one path, a save
  over a file being encrypted, an error or a crash after a save, and a personal
  and a network encryption of the same content all occur. Runs with three outside
  steps on one path and two contents (4.9 million states) and on two paths and one
  content (11.6 million) hold as well.
* Five identities are a first start, rotations and identities that a failed or
  crashed rotation wasted; three failures can hit the read, the delete and the
  write of one start.
* In `Server`, three tasks are what it takes for a reader, a writer behind it and a
  second read; the seven requests are one for each way of using the lock that poll
  and loop do not have. Two tries stand for ten: the retries only count. Deadlock
  is not checked, for two good reasons: a daemon that was stopped, and one whose
  call hangs under a guard.
* One fault at any point of a run of the network sync is enough to skip a device,
  lose an answer, lose or overlook an NK or stop the loop; the next run starts from
  what that left. `NetworkSync` holds with two faults and three keys as well (612,000
  states). `MaxKeys` is larger than `MaxFaults`, so that the bound never keeps the
  owner from making a key. It follows the runs of the owner's machine only; a
  member's machine fetches and stores its copy without any effect on the owner's
  keys or on the broker. Its other machine rotates its identity, so that the row in
  `devices` and a delivered copy can disagree. `NetworkConcurrent` has both users
  and both kinds of run on one machine. The theorems have no bounds.

**Symmetry** is used for the identifiers a specification only compares, and in
runs without liveness only.

**Fairness.** `Pairing` and `NetworkSync` have liveness properties. Weak fairness of
`Proceed(a)` says that the runtime schedules a spawned task, that its 2 s sleep
ends and that an HTTP call which does not hang is answered or fails. A call may
hang, at any of the broker calls, because the client has no timeout
(`broker.rs:54`): `Hang` is an action of both modules and no fairness leads out of
it. The refinement of `SingleFlight` promises an end only to a flight that is not
stuck, and `MembersAreServed` service only while no run of the owner's machine is
hung. Nobody has to link a session or to log in. In `NetworkSync`, weak fairness of
`Proceed(m, t)` says that the 10 s loop starts its next run; that only `MaxFaults`
calls fail or hang stands for a broker that answers in the end. `MembersAreServed`
demands service only while the owner stays logged in, the device active and no copy
of the current version that was wrapped for an earlier identity stands in the way
(section 4). In `Server`, weak fairness of each task, of the accept loop and of
the client's code says that the runtime polls what is ready and that a call which
does not hang is answered; nobody has to send a command, start a daemon or stop
one. `PollingSpec` adds that an open popover asks for the status every four seconds
(`csi-tray/index.html:778`), which is what `StopEnds` rests on and `ServiceStops`
goes without. `CommandsEnd` and `StopEnds` exempt what a hung call really stops:
the request that made it, and everything if it was made under a guard. The other
modules make no liveness claim: files queued in `pending_encrypt` wait for a login
that need not come.

## 4. What the refuted properties mean

Each states what a comment, document or message of the repository says, and a run
shows the code do otherwise (`findings` in `PROJECT.json` quotes the lines).

* `DeliveredKeyOpens`: `unwrap` is given the recipient's own public key instead
  of the sender's; a key delivered by another device does not open.
* `PnkIsPersonal`: SyncKeys takes the delivered row of the highest version without
  looking at `network_id`. A daemon whose network sync has delivered a network's
  key to its own device then works with that as its PNK. SyncKeys leaves it in
  memory; a login stores it too when it has to fetch because its read of the stored
  PNK failed.
* `ServiceStops`: the accept loop looks at the flag before it waits for a client and
  not while it does; a stop without a client stays without effect. With a client
  it comes through (`StopEnds`, `AtMostOneMore`).
* `OneKeyPerNetwork`: a run that found no NK stores a new one after several
  calls without looking again, so two runs at once replace each other's key, and
  what was encrypted or delivered under the first stays under it. With the way keys
  are unwrapped (`DeliveredKeyOpens`), a second machine of the owner always makes
  a key of its own. `OneKeyUnlessDisturbed` is what holds of it.

The following also come from the code; they are what the exemptions in the
properties stand for, or what TLC answered to the obvious property. Most contradict
no word of the repository, and no run states them.

Keys and identities:

* The stored PNK belongs to the machine, not to the user who logs in: a second user
  gets the key of the first.
* After a rotation and a restart a login comes back with the key from before the
  rotation, because rotations do not store the key they adopt.
* A login whose read of the stored PNK fails, for whatever reason, stores another
  one over it; one whose `store_pnk` fails goes on without a stored key.
* Two registrations at once insert two rows for one identity; a row is left with the
  old identity by a RotateHik whose PATCH fails, and by a registration that meets it.

Network keys:

* A read of the stored NK that fails makes the owner's daemon ask for its own
  delivered copy, and generate a second key in place of the first when there is
  none yet, the call fails too or the copy was wrapped for an earlier identity.
  Members keep the first (`main.rs:431-468`).
* Two runs at once can push the same key to a device twice, in spite of the
  "Idempotency" of `main.rs:491`: the check and the push are two calls.
* That check looks for the version only. A device that was served before its
  RotateHik is not served again: it keeps a copy wrapped for an identity that is
  gone (`Outdated`), until the version changes.
* There is no rotation of an NK. `supabase_phase4_networks.sql:20-23` has the
  version "bumped by the daemon whenever the NK is rotated (member removal, explicit
  rotate)" and `broker.rs:478-480` fetches "for picking up rotations", but nothing
  in the repository makes another NK or raises the version, and a machine that has an
  NK does not fetch. If somebody else raises the version, the old key is delivered
  under it; a removed member's copy stays valid.

Waiting:

* A create, poll or consume that is never answered keeps `oauth_listening` set, and
  every later pairing is refused until the daemon is restarted: MAX_POLLS counts
  answered polls. A call of the network sync that is never answered ends the 10 s loop.
* Logout, GetConnections and GetNetworkDevices call the broker under a guard. One
  that hangs stops every request and every loop: Logout at once, the others, which
  hold a read guard, when the next writer asks for the lock.

Files:

* A crash between the removal of a plaintext and its entry leaves a `.enc` file that
  the manifest never shows; `watcher.rs:2-4` has the manifest updated first.
* The manifest is written in place: a crash or a full disk in the middle loses all
  its entries, and the next start begins with an empty one.
* OpenFile uses the PNK of the moment; files encrypted before a rotation, or during
  one, do not open.

`keychain.rs:101-103` speaks of a typed error by which the crypto layer can tell a
missing entry from a failure; `load_or_generate` makes a new identity for either,
as `LoadSecret` has it, so that an identity is lost to one unreadable moment.

`RotationAllOrNothing` is about the end of the rotation itself. Another request
of the same daemon, a login that fetches what the rotation has already pushed,
can adopt its key earlier.

## 5. Proofs

Checked by TLAPS, for arbitrary constants that satisfy the modules' assumptions
(the sentinel `None` differs from the data; bounds are naturals, `MaxPolls` is
positive; the watched directory has finitely many paths).

**PnkSessionProofs.** `Invariance` proves the inductive invariant

    Inv == TypeOK /\ every request's TaskOK /\ every daemon's DaemonOK

where `TaskOK` says what a request's locals hold at each program counter:

* `LocalsOK`: which operation can be where and which locals are set;
* `DeviceOK`: a device id in hand is that of an existing row;
* `StoredOK`: a login that has its key has stored one, or a store has failed there;
* `DeliveryOK`: a rotation has delivered its key to every device it is done with,
  or has noted a failure.

`RegisteredHasKeys` is not inductive: `AdoptLogin` needs to know that the key in
hand was stored, which only `StoredOK` says. `RotationAllOrNothing` needs
`DeliveryOK` at the step that adopts the key, and that in turn needs that
`key_broker` only grows. A frame lemma (`Grows`) shows once that what the other
requests know survives a step; then there is one lemma per action. `TypeCorrect`,
`RegisteredKeys` and `RotationDelivers` follow. No theorem assumes reliable calls,
reliable credentials or one request at a time.

**PnkRowsProofs.** `RegistersOnce` (`OneRowPerHik`) and `RowFollows`
(`RowFollowsIdentity`), for any machines, users and requests at once, with failing
calls, lost answers and crashes. Their exemptions are part of the properties and are
events of the behaviour (`mishap`), not hypotheses about the daemon: until such an
event has happened on a machine the theorem speaks of it, whatever else runs there.
`RowsInv` adds to `Inv`, for each machine,

* `Held`: it holds and writes rows of its own only, that is, rows that carry an
  identity it has had;
* `Apart`, unless a registration met another or a RotateHik: at most one request is
  between reading the identity and writing it to the table (`Alone`); such a
  request knows the identity in use and, at the insert or the PATCH, that no row
  carries it (`Named`); no two rows of the machine carry one identity (`Distinct`);
* `Follows`: the row of a login that has registered, and of the daemon, is active
  and up to date, but for the time from RotateHik's first step to its PATCH.

`OneRowPerHik` is not inductive because the row is inserted two steps after the
identity was read and one after the table was; `Named` is what carries it across.
`ForeignStep` shows once that a step of one machine leaves all of this alone on
every other and `QuietStep` that a step which touches neither rows nor identity
keeps it, so that the lemmas per action are few.

**PairingProofs.** `OneAttempt` (`ListeningHasOwner`) and `PairsWithLinked`
(`LogsInWhoLinked`) rest on what an attempt knows at each program counter
(`Ready`): its session was opened in the browser, and once seen linked it names
the same user for ever, whatever else happens to the row. `StepInv` shows once
that a step of one attempt that keeps these facts keeps the invariant.
`RefinesSafety` proves the safety part of the refinement: a start begins a
flight, every way out ends it, a call that hangs makes it stuck, only a restart
ends it then, and no other step changes the holder.

**NetworkSyncProofs.** The inductive invariant says of every run what it holds at
each program counter: the network in hand, a key made for that network by its
owner (`OwnKey`), and members and devices that have belonged to the network
(`Reachable`). Neither `KeysFromOwner` nor `OnlyMembersGetKeys` is inductive
without it, because a run stores a key it fetched, and pushes to a device it
listed, several steps later. The frame argument is that a device row keeps its
user and past membership is not forgotten (`Grows`). The theorems hold for any
number of runs, machines, networks and owners.

**NetworkOneKeyProofs.** `KeepsOneKey` (`OneKeyUnlessDisturbed`), for any number of
runs, machines, networks and faults. As above the exemption is an event: the
theorem speaks of a machine until two runs have met there or a stored NK was not
read. That the owner uses one machine is a condition of the property itself.
`OneInv` adds to the invariant above

* `RunsOK`: on an undisturbed machine one run is going on (`Alone`; a hung one does
  not go on); one that fetches or makes a key finds none stored, and one that
  delivers is the owner's and delivers the stored key (`RunOK`);
* `AtHome`: who is logged in uses that machine;
* `CopiesHeld`: every copy of the network's key is the one stored on the owner's
  machine.

The last part is why a key once delivered stays: a key is made, or a failed store
deletes one, only when none is stored, and then there are no copies. The property
is weaker and not inductive: it does not tie a copy of an old version to the stored key.

**HikStoreProofs.** The inductive invariant says where a start or a rotation is and
what it holds there (`PhaseOK`), that the stored identity is never a retired one
and that serial numbers grow (`StoreOK`), and how stored version, claimed version
and identity stand to each other while no call has failed (`VersionOK`).
`RestartKeepsIdentity` is a conjunct of it: it is inductive once `PhaseOK` says that
the secret in the store is the one in hand between the two stores.
`IdentityIsFresh` proves the whole refinement, a safety property: only `Adopt`
changes `last`, and what it adopts is either `last` itself or in no way retired.

**ServerProofs.** The connections (`ConnectionOK`), the accept loop (`LateOK`,
`CreateOK`) and the lock are kept apart. `AtMostOneMore` follows from `LateOK`: a
connection taken after the stop brings the loop back to its check of the flag. For
`NoGuardWaits` the invariant says of each holder of a guard at which positions of
its plan it can be; that no plan takes the lock at one of them is a fact about
every plan, request by request.
The theorems are about any commands, loops and requests, and the fairness of
`FairSpec` is not used in them.

**WatcherProofs.** The inductive invariant `Inv` is `TypeOK`, `MarkHasTask` and

* `LocalsOK`: which locals a task has at each program counter;
* `OwedOK`: a path holds nothing or what the user last left there, and a task
  that will remove the file has read just that, or owes nothing for it;
* `AloneOK`: a content that two tasks write at once is in `overlapped`;
* `FilesOK`: otherwise the handle, the `.tmp` file and the `.enc` file are what
  the one task has made of them, up to the user's deletions;
* `TagsOK`: `TagMatchesKey` for the manifest in memory and for the saved one;
* `NothingLost` and `RemovedIsListed` themselves.

`NothingLost` is not inductive alone: `RemovePlain` removes whatever is at the
path, so it needs that the file there is the one that was read (`OwedOK`) and that
the `.enc` file renamed a step earlier is still whole (`FilesOK`). That needs in
turn that no other task has the same content in hand (`AloneOK`). `TagsOK` is about
the saved manifest too because a restart loads it. A task's steps before its
read and after it gave up share one lemma (`QuietInv`); the others have one each.
That there are finitely many paths is used only for the list that the scan at
start-up makes.

**Only model-checked.** Liveness: that each attempt ends (and with it the liveness
half of `RefinesSingleFlight`), that members are served, that commands come back
and a stop comes through. `KeyRecoverable` and `VersionNeverGoesBack`, which need
one request at a time and answered calls: as hypotheses of a theorem these would
exclude what the daemon does all the time, so that they stay with the run that
states them. Every other safety property of a passing run is proved.

## 6. Not modelled

* A daemon without broker in `PnkSession` (Login only sets the user there), a HIK
  that does not parse or wrap, which a push skips without counting an error
  (`main.rs:759-760`, `271-272`; no daemon writes one), and a Credential Manager
  that fails while the identity is rotated, which is in `HikStore`.
* `Watcher`: Create(Folder), several directories, renames of `.enc` files by the
  user, the decrypted copies that OpenFile leaves in the temporary directory.
* What status and listing requests answer, the heartbeat's timestamp, the
  `hik_version` column, logging, packaging, the tray's user interface: they change
  no state that another part reads.
* Two daemons on one machine (`first_pipe_instance`, and the tray's spawn of a daemon
  that is starting already); installing and removing the service; requests and
  responses longer than the 4096-byte buffers, which are cut or split.
* `HikStore`: an entry of the wrong length, with which a daemon does not start.
* Cryptography below "who can compute the shared secret", HTTP details, row-level
  security.

## 7. Plan

Done: the modules of section 2, the runs of section 3 and the theorems of section 5.
Next, in this order:

1. Two daemons at once over the same credentials, directory and manifest.
2. `KeyRecoverable` with its exemptions as events, in the manner of `mishap`: it
   would have to name the pushes that failed and the rotations that overlapped.
