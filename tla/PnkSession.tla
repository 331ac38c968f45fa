----------------------------- MODULE PnkSession -----------------------------
(***************************************************************************)
(* The Personal Network Key (PNK) of the daemons and the broker tables     *)
(* that distribute it: login, SyncKeys, RotatePnk (on demand and every     *)
(* 24 h), RotateHik, Logout and a daemon restart; and, because they end up *)
(* in the same table, the network keys an owner's daemon delivers.         *)
(*                                                                         *)
(* Each connection to the daemon and each background loop is a tokio task  *)
(* that runs one request at a time; tasks share DaemonState behind an      *)
(* RwLock.  A step of a task is one lock section, one credential access or *)
(* one broker call, and the steps of the tasks interleave.  Two guards are *)
(* held across a broker call: Logout's write guard, which makes it one     *)
(* step, and the read guard under which RotateHik updates its device row,  *)
(* which keeps every writer out meanwhile (NoReader).                      *)
(***************************************************************************)
EXTENDS Naturals, KeyWrap

CONSTANTS
  Devices,       \* machines, each running one daemon
  Tasks,         \* requests a daemon can be serving at the same time
  Users,         \* user ids
  RowIds,        \* device UUIDs the broker can hand out
  None,          \* Rust's Option::None, and an unused row id
  BrokerFaults,  \* may a broker call fail?
  CredFaults,    \* may an access to the Credential Manager fail?
  MaxKeys,       \* bound: PNKs ever generated
  MaxHik,        \* bound: a machine that reached this generation starts no rotation
  MaxVersion,    \* bound: versions of a PNK
  MaxNkVersion   \* bound: versions of a network's key (0: there are no networks)

ASSUME FaultsAssumption == BrokerFaults \in BOOLEAN /\ CredFaults \in BOOLEAN
ASSUME BoundsAssumption == {MaxKeys, MaxHik, MaxVersion, MaxNkVersion} \subseteq Nat

(* A PNK is a serial number; owner is a ghost, the user it was made for.   *)
(* A user owns at most one network, whose key is number 0; NetworkSync     *)
(* says when an owner's daemon makes more than one.                        *)
Key == [n : Nat, owner : Users, network : BOOLEAN]
NetworkKey(user) == [n |-> 0, owner |-> user, network |-> TRUE]

(* The gen-th identity that machine dev has generated.                     *)
Hik == [dev : Devices, gen : Nat]

(* A row of the devices table, and of key_broker.                          *)
DeviceRow == [user : Users, hik : Hik, active : BOOLEAN]
Wrapped   == [key : Key, shared : SUBSET Hik]
BrokerRow == [target : RowIds, wrapped : Wrapped, version : Nat]
Target    == [id : RowIds, hik : Hik]

ASSUME NoneAssumption ==
  None \notin Key /\ None \notin Hik /\ None \notin RowIds /\ None \notin DeviceRow

VARIABLES
  daemon,     \* daemon[d]: the part of DaemonState in memory on d
  cred,       \* cred[d]: the "pnk" entry of d's Credential Manager
  rows,       \* the devices table
  keyBroker,  \* the key_broker table
  task,       \* task[d][t]: program counter and locals of a request
  made,       \* how many PNKs have been generated so far
  mishap      \* ghost, mishap[d]: what has ever gone wrong on d (Mishaps)

vars == <<daemon, cred, rows, keyBroker, task, made, mishap>>

(* A registration or a rotation of the identity met another; a logout came *)
(* in the middle of a login; a PNK was not stored, or a stored one not     *)
(* read; a device row was not updated.  No action reads them.              *)
Mishaps == {"overlap", "logout", "unstored", "unread", "unpatched"}

Daemon == [hik : Hik, pnk : Key \cup {None}, user : Users \cup {None},
           device : RowIds \cup {None}, version : Nat]

PCs == {"idle", "hik", "check", "register", "load", "fetch", "unwrap",
        "generate", "list", "push", "rotate", "export", "device", "patch",
        "version", "pnk", "nk"}

Task == [pc : PCs, op : {"none", "login", "sync", "rotate", "rewrap", "netsync"},
         user : Users \cup {None}, key : Key \cup {None}, version : Nat,
         hik : Hik \cup {None}, pub : Hik \cup {None},
         device : RowIds \cup {None}, row : BrokerRow \cup {None},
         targets : SUBSET Target, todo : SUBSET Target, failed : BOOLEAN]

Idle == [pc |-> "idle", op |-> "none", user |-> None, key |-> None,
         version |-> 0, hik |-> None, pub |-> None, device |-> None,
         row |-> None, targets |-> {}, todo |-> {}, failed |-> FALSE]

TypeOK ==
  /\ daemon \in [Devices -> Daemon]
  /\ cred \in [Devices -> Key \cup {None}]
  /\ rows \in [RowIds -> DeviceRow \cup {None}]
  /\ keyBroker \subseteq BrokerRow
  /\ task \in [Devices -> [Tasks -> Task]]
  /\ made \in Nat
  /\ mishap \in [Devices -> SUBSET Mishaps]

-----------------------------------------------------------------------------
(* run_daemon: what a daemon knows when it has loaded its identity.        *)
Started(hik) ==
  [hik |-> hik, pnk |-> None, user |-> None, device |-> None, version |-> 1]

Init ==
  /\ daemon = [d \in Devices |-> Started([dev |-> d, gen |-> 0])]
  /\ cred = [d \in Devices |-> None]
  /\ rows = [i \in RowIds |-> None]
  /\ keyBroker = {}
  /\ task = [d \in Devices |-> [t \in Tasks |-> Idle]]
  /\ made = 0
  /\ mishap = [d \in Devices |-> {}]

(* A broker call that changes a table is answered, refused without effect, *)
(* or takes effect and its answer is lost.  A read is answered or not.     *)
Outcomes == IF BrokerFaults THEN {"ok", "refused", "lost"} ELSE {"ok"}
ReadOutcomes == IF BrokerFaults THEN {"ok", "failed"} ELSE {"ok"}
Applied(outcome) == outcome \in {"ok", "lost"}

Become(d, t, record) == task' = [task EXCEPT ![d][t] = record]
Goto(d, t, pc) == Become(d, t, [task[d][t] EXCEPT !.pc = pc])
Finish(d, t) == Become(d, t, Idle)
At(d, t, pc) == task[d][t].pc = pc
FreshKey(user) == [n |-> made + 1, owner |-> user, network |-> FALSE]

(* The lock can be had for writing: nobody is in update_device_hik, which  *)
(* RotateHik calls with the guard of its condition still alive.            *)
NoReader(d) == \A t \in Tasks : ~At(d, t, "patch")

Note(d, what) == mishap' = [mishap EXCEPT ![d] = @ \cup what]

(* Between reading the identity for the devices table and writing it there. *)
Registering(d, t) ==
  task[d][t].pc \in {"hik", "check", "register", "rotate", "export", "device", "patch"}
LoggingIn(d, t) == task[d][t].op = "login"

(* store_pnk, whose result every caller ignores: the entry is deleted, then *)
(* written; when either fails, the old one or none is left.                *)
StorePnk(d, k) ==
  \/ cred' = [cred EXCEPT ![d] = k] /\ UNCHANGED mishap
  \/ /\ CredFaults
     /\ cred' \in {cred, [cred EXCEPT ![d] = None]}
     /\ Note(d, {"unstored"})

(* get_devices_for_key_distribution: every row of the user, active or not. *)
DevicesOf(user) ==
  {[id |-> i, hik |-> rows[i].hik] :
     i \in {j \in RowIds : rows[j] # None /\ rows[j].user = user}}

(* Mutant: the answer is not ordered.                                      *)
AnyDelivered(device) == {r \in keyBroker : r.target = device}

(* fetch_wrapped_pnks_for_device orders by version only and does not look  *)
(* at network_id: its first row is any row of the highest version.         *)
Latest(device) ==
  {r \in keyBroker : /\ r.target = device
                     /\ \A q \in keyBroker : q.target = device => q.version <= r.version}

-----------------------------------------------------------------------------
(* Login, and the part of the pairing task that follows a linked session.  *)

Login(d, t, u) ==
  /\ At(d, t, "idle") /\ NoReader(d)
  /\ daemon' = [daemon EXCEPT ![d].user = u]
  /\ Become(d, t, [Idle EXCEPT !.pc = "hik", !.op = "login", !.user = u])
  /\ Note(d, IF \E s \in Tasks : Registering(d, s) THEN {"overlap"} ELSE {})
  /\ UNCHANGED <<cred, rows, keyBroker, made>>

ExportHik(d, t) ==
  /\ At(d, t, "hik")
  /\ Become(d, t, [task[d][t] EXCEPT !.pc = "check", !.pub = daemon[d].hik])
  /\ UNCHANGED <<daemon, cred, rows, keyBroker, made, mishap>>

(* Mutant: looks among the active devices only.                            *)
ActiveRowsWithHik(hik) == {i \in RowIds : rows[i] # None /\ rows[i].hik = hik /\ rows[i].active}

RowsWithHik(hik) == {i \in RowIds : rows[i] # None /\ rows[i].hik = hik}

(* register_device, first call: is there a row with this HIK?  The query   *)
(* does not look at the row's user.                                        *)
RegisterCheck(d, t) ==
  /\ At(d, t, "check")
  /\ LET same == RowsWithHik(task[d][t].pub)
     IN \E outcome \in ReadOutcomes :
          \/ /\ outcome = "failed"
             /\ Finish(d, t)
          \/ /\ outcome = "ok"
             /\ \/ \E i \in same :
                     Become(d, t, [task[d][t] EXCEPT !.pc = "register", !.device = i])
                \/ same = {} /\ Goto(d, t, "register")
  /\ UNCHANGED <<daemon, cred, rows, keyBroker, made, mishap>>

(* register_device, second call: reactivate the row found, keeping its     *)
(* user, or insert a new one under an id the broker picks.                 *)
RegisterWrite(d, t) ==
  /\ At(d, t, "register")
  /\ LET r == task[d][t]
         usable == IF r.device # None THEN {r.device}
                                      ELSE {i \in RowIds : rows[i] = None}
         user(i) == IF r.device # None THEN rows[i].user ELSE r.user
         hik(i) == IF r.device # None THEN rows[i].hik ELSE r.pub
     IN \E outcome \in Outcomes, i \in usable :
          /\ rows' = IF Applied(outcome)
                       THEN [rows EXCEPT ![i] = [user |-> user(i), hik |-> hik(i),
                                                 active |-> TRUE]]
                       ELSE rows
          /\ IF outcome = "ok"
               THEN Become(d, t, [r EXCEPT !.pc = "load", !.pub = None, !.device = i])
               ELSE Finish(d, t)
  /\ UNCHANGED <<daemon, cred, keyBroker, made, mishap>>

(* Any error of load_pnk, not only a missing entry, leads to the broker.   *)
LoadPnk(d, t) ==
  /\ At(d, t, "load")
  /\ \/ /\ cred[d] # None
        /\ Become(d, t, [task[d][t] EXCEPT !.pc = "push", !.key = cred[d]])
        /\ UNCHANGED mishap
     \/ /\ cred[d] = None \/ CredFaults
        /\ Goto(d, t, "fetch")
        /\ Note(d, IF cred[d] = None THEN {} ELSE {"unread"})
  /\ UNCHANGED <<daemon, cred, rows, keyBroker, made>>

(* fetch_wrapped_pnks_for_device, for a login and for SyncKeys.  A login   *)
(* generates a key when the answer is empty, and also when none came.      *)
FetchWrappedPnks(d, t) ==
  /\ At(d, t, "fetch")
  /\ LET r == task[d][t]
         nothing == IF r.op = "login" THEN Goto(d, t, "generate") ELSE Finish(d, t)
     IN \E outcome \in ReadOutcomes :
          \/ outcome = "failed" /\ nothing
          \/ outcome = "ok" /\ Latest(r.device) = {} /\ nothing
          \/ /\ outcome = "ok"
             /\ \E row \in Latest(r.device) :
                  Become(d, t, [r EXCEPT !.pc = "unwrap", !.row = row])
  /\ UNCHANGED <<daemon, cred, rows, keyBroker, made, mishap>>

(* Unwrap under the identity read now.  A login stores the key in the      *)
(* Credential Manager at once; SyncKeys only keeps the row's version.      *)
UnwrapPnk(d, t) ==
  /\ At(d, t, "unwrap")
  /\ LET r == task[d][t]
         opened == [r EXCEPT !.pc = "push", !.key = r.row.wrapped.key,
                             !.version = IF r.op = "sync" THEN r.row.version ELSE @,
                             !.row = None]
     IN IF OpensWithOwn(r.row.wrapped, daemon[d].hik)
          THEN /\ Become(d, t, opened)
               /\ IF r.op = "login" THEN StorePnk(d, opened.key) ELSE UNCHANGED <<cred, mishap>>
          ELSE Finish(d, t) /\ UNCHANGED <<cred, mishap>>
  /\ UNCHANGED <<daemon, rows, keyBroker, made>>

(* Mutant: keeps the new key in memory only.                               *)
GenerateUnstored(d, t) ==
  /\ At(d, t, "generate")
  /\ made < MaxKeys
  /\ Become(d, t, [task[d][t] EXCEPT !.pc = "list", !.key = FreshKey(task[d][t].user),
                                     !.version = 1, !.hik = daemon[d].hik])
  /\ made' = made + 1
  /\ UNCHANGED <<daemon, cred, rows, keyBroker, mishap>>

(* new_random, store_pnk, then the secret the key will be wrapped under.   *)
GeneratePnk(d, t) ==
  /\ At(d, t, "generate")
  /\ made < MaxKeys
  /\ LET k == FreshKey(task[d][t].user)
     IN /\ StorePnk(d, k)
        /\ Become(d, t, [task[d][t] EXCEPT !.pc = "list", !.key = k, !.version = 1,
                                           !.hik = daemon[d].hik])
  /\ made' = made + 1
  /\ UNCHANGED <<daemon, rows, keyBroker>>

(* A login adopts its key whatever became of the pushes, and does not look *)
(* whether the user is still logged in.                                    *)
AdoptLogin(d, t) ==
  /\ NoReader(d)
  /\ At(d, t, "push") /\ task[d][t].op = "login" /\ task[d][t].todo = {}
  /\ daemon' = [daemon EXCEPT ![d].pnk = task[d][t].key,
                              ![d].device = task[d][t].device]
  /\ Finish(d, t)
  /\ UNCHANGED <<cred, rows, keyBroker, made, mishap>>

-----------------------------------------------------------------------------
(* Distribution of a key to the devices of a user: login, rotation and     *)
(* re-wrapping after a HIK rotation.                                       *)

GetDevices(d, t) ==
  /\ At(d, t, "list")
  /\ LET r == task[d][t]
         targets == DevicesOf(r.user)
     IN \E outcome \in ReadOutcomes :
          \/ /\ outcome = "ok"
             /\ Become(d, t, [r EXCEPT !.pc = "push", !.targets = targets, !.todo = targets])
          \/ /\ outcome = "failed"
             /\ IF r.op = "login" THEN Goto(d, t, "push") ELSE Finish(d, t)
  /\ UNCHANGED <<daemon, cred, rows, keyBroker, made, mishap>>

(* push_wrapped_pnk for one device of the list.  A HIK that does not parse *)
(* or wrap is skipped in the code and counts as no error; rows only hold   *)
(* HIKs that a daemon has exported, which do both.                         *)
PushWrappedPnk(d, t) ==
  /\ At(d, t, "push")
  /\ LET r == task[d][t]
     IN \E x \in r.todo, outcome \in Outcomes :
          /\ keyBroker' =
               IF Applied(outcome)
                 THEN keyBroker \cup {[target |-> x.id, version |-> r.version,
                                       wrapped |-> Wrap(r.key, x.hik, r.hik)]}
                 ELSE keyBroker
          /\ Become(d, t, [r EXCEPT !.todo = @ \ {x},
                                    !.failed = @ \/ outcome # "ok"])
  /\ UNCHANGED <<daemon, cred, rows, made, mishap>>

-----------------------------------------------------------------------------
(* RotatePnk, from the tray or from the daily timer.                       *)

(* Mutant: does not check that somebody is logged in.                      *)
RotatePnkForNobody(d, t) ==
  /\ At(d, t, "idle")
  /\ made < MaxKeys /\ daemon[d].version < MaxVersion
  /\ made' = made + 1
  /\ Become(d, t, [Idle EXCEPT !.pc = "list", !.op = "rotate", !.user = daemon[d].user,
                               !.key = FreshKey(daemon[d].user),
                               !.version = daemon[d].version + 1,
                               !.hik = daemon[d].hik])
  /\ UNCHANGED <<daemon, cred, rows, keyBroker, mishap>>

RotatePnk(d, t) ==
  /\ At(d, t, "idle")
  /\ daemon[d].user # None
  /\ made < MaxKeys /\ daemon[d].version < MaxVersion
  /\ made' = made + 1
  /\ Become(d, t, [Idle EXCEPT !.pc = "list", !.op = "rotate", !.user = daemon[d].user,
                               !.key = FreshKey(daemon[d].user),
                               !.version = daemon[d].version + 1,
                               !.hik = daemon[d].hik])
  /\ UNCHANGED <<daemon, cred, rows, keyBroker, mishap>>

(* With a failed push the request reports an error and the old key stays.  *)
AbandonRotation(d, t) ==
  /\ At(d, t, "push") /\ task[d][t].op = "rotate" /\ task[d][t].todo = {}
  /\ task[d][t].failed
  /\ Finish(d, t)
  /\ UNCHANGED <<daemon, cred, rows, keyBroker, made, mishap>>

(* Mutant: takes the new key over although a push failed.                  *)
AdoptRotationAnyway(d, t) ==
  /\ NoReader(d)
  /\ At(d, t, "push") /\ task[d][t].op = "rotate" /\ task[d][t].todo = {}
  /\ daemon' = [daemon EXCEPT ![d].pnk = task[d][t].key,
                              ![d].version = task[d][t].version]
  /\ Finish(d, t)
  /\ UNCHANGED <<cred, rows, keyBroker, made, mishap>>

AdoptRotation(d, t) ==
  /\ NoReader(d)
  /\ At(d, t, "push") /\ task[d][t].op = "rotate" /\ task[d][t].todo = {}
  /\ ~task[d][t].failed
  /\ daemon' = [daemon EXCEPT ![d].pnk = task[d][t].key,
                              ![d].version = task[d][t].version]
  /\ Finish(d, t)
  /\ UNCHANGED <<cred, rows, keyBroker, made, mishap>>

-----------------------------------------------------------------------------
(* SyncKeys.                                                               *)

SyncKeys(d, t) ==
  /\ At(d, t, "idle")
  /\ daemon[d].device # None
  /\ Become(d, t, [Idle EXCEPT !.pc = "fetch", !.op = "sync",
                               !.device = daemon[d].device])
  /\ UNCHANGED <<daemon, cred, rows, keyBroker, made, mishap>>

AdoptSync(d, t) ==
  /\ NoReader(d)
  /\ At(d, t, "push") /\ task[d][t].op = "sync"
  /\ daemon' = [daemon EXCEPT ![d].pnk = task[d][t].key,
                              ![d].version = task[d][t].version]
  /\ Finish(d, t)
  /\ UNCHANGED <<cred, rows, keyBroker, made, mishap>>

-----------------------------------------------------------------------------
(* RotateHik: a new identity, the row of this device, then the PNK again   *)
(* for every device of the user.                                           *)

RotateHik(d, t) ==
  /\ At(d, t, "idle")
  /\ daemon[d].user # None
  /\ daemon[d].hik.gen < MaxHik
  /\ Become(d, t, [Idle EXCEPT !.pc = "rotate", !.op = "rewrap", !.user = daemon[d].user])
  /\ Note(d, IF \E s \in Tasks : Registering(d, s) \/ LoggingIn(d, s) THEN {"overlap"} ELSE {})
  /\ UNCHANGED <<daemon, cred, rows, keyBroker, made>>

(* Mutant: keeps the secret it had before the rotation for the wrapping.   *)
RotateIdentityOldSecret(d, t) ==
  /\ At(d, t, "rotate") /\ NoReader(d)
  /\ daemon' = [daemon EXCEPT ![d].hik.gen = @ + 1]
  /\ Become(d, t, [task[d][t] EXCEPT !.pc = "export", !.hik = daemon[d].hik])
  /\ UNCHANGED <<cred, rows, keyBroker, made, mishap>>

RotateIdentity(d, t) ==
  /\ At(d, t, "rotate") /\ NoReader(d)
  /\ LET new == [dev |-> d, gen |-> daemon[d].hik.gen + 1]
     IN /\ daemon' = [daemon EXCEPT ![d].hik = new]
        /\ Become(d, t, [task[d][t] EXCEPT !.pc = "export", !.hik = new])
  /\ UNCHANGED <<cred, rows, keyBroker, made, mishap>>

ExportNewHik(d, t) ==
  /\ At(d, t, "export")
  /\ Become(d, t, [task[d][t] EXCEPT !.pc = "device", !.pub = daemon[d].hik])
  /\ UNCHANGED <<daemon, cred, rows, keyBroker, made, mishap>>

(* Mutant: the devices table is never told of the new identity.            *)
ReadDeviceIdOnly(d, t) ==
  /\ At(d, t, "device")
  /\ Become(d, t, [task[d][t] EXCEPT !.device = daemon[d].device, !.pc = "version"])
  /\ UNCHANGED <<daemon, cred, rows, keyBroker, made, mishap>>

ReadDeviceId(d, t) ==
  /\ At(d, t, "device")
  /\ Become(d, t, [task[d][t] EXCEPT !.device = daemon[d].device,
                     !.pc = IF daemon[d].device # None THEN "patch" ELSE "version"])
  /\ UNCHANGED <<daemon, cred, rows, keyBroker, made, mishap>>

UpdateDeviceHik(d, t) ==
  /\ At(d, t, "patch")
  /\ LET r == task[d][t]
     IN \E outcome \in Outcomes :
          /\ rows' = IF Applied(outcome) THEN [rows EXCEPT ![r.device].hik = r.pub] ELSE rows
          /\ IF outcome = "ok" THEN Goto(d, t, "version") ELSE Finish(d, t)
          /\ Note(d, IF outcome = "ok" THEN {} ELSE {"unpatched"})
  /\ UNCHANGED <<daemon, cred, keyBroker, made>>

(* The version and the key are read under two separate locks.              *)
ReadVersion(d, t) ==
  /\ At(d, t, "version")
  /\ Become(d, t, [task[d][t] EXCEPT !.pc = "pnk", !.version = daemon[d].version,
                                     !.pub = None, !.device = None])
  /\ UNCHANGED <<daemon, cred, rows, keyBroker, made, mishap>>

ReadPnk(d, t) ==
  /\ At(d, t, "pnk")
  /\ IF daemon[d].pnk # None
       THEN Become(d, t, [task[d][t] EXCEPT !.pc = "list", !.key = daemon[d].pnk])
       ELSE Finish(d, t)
  /\ UNCHANGED <<daemon, cred, rows, keyBroker, made, mishap>>

RewrapDone(d, t) ==
  /\ At(d, t, "push") /\ task[d][t].op = "rewrap" /\ task[d][t].todo = {}
  /\ Finish(d, t)
  /\ UNCHANGED <<daemon, cred, rows, keyBroker, made, mishap>>

-----------------------------------------------------------------------------
(* Mutant: keeps the device id.                                            *)
LogoutKeepsDevice(d, t) ==
  /\ At(d, t, "idle") /\ NoReader(d)
  /\ daemon' = [daemon EXCEPT ![d].user = None, ![d].pnk = None]
  /\ UNCHANGED <<cred, rows, keyBroker, task, made, mishap>>

(* Logout holds the write lock across its broker call, so no other task    *)
(* sees the state in between; it ends no task that is under way.  The call *)
(* may fail, and a HIK whose base64 has a "+" matches no row, as it is put *)
(* into the URL unencoded.                                                 *)
Logout(d, t) ==
  /\ At(d, t, "idle") /\ NoReader(d)
  /\ \E applied \in BOOLEAN :
       rows' = [i \in RowIds |->
                  IF applied /\ rows[i] # None /\ rows[i].hik = daemon[d].hik
                    THEN [rows[i] EXCEPT !.active = FALSE]
                    ELSE rows[i]]
  /\ daemon' = [daemon EXCEPT ![d].user = None, ![d].pnk = None, ![d].device = None]
  /\ Note(d, IF \E s \in Tasks : LoggingIn(d, s) THEN {"logout"} ELSE {})
  /\ UNCHANGED <<cred, keyBroker, task, made>>

(* sync_networks_once, for the network the user owns and has the key of:   *)
(* from the state read at its start it delivers that key to devices of     *)
(* members, each as active as the list said and not served yet (NetworkSync*)
(* has the separate calls).                                                *)
StartNetSync(d, t) ==
  /\ At(d, t, "idle") /\ MaxNkVersion > 0
  /\ daemon[d].user # None /\ daemon[d].device # None
  /\ Become(d, t, [Idle EXCEPT !.pc = "nk", !.op = "netsync", !.user = daemon[d].user,
                               !.hik = daemon[d].hik])
  /\ UNCHANGED <<daemon, cred, rows, keyBroker, made, mishap>>

PushNetworkKey(d, t) ==
  /\ At(d, t, "nk")
  /\ LET r == task[d][t]
         nk == NetworkKey(r.user)
     IN \E i \in RowIds, v \in 1..MaxNkVersion, outcome \in Outcomes :
          /\ rows[i] # None /\ rows[i].active
          /\ ~\E b \in keyBroker : b.target = i /\ b.version = v /\ b.wrapped.key = nk
          /\ keyBroker' = IF Applied(outcome)
                            THEN keyBroker \cup {[target |-> i, version |-> v,
                                                  wrapped |-> Wrap(nk, rows[i].hik, r.hik)]}
                            ELSE keyBroker
  /\ UNCHANGED <<daemon, cred, rows, task, made, mishap>>

NetSyncDone(d, t) ==
  /\ At(d, t, "nk")
  /\ Finish(d, t)
  /\ UNCHANGED <<daemon, cred, rows, keyBroker, made, mishap>>

(* The process ends at any point and starts again: the identity and the    *)
(* credential persist, memory and the tasks do not.                        *)
Restart(d) ==
  /\ daemon' = [daemon EXCEPT ![d] = Started(@.hik)]
  /\ task' = [task EXCEPT ![d] = [t \in Tasks |-> Idle]]
  /\ UNCHANGED <<cred, rows, keyBroker, made, mishap>>

TaskStep(d, t) ==
  \/ \E u \in Users : Login(d, t, u)
  \/ ExportHik(d, t) \/ RegisterCheck(d, t) \/ RegisterWrite(d, t)
  \/ LoadPnk(d, t) \/ FetchWrappedPnks(d, t) \/ UnwrapPnk(d, t) \/ GeneratePnk(d, t)
  \/ GetDevices(d, t) \/ PushWrappedPnk(d, t) \/ AdoptLogin(d, t)
  \/ RotatePnk(d, t) \/ AbandonRotation(d, t) \/ AdoptRotation(d, t)
  \/ SyncKeys(d, t) \/ AdoptSync(d, t)
  \/ RotateHik(d, t) \/ RotateIdentity(d, t) \/ ExportNewHik(d, t) \/ ReadDeviceId(d, t)
  \/ UpdateDeviceHik(d, t) \/ ReadVersion(d, t) \/ ReadPnk(d, t) \/ RewrapDone(d, t)
  \/ Logout(d, t)
  \/ StartNetSync(d, t) \/ PushNetworkKey(d, t) \/ NetSyncDone(d, t)

Next == \E d \in Devices : (\E t \in Tasks : TaskStep(d, t)) \/ Restart(d)

Spec == Init /\ [][Next]_vars
-----------------------------------------------------------------------------
(* Properties.                                                             *)

AtRest(d) == \A t \in Tasks : At(d, t, "idle")

Delivered(x, key, version) ==
  \E b \in keyBroker : /\ b.target = x.id /\ b.version = version
                       /\ b.wrapped.key = key /\ x.hik \in b.wrapped.shared

(* A rotation reaches every device or changes nothing here: when RotatePnk *)
(* ends by taking over its key, every device the broker listed has a row   *)
(* that wraps that key, under that version, for the HIK it had.            *)
RotationStep ==
  \A d \in Devices, t \in Tasks :
    (/\ task[d][t].op = "rotate" /\ At(d, t, "idle")'
     /\ daemon'[d].pnk = task[d][t].key
     /\ daemon'[d].pnk # daemon[d].pnk)
    => \A x \in task[d][t].targets :
         Delivered(x, task[d][t].key, task[d][t].version)

RotationAllOrNothing == [][RotationStep]_vars

(* A registered daemon can encrypt, and can again after a restart: while   *)
(* it holds a device id it has a PNK in memory, and one in the Credential  *)
(* Manager unless a store_pnk has failed, whatever logins, logouts and     *)
(* failed calls interleave.                                                *)
RegisteredHasKeys ==
  \A d \in Devices : daemon[d].device # None =>
    daemon[d].pnk # None /\ (cred[d] # None \/ "unstored" \in mishap[d])

(* With no broker call failing, one request at a time and one user, the    *)
(* key a daemon at rest encrypts with can be had again, also when the      *)
(* Credential Manager fails: it is the stored credential, or some row      *)
(* delivered to its device opens to it under its current HIK.              *)
KeyRecoverable ==
  \A d \in Devices :
    (AtRest(d) /\ daemon[d].device # None) =>
      \/ cred[d] = daemon[d].pnk
      \/ \E b \in keyBroker : /\ b.target = daemon[d].device
                              /\ OpensWithOwn(b.wrapped, daemon[d].hik)
                              /\ b.wrapped.key = daemon[d].pnk

(* The devices table names the identity and the presence of a registered   *)
(* daemon that is not in the middle of a RotateHik, whatever requests run  *)
(* at the same time, crash or fail: unless a PATCH of RotateHik failed, a  *)
(* logout came in the middle of a login, or a registration and a RotateHik *)
(* met.                                                                    *)
RowFollowsIdentity ==
  \A d \in Devices :
    (/\ daemon[d].device # None
     /\ mishap[d] \cap {"overlap", "logout", "unpatched"} = {}
     /\ \A t \in Tasks : ~Registering(d, t) \/ LoggingIn(d, t)) =>
      /\ rows[daemon[d].device].hik = daemon[d].hik
      /\ rows[daemon[d].device].active

(* With no broker call failing, one request at a time, one user and one    *)
(* device, SyncKeys never takes a daemon back to an older version than one *)
(* it has adopted, as long as every access to the stored PNK succeeds;     *)
(* only a restart forgets the version.                                     *)
VersionNeverGoesBack ==
  [][\A d \in Devices :
       (/\ daemon'[d].version < daemon[d].version
        /\ mishap[d] \cap {"unread", "unstored"} = {}) =>
         daemon'[d] = Started(daemon[d].hik)]_vars

(* Registration is idempotent: a retry after a crash, a logout or a lost   *)
(* answer finds the row of the first try, so that no two rows carry the    *)
(* same HIK, unless two registrations, or one and a RotateHik, met on that *)
(* machine.                                                                *)
OneRowPerHik ==
  \A i, j \in RowIds :
    (i # j /\ rows[i] # None /\ rows[j] # None /\ rows[i].hik = rows[j].hik)
      => "overlap" \in mishap[rows[i].hik.dev]

-----------------------------------------------------------------------------
(* What a comment or message of the repository says and the code does not  *)
(* do; each is refuted by a run.                                           *)

(* supabase_phase4_networks.sql:72 says of network_id "NULL = the user's   *)
(* personal PNK": the key of a network is never the PNK of a daemon.       *)
PnkIsPersonal ==
  \A d \in Devices : daemon[d].pnk # None => ~daemon[d].pnk.network

(* supabase_phase4_networks.sql:5 says keys are "wrapped per-device-HIK    *)
(* and delivered via key_broker": a row for a registered daemon, wrapped   *)
(* for the identity it has, opens there.                                   *)
DeliveredKeyOpens ==
  \A d \in Devices, b \in keyBroker :
    (daemon[d].device = b.target /\ daemon[d].hik \in b.wrapped.shared)
      => OpensWithOwn(b.wrapped, daemon[d].hik)
=============================================================================
