---------------------------- MODULE NetworkSync -----------------------------
(***************************************************************************)
(* Network keys (NKs): sync_networks_once, run by a 10 s loop and for      *)
(* every SyncNetworks request, so that several runs of it can be under way *)
(* on one daemon.  A run takes a snapshot of the session, lists the user's *)
(* networks and, for each of them, gets or makes the NK and, if the user   *)
(* owns the network, delivers it to the devices of the members.            *)
(*                                                                         *)
(* A step is one broker call or one credential access with what follows it *)
(* without an await.  Login, RotateHik and Logout, which PnkSession has in *)
(* detail, are single steps here; a machine has one row of the devices     *)
(* table, and the machine itself stands for that row's id.                 *)
(***************************************************************************)
EXTENDS Naturals, KeyWrap

CONSTANTS
  Machines,    \* machines, each running one daemon
  Tasks,       \* runs of sync_networks_once a daemon can have under way
  Users,       \* user ids
  Networks,    \* network ids
  Owner,       \* Owner[n]: owner_user_id of network n
  Home,        \* Home[m]: the users who log in on machine m
  Syncing,     \* bound: the machines whose runs are followed
  None,        \* Rust's Option::None
  MaxFaults,   \* bound: calls that fail or are never answered
  MaxKeys,     \* bound: NKs ever stored by the owners' daemons
  MaxHik,      \* bound: MaxHik[m] HIK rotations of machine m
  MaxVersion   \* bound: key_version of a network

ASSUME OwnerAssumption == Owner \in [Networks -> Users]
ASSUME HomeAssumption == Home \in [Machines -> SUBSET Users]
ASSUME BoundsAssumption ==
  /\ Syncing \subseteq Machines
  /\ {MaxFaults, MaxKeys, MaxVersion} \subseteq Nat
  /\ MaxHik \in [Machines -> Nat]

(* An NK is a serial number; net and maker are ghosts: the network it was  *)
(* generated for, and the user whose daemon did it.                        *)
Key == [n : Nat, net : Networks, maker : Users]

Hik       == [dev : Machines, gen : Nat]
DeviceRow == [user : Users, hik : Hik, active : BOOLEAN]
Wrapped   == [key : Key, shared : SUBSET Hik]
NetKeyRow == [net : Networks, target : Machines, version : Nat, wrapped : Wrapped]
NetworkRow == [id : Networks, version : Nat]
Target    == [id : Machines, hik : Hik]

ASSUME NoneAssumption == None \notin Key /\ None \notin Users /\ None \notin DeviceRow

VARIABLES
  user,       \* user[m]: logged_in_user of the daemon
  device,     \* device[m]: is its device_id set?
  hik,        \* hik[m]: its identity
  nk,         \* nk[m][n]: the "nk:<network>" entry of m's Credential Manager
  task,       \* task[m][t]: program counter and locals of a run
  rows,       \* rows[m]: the row of the devices table for m
  members,    \* members[n]: network_members
  version,    \* version[n]: key_version of networks
  keyBroker,  \* the rows of key_broker that have a network_id
  joined,     \* ghost, joined[n]: everybody who has ever been a member of n
  made,       \* how many NKs have been generated and stored
  faults,     \* how many calls have failed or hung
  disturbed   \* ghost: machines where two runs have met, or a stored NK was
              \* not read

session == <<user, device, hik, rows>>
site    == <<members, version, joined>>
vars    == <<session, nk, task, site, keyBroker, made, faults, disturbed>>

PCs == {"idle", "memberships", "networks", "next", "fetch", "store", "generate",
        "load", "members", "devices", "deliver", "push", "hung"}
CallPCs == {"memberships", "networks", "fetch", "members", "devices", "deliver", "push"}

Task == [pc : PCs, user : Users \cup {None}, hik : Hik \cup {None},
         ids : SUBSET Networks, nets : SUBSET NetworkRow,
         net : NetworkRow \cup {None}, key : Key \cup {None},
         members : SUBSET Users, todo : SUBSET Target, target : Target \cup {None}]

Idle == [pc |-> "idle", user |-> None, hik |-> None, ids |-> {}, nets |-> {},
         net |-> None, key |-> None, members |-> {}, todo |-> {}, target |-> None]

TypeOK ==
  /\ user \in [Machines -> Users \cup {None}]
  /\ device \in [Machines -> BOOLEAN]
  /\ hik \in [Machines -> Hik]
  /\ nk \in [Machines -> [Networks -> Key \cup {None}]]
  /\ task \in [Machines -> [Tasks -> Task]]
  /\ rows \in [Machines -> DeviceRow \cup {None}]
  /\ members \in [Networks -> SUBSET Users]
  /\ version \in [Networks -> Nat]
  /\ keyBroker \subseteq NetKeyRow
  /\ joined \in [Networks -> SUBSET Users]
  /\ made \in Nat /\ faults \in Nat
  /\ disturbed \subseteq Machines

Init ==
  /\ user = [m \in Machines |-> None]
  /\ device = [m \in Machines |-> FALSE]
  /\ hik = [m \in Machines |-> [dev |-> m, gen |-> 0]]
  /\ nk = [m \in Machines |-> [n \in Networks |-> None]]
  /\ task = [m \in Machines |-> [t \in Tasks |-> Idle]]
  /\ rows = [m \in Machines |-> None]
  /\ members = [n \in Networks |-> {Owner[n]}]
  /\ version = [n \in Networks |-> 1]
  /\ keyBroker = {}
  /\ joined = [n \in Networks |-> {Owner[n]}]
  /\ made = 0
  /\ faults = 0
  /\ disturbed = {}

Answered == UNCHANGED faults
Faulty == faults < MaxFaults /\ faults' = faults + 1

At(m, t, pc) == task[m][t].pc = pc
Become(m, t, record) == task' = [task EXCEPT ![m][t] = record]
Goto(m, t, pc) == Become(m, t, [task[m][t] EXCEPT !.pc = pc])

(* A call that is never answered ends its run without leaving it.          *)
Running(m, t) == ~At(m, t, "idle") /\ ~At(m, t, "hung")

(* `continue`: on to the next network of the list.                         *)
NextNetwork(m, t) ==
  LET r == task[m][t]
  IN Become(m, t, [Idle EXCEPT !.pc = "next", !.user = r.user, !.hik = r.hik,
                               !.nets = r.nets])

-----------------------------------------------------------------------------
(* One run of sync_networks_once.                                          *)

SyncNetworks(m, t) ==
  /\ At(m, t, "idle")
  /\ m \in Syncing /\ user[m] # None /\ device[m]
  /\ Become(m, t, [Idle EXCEPT !.pc = "memberships", !.user = user[m], !.hik = hik[m]])
  /\ disturbed' = IF \E s \in Tasks : Running(m, s) THEN disturbed \cup {m} ELSE disturbed
  /\ UNCHANGED <<session, nk, site, keyBroker, made, faults>>

(* list_user_networks, first call: the ids of the user's networks.         *)
ListMemberships(m, t) ==
  /\ At(m, t, "memberships")
  /\ LET mine == {n \in Networks : task[m][t].user \in members[n]}
     IN \/ Answered /\ mine = {} /\ Become(m, t, Idle)
        \/ /\ Answered /\ mine # {}
           /\ Become(m, t, [task[m][t] EXCEPT !.pc = "networks", !.ids = mine])
        \/ Faulty /\ Become(m, t, Idle)
  /\ UNCHANGED <<session, nk, site, keyBroker, made, disturbed>>

(* Second call: their rows, as they are now.                               *)
ListNetworks(m, t) ==
  /\ At(m, t, "networks")
  /\ \/ /\ Answered
        /\ Become(m, t, [task[m][t] EXCEPT !.pc = "next", !.ids = {},
                           !.nets = {[id |-> n, version |-> version[n]] : n \in task[m][t].ids}])
     \/ Faulty /\ Become(m, t, Idle)
  /\ UNCHANGED <<session, nk, site, keyBroker, made, disturbed>>

(* Mutant: does not look whether an NK is stored.                          *)
CheckNkAlwaysFetch(m, t) ==
  /\ At(m, t, "next")
  /\ \E net \in task[m][t].nets :
       Become(m, t, [task[m][t] EXCEPT !.net = net, !.nets = @ \ {net}, !.pc = "fetch"])
  /\ UNCHANGED <<session, nk, site, keyBroker, made, faults, disturbed>>

(* The loop takes the next network and looks for its NK.  A read that      *)
(* fails counts as none.                                                   *)
CheckNk(m, t) ==
  /\ At(m, t, "next")
  /\ \E net \in task[m][t].nets :
       LET stored == nk[m][net.id] # None
           take(pc) == Become(m, t, [task[m][t] EXCEPT !.net = net, !.nets = @ \ {net},
                                                       !.pc = pc])
       IN \/ /\ Answered /\ UNCHANGED disturbed
             /\ take(IF stored THEN "load" ELSE "fetch")
          \/ Faulty /\ stored /\ disturbed' = disturbed \cup {m} /\ take("fetch")
  /\ UNCHANGED <<session, nk, site, keyBroker, made>>

EndSync(m, t) ==
  /\ At(m, t, "next") /\ task[m][t].nets = {}
  /\ Become(m, t, Idle)
  /\ UNCHANGED <<session, nk, site, keyBroker, made, faults, disturbed>>

(* fetch_wrapped_network_keys orders by version only: its first row is any *)
(* row of the highest version.                                             *)
LatestNk(n, m) ==
  LET sent == {r \in keyBroker : r.net = n /\ r.target = m}
  IN {r \in sent : \A q \in sent : q.version <= r.version}

(* A call that fails, an empty answer and a key that does not open are all *)
(* "no delivered NK".                                                      *)
FetchWrappedNk(m, t) ==
  /\ At(m, t, "fetch")
  /\ LET r == task[m][t]
         latest == LatestNk(r.net.id, m)
     IN \/ Answered /\ latest = {} /\ Goto(m, t, "generate")
        \/ /\ Answered
           /\ \E q \in latest :
                IF OpensWithOwn(q.wrapped, r.hik)
                  THEN Become(m, t, [r EXCEPT !.pc = "store", !.key = q.wrapped.key])
                  ELSE Goto(m, t, "generate")
        \/ Faulty /\ Goto(m, t, "generate")
  /\ UNCHANGED <<session, nk, site, keyBroker, made, disturbed>>

(* store_nk deletes the entry before it writes: a failure leaves the old   *)
(* one or none.                                                            *)
Unstored(m, n) == {nk, [nk EXCEPT ![m][n] = None]}

StoreNk(m, t) ==
  /\ At(m, t, "store")
  /\ LET r == task[m][t]
     IN \/ /\ Answered
           /\ nk' = [nk EXCEPT ![m][r.net.id] = r.key]
           /\ Become(m, t, [r EXCEPT !.pc = "load", !.key = None])
        \/ /\ Faulty
           /\ nk' \in Unstored(m, r.net.id)
           /\ Become(m, t, [r EXCEPT !.pc = "generate", !.key = None])
  /\ UNCHANGED <<session, site, keyBroker, made, disturbed>>

(* Mutant: every member that got no key makes one.                         *)
GenerateNkAnyway(m, t) ==
  /\ At(m, t, "generate") /\ made < MaxKeys
  /\ LET n == task[m][t].net.id
     IN /\ nk' = [nk EXCEPT ![m][n] = [n |-> made + 1, net |-> n, maker |-> task[m][t].user]]
        /\ made' = made + 1 /\ Answered /\ Goto(m, t, "load")
  /\ UNCHANGED <<session, site, keyBroker, disturbed>>

(* The owner makes the NK.  One that could not be stored is forgotten.     *)
GenerateNk(m, t) ==
  /\ At(m, t, "generate") /\ made < MaxKeys
  /\ LET r == task[m][t]
         n == r.net.id
     IN /\ Owner[n] = r.user
        /\ \/ /\ Answered
              /\ nk' = [nk EXCEPT ![m][n] = [n |-> made + 1, net |-> n, maker |-> r.user]]
              /\ made' = made + 1
              /\ Goto(m, t, "load")
           \/ /\ Faulty
              /\ nk' \in Unstored(m, n)
              /\ NextNetwork(m, t)
              /\ UNCHANGED made
  /\ UNCHANGED <<session, site, keyBroker, disturbed>>

NotOwner(m, t) ==
  /\ task[m][t].pc \in {"generate", "load"}
  /\ Owner[task[m][t].net.id] # task[m][t].user
  /\ NextNetwork(m, t)
  /\ UNCHANGED <<session, nk, site, keyBroker, made, faults, disturbed>>

(* What is delivered is the NK stored now, whoever stored it.  Without one *)
(* that can be read the network is left to the next run.                   *)
LoadNk(m, t) ==
  /\ At(m, t, "load")
  /\ LET r == task[m][t]
         stored == nk[m][r.net.id]
     IN /\ Owner[r.net.id] = r.user
        /\ \/ /\ Answered /\ stored # None
              /\ Become(m, t, [r EXCEPT !.pc = "members", !.key = stored])
           \/ Answered /\ stored = None /\ NextNetwork(m, t)
           \/ Faulty /\ stored # None /\ NextNetwork(m, t)
  /\ UNCHANGED <<session, nk, site, keyBroker, made, disturbed>>

ListMembers(m, t) ==
  /\ At(m, t, "members")
  /\ LET r == task[m][t]
     IN \/ /\ Answered
           /\ Become(m, t, [r EXCEPT !.pc = "devices", !.members = members[r.net.id]])
        \/ Faulty /\ NextNetwork(m, t)
  /\ UNCHANGED <<session, nk, site, keyBroker, made, disturbed>>

(* Mutant: the active devices of anybody.                                  *)
DevicesOfAnybody(users) ==
  {[id |-> x, hik |-> rows[x].hik] : x \in {y \in Machines : rows[y] # None /\ rows[y].active}}

(* get_devices_for_users: the active devices of these users.               *)
DevicesForUsers(users) ==
  {[id |-> x, hik |-> rows[x].hik] :
     x \in {y \in Machines : rows[y] # None /\ rows[y].active /\ rows[y].user \in users}}

GetDevices(m, t) ==
  /\ At(m, t, "devices")
  /\ LET r == task[m][t]
     IN \/ /\ Answered
           /\ Become(m, t, [r EXCEPT !.pc = "deliver", !.members = {},
                                     !.todo = DevicesForUsers(r.members)])
        \/ Faulty /\ NextNetwork(m, t)
  /\ UNCHANGED <<session, nk, site, keyBroker, made, disturbed>>

Delivered(n, x, v) == \E q \in keyBroker : q.net = n /\ q.target = x /\ q.version = v

(* Mutant: a key of any version will do.                                   *)
HasWrappedAnyVersion(m, t) ==
  /\ At(m, t, "deliver")
  /\ LET r == task[m][t]
     IN \E x \in r.todo :
          LET got == \E q \in keyBroker : q.net = r.net.id /\ q.target = x.id
              skip == Become(m, t, [r EXCEPT !.todo = @ \ {x}])
          IN \/ Answered /\ got /\ skip
             \/ /\ Answered /\ ~got
                /\ Become(m, t, [r EXCEPT !.pc = "push", !.todo = @ \ {x}, !.target = x])
             \/ Faulty /\ skip
  /\ UNCHANGED <<session, nk, site, keyBroker, made, disturbed>>

(* has_wrapped_network_key: a device that has the key of this version, or  *)
(* of which that is not known, is skipped.                                 *)
HasWrappedNk(m, t) ==
  /\ At(m, t, "deliver")
  /\ LET r == task[m][t]
     IN \E x \in r.todo :
          LET skip == Become(m, t, [r EXCEPT !.todo = @ \ {x}])
          IN \/ Answered /\ Delivered(r.net.id, x.id, r.net.version) /\ skip
             \/ /\ Answered /\ ~Delivered(r.net.id, x.id, r.net.version)
                /\ Become(m, t, [r EXCEPT !.pc = "push", !.todo = @ \ {x}, !.target = x])
             \/ Faulty /\ skip
  /\ UNCHANGED <<session, nk, site, keyBroker, made, disturbed>>

RowOf(r) == [net |-> r.net.id, target |-> r.target.id, version |-> r.net.version,
             wrapped |-> Wrap(r.key, r.target.hik, r.hik)]

(* push_wrapped_network_key: done, refused, or done with its answer lost.  *)
(* A device that was not reached is left to the next run.                  *)
PushWrappedNk(m, t) ==
  /\ At(m, t, "push")
  /\ LET r == task[m][t]
     IN /\ \/ Answered /\ keyBroker' = keyBroker \cup {RowOf(r)}
           \/ Faulty /\ keyBroker' \in {keyBroker, keyBroker \cup {RowOf(r)}}
        /\ Become(m, t, [r EXCEPT !.pc = "deliver", !.target = None])
  /\ UNCHANGED <<session, nk, site, made, disturbed>>

Distributed(m, t) ==
  /\ At(m, t, "deliver") /\ task[m][t].todo = {}
  /\ NextNetwork(m, t)
  /\ UNCHANGED <<session, nk, site, keyBroker, made, faults, disturbed>>

(* The client sets no timeout (broker.rs:54): a call can wait for ever, a  *)
(* push after it has taken effect.                                         *)
Hang(m, t) ==
  /\ task[m][t].pc \in CallPCs
  /\ Faulty
  /\ keyBroker' \in IF At(m, t, "push") THEN {keyBroker, keyBroker \cup {RowOf(task[m][t])}}
                                         ELSE {keyBroker}
  /\ Become(m, t, [Idle EXCEPT !.pc = "hung"])
  /\ UNCHANGED <<session, nk, site, made, disturbed>>

-----------------------------------------------------------------------------
(* The rest of the daemon, as far as a sync depends on it.                 *)

Login(m, u) ==
  /\ u \in Home[m]
  /\ user' = [user EXCEPT ![m] = u]
  /\ UNCHANGED <<device, hik, rows, nk, task, site, keyBroker, made, faults, disturbed>>

(* Mutant: registers without looking whether anybody is logged in.         *)
RegisterForNobody(m) ==
  /\ rows' = [rows EXCEPT ![m] = [user |-> IF rows[m] = None THEN user[m] ELSE rows[m].user,
                                  hik |-> hik[m], active |-> TRUE]]
  /\ device' = [device EXCEPT ![m] = TRUE]
  /\ UNCHANGED <<user, hik, nk, task, site, keyBroker, made, faults, disturbed>>

(* register_device: a row with this identity is reactivated and keeps its  *)
(* user, otherwise one is inserted.                                        *)
RegisterDevice(m) ==
  /\ user[m] # None
  /\ rows' = [rows EXCEPT ![m] = [user |-> IF rows[m] = None THEN user[m] ELSE rows[m].user,
                                  hik |-> hik[m], active |-> TRUE]]
  /\ device' = [device EXCEPT ![m] = TRUE]
  /\ UNCHANGED <<user, hik, nk, task, site, keyBroker, made, faults, disturbed>>

RotateHik(m) ==
  /\ user[m] # None /\ device[m] /\ hik[m].gen < MaxHik[m]
  /\ hik' = [hik EXCEPT ![m].gen = @ + 1]
  /\ rows' = [rows EXCEPT ![m].hik = hik'[m]]
  /\ UNCHANGED <<user, device, nk, task, site, keyBroker, made, faults, disturbed>>

(* set_device_status may fail; the session ends all the same.              *)
Logout(m) ==
  /\ \/ Answered /\ rows' = IF rows[m] # None THEN [rows EXCEPT ![m].active = FALSE] ELSE rows
     \/ Faulty /\ UNCHANGED rows
  /\ user' = [user EXCEPT ![m] = None]
  /\ device' = [device EXCEPT ![m] = FALSE]
  /\ UNCHANGED <<hik, nk, task, site, keyBroker, made, disturbed>>

Restart(m) ==
  /\ user' = [user EXCEPT ![m] = None]
  /\ device' = [device EXCEPT ![m] = FALSE]
  /\ task' = [task EXCEPT ![m] = [t \in Tasks |-> Idle]]
  /\ UNCHANGED <<hik, rows, nk, site, keyBroker, made, faults, disturbed>>

-----------------------------------------------------------------------------
(* The web site (not in the repository): invitations accepted, members     *)
(* removed, key_version raised.                                            *)

AddMember(n, u) ==
  /\ u \notin members[n]
  /\ members' = [members EXCEPT ![n] = @ \cup {u}]
  /\ joined' = [joined EXCEPT ![n] = @ \cup {u}]
  /\ UNCHANGED <<session, nk, task, version, keyBroker, made, faults, disturbed>>

RemoveMember(n, u) ==
  /\ u \in members[n] \ {Owner[n]}
  /\ members' = [members EXCEPT ![n] = @ \ {u}]
  /\ UNCHANGED <<session, nk, task, version, joined, keyBroker, made, faults, disturbed>>

RaiseVersion(n) ==
  /\ version[n] < MaxVersion
  /\ version' = [version EXCEPT ![n] = @ + 1]
  /\ UNCHANGED <<session, nk, task, members, joined, keyBroker, made, faults, disturbed>>

Proceed(m, t) ==
  \/ SyncNetworks(m, t) \/ ListMemberships(m, t) \/ ListNetworks(m, t)
  \/ CheckNk(m, t) \/ EndSync(m, t) \/ FetchWrappedNk(m, t) \/ StoreNk(m, t)
  \/ GenerateNk(m, t) \/ NotOwner(m, t) \/ LoadNk(m, t) \/ ListMembers(m, t)
  \/ GetDevices(m, t) \/ HasWrappedNk(m, t) \/ PushWrappedNk(m, t) \/ Distributed(m, t)

Session(m) ==
  (\E u \in Users : Login(m, u)) \/ RegisterDevice(m) \/ RotateHik(m) \/ Logout(m) \/ Restart(m)

Site(n) == (\E u \in Users : AddMember(n, u) \/ RemoveMember(n, u)) \/ RaiseVersion(n)

Next ==
  \/ \E m \in Machines : Session(m) \/ \E t \in Tasks : Proceed(m, t) \/ Hang(m, t)
  \/ \E n \in Networks : Site(n)

Spec == Init /\ [][Next]_vars

(* The 10 s loop runs again for ever, and a call that does not hang is     *)
(* answered or fails; MaxFaults of them fail or hang.  Nobody has to log   *)
(* in, and the site does nothing on its own.                               *)
FairSpec == Spec /\ \A m \in Machines, t \in Tasks : WF_vars(Proceed(m, t))

-----------------------------------------------------------------------------
(* The keys of network n that exist anywhere: stored, or wrapped.          *)
Held(n) == ({nk[m][n] : m \in Machines} \ {None})
             \cup {q.wrapped.key : q \in {r \in keyBroker : r.net = n}}

(* A daemon stores and delivers under a network only a key that was made   *)
(* for this network while its owner was logged in: a change of user in the *)
(* middle of a run and two runs at once do not mix up keys (main.rs:462,   *)
(* broker.rs:474-493).                                                     *)
KeysFromOwner == \A n \in Networks : \A k \in Held(n) : k.net = n /\ k.maker = Owner[n]

(* No key is ever wrapped for a device whose user never was a member of    *)
(* the network, whatever lists a run still holds (main.rs:481-487).        *)
OnlyMembersGetKeys ==
  \A q \in keyBroker : rows[q.target] # None /\ rows[q.target].user \in joined[q.net]

(* The machines on which u logs in.                                        *)
UsedBy(u) == {m \in Machines : u \in Home[m]}

(* Whoever opens the copies of one version gets one key, and the copies of *)
(* the current version hold the key the owner's daemon has stored: crashes,*)
(* hung and failing calls and lost answers do not make it forget or        *)
(* replace a key that somebody has been given.  For an owner with one      *)
(* machine on which no two runs have met and no stored NK failed to be     *)
(* read (main.rs:431-468).                                                 *)
OneKeyUnlessDisturbed ==
  \A n \in Networks, m \in Machines \ disturbed :
    UsedBy(Owner[n]) = {m} =>
      LET copies == {q \in keyBroker : q.net = n}
      IN /\ \A q, r \in copies : q.version = r.version => q.wrapped.key = r.wrapped.key
         /\ \A q \in copies : q.version = version[n] => q.wrapped.key = nk[m][n]

(* A network has one key: the machines and the wrapped copies agree on it  *)
(* (supabase_phase4_networks.sql:3-6).                                     *)
OneKeyPerNetwork == \A n \in Networks : \A k, l \in Held(n) : k = l

(* The owner is logged in and registered on m, where no call hangs, and x  *)
(* is an active device of a member.                                        *)
Serves(m, n, x) ==
  /\ user[m] = Owner[n] /\ device[m]
  /\ \A t \in Tasks : ~At(m, t, "hung")
  /\ rows[x] # None /\ rows[x].active /\ rows[x].user \in members[n]

(* The copies of the current version that x has been sent.                 *)
Copies(n, x) == {q \in keyBroker : q.net = n /\ q.target = x /\ q.version = version[n]}

(* A copy of the current version that x got under an earlier identity      *)
(* stands in the way of a new one: has_wrapped_network_key finds it.       *)
Outdated(n, x) ==
  \E q \in Copies(n, x) : \E h \in q.wrapped.shared : h.dev = x /\ h # rows[x].hik

(* If that stays so, x has a copy of the key in its current version,       *)
(* wrapped for its present identity, although other calls fail and other   *)
(* runs are cut short: what the 10 s loop is there for (main.rs:301-304).  *)
MembersAreServed ==
  \A n \in Networks : \A m \in UsedBy(Owner[n]), x \in Machines :
    <>[](Serves(m, n, x) /\ ~Outdated(n, x))
      => []<>(\E q \in Copies(n, x) : rows[x].hik \in q.wrapped.shared)
=============================================================================
