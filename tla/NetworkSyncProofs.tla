------------------------- MODULE NetworkSyncProofs -------------------------
(***************************************************************************)
(* Proofs about NetworkSync, for any machines, users, networks, number of  *)
(* runs under way at once and bounds.                                      *)
(***************************************************************************)
EXTENDS NetworkSync, TLAPS

(* k was made for network n by a daemon of its owner.                      *)
OwnKey(n, k) == k \in Key /\ k.net = n /\ k.maker = Owner[n]

(* Device x has a row, of somebody who has been a member of n.             *)
Reachable(n, x) == rows[x] # None /\ rows[x].user \in joined[n]

(* What the locals of a run hold at each of its awaits.                    *)
LocalsOK(r) ==
  /\ r.pc \notin {"idle", "hung"} => r.user \in Users /\ r.hik \in Hik
  /\ r.pc \in {"fetch", "store", "generate", "load", "members", "devices", "deliver", "push"}
       => r.net \in NetworkRow
  /\ r.pc \in {"store", "members", "devices", "deliver", "push"} => OwnKey(r.net.id, r.key)

(* The members and devices a run holds are those of the network, whatever  *)
(* has changed since it listed them.                                       *)
ListsOK(r) ==
  /\ r.pc = "devices" => r.members \subseteq joined[r.net.id]
  /\ r.pc \in {"deliver", "push"} => \A x \in r.todo : Reachable(r.net.id, x.id)
  /\ r.pc = "push" => r.target \in Target /\ Reachable(r.net.id, r.target.id)

TaskOK(r) == LocalsOK(r) /\ ListsOK(r)

StoredOK == \A m \in Machines, n \in Networks : nk[m][n] # None => OwnKey(n, nk[m][n])

SentOK == \A q \in keyBroker : OwnKey(q.net, q.wrapped.key) /\ Reachable(q.net, q.target)

(* Everything but the runs.                                                *)
BaseOK ==
  /\ user \in [Machines -> Users \cup {None}]
  /\ device \in [Machines -> BOOLEAN]
  /\ hik \in [Machines -> Hik]
  /\ nk \in [Machines -> [Networks -> Key \cup {None}]]
  /\ rows \in [Machines -> DeviceRow \cup {None}]
  /\ members \in [Networks -> SUBSET Users]
  /\ version \in [Networks -> Nat]
  /\ keyBroker \subseteq NetKeyRow
  /\ joined \in [Networks -> SUBSET Users]
  /\ made \in Nat /\ faults \in Nat
  /\ \A m \in Machines : device[m] => rows[m] # None
  /\ \A n \in Networks : members[n] \subseteq joined[n]
  /\ StoredOK
  /\ SentOK

(* The inductive invariant.                                                *)
Inv ==
  /\ BaseOK
  /\ task \in [Machines -> [Tasks -> Task]]
  /\ \A m \in Machines, t \in Tasks : TaskOK(task[m][t])
-----------------------------------------------------------------------------
(* Frame: what a run knows stays true, because device rows keep their user *)
(* and nobody's past membership is forgotten.                              *)
Grows ==
  /\ \A x \in Machines :
       rows[x] # None => rows'[x] # None /\ rows'[x].user = rows[x].user
  /\ \A n \in Networks : joined[n] \subseteq joined'[n]

LEMMA IdleOK == Idle \in Task /\ TaskOK(Idle)
  BY DEF Idle, Task, PCs, TaskOK, LocalsOK, ListsOK

LEMMA ReachableStays ==
  ASSUME Grows, NEW n \in Networks, NEW x \in Machines, Reachable(n, x)
  PROVE  Reachable(n, x)'
  BY DEF Grows, Reachable

LEMMA Frame ==
  ASSUME Grows, NEW r \in Task, TaskOK(r)
  PROVE  TaskOK(r)'
<1>1. LocalsOK(r)'
  BY DEF TaskOK, LocalsOK, OwnKey
<1>2. ASSUME r.pc = "devices" PROVE r.members \subseteq joined'[r.net.id]
  <2>1. r.net.id \in Networks
    BY <1>2 DEF TaskOK, LocalsOK, NetworkRow
  <2> QED BY <1>2, <2>1 DEF TaskOK, ListsOK, Grows
<1>3. ASSUME r.pc \in {"deliver", "push"}, NEW x \in r.todo
      PROVE  Reachable(r.net.id, x.id)'
  <2>1. r.net.id \in Networks /\ x.id \in Machines
    BY <1>3 DEF TaskOK, LocalsOK, NetworkRow, Task, Target
  <2>2. Reachable(r.net.id, x.id)
    BY <1>3 DEF TaskOK, ListsOK
  <2> QED BY <2>1, <2>2, ReachableStays
<1>4. ASSUME r.pc = "push"
      PROVE  r.target \in Target /\ Reachable(r.net.id, r.target.id)'
  <2>1. r.net.id \in Networks /\ r.target \in Target /\ r.target.id \in Machines
    BY <1>4 DEF TaskOK, LocalsOK, ListsOK, NetworkRow, Target
  <2>2. Reachable(r.net.id, r.target.id)
    BY <1>4 DEF TaskOK, ListsOK
  <2> QED BY <2>1, <2>2, ReachableStays
<1> QED BY <1>1, <1>2, <1>3, <1>4 DEF TaskOK, ListsOK

(* A step that gives one run a sound record preserves the invariant.       *)
LEMMA StepPreserves ==
  ASSUME Inv, NEW m \in Machines, NEW t \in Tasks, NEW r \in Task, Become(m, t, r),
         BaseOK', Grows, TaskOK(r)'
  PROVE  Inv'
<1>1. task' \in [Machines -> [Tasks -> Task]]
  BY DEF Inv, Become
<1>2. ASSUME NEW e \in Machines, NEW s \in Tasks PROVE TaskOK(task[e][s])'
  <2>1. PICK q \in Task : q = task'[e][s] /\ TaskOK(q)'
    <3>1. CASE e = m /\ s = t
      <4>1. task'[e][s] = r
        BY <3>1 DEF Inv, Become
      <4> QED BY <4>1
    <3>2. CASE ~(e = m /\ s = t)
      <4>1. task'[e][s] = task[e][s]
        BY <3>2 DEF Inv, Become
      <4>2. PICK q \in Task : q = task[e][s] /\ TaskOK(q)
        BY DEF Inv
      <4>3. TaskOK(q)'
        BY <4>2, Frame
      <4> QED BY <4>1, <4>2, <4>3
    <3> QED BY <3>1, <3>2
  <2> QED BY <2>1 DEF TaskOK, LocalsOK, ListsOK, OwnKey, Reachable
<1> QED BY <1>1, <1>2 DEF Inv

(* A step of the session or of the site, which leaves the runs alone.      *)
LEMMA OutsidePreserves ==
  ASSUME Inv, UNCHANGED task, BaseOK', Grows
  PROVE  Inv'
<1>1. ASSUME NEW e \in Machines, NEW s \in Tasks PROVE TaskOK(task[e][s])'
  <2>1. PICK q \in Task : q = task[e][s] /\ TaskOK(q)
    BY DEF Inv
  <2>2. TaskOK(q)'
    BY <2>1, Frame
  <2> QED BY <2>1, <2>2 DEF TaskOK, LocalsOK, ListsOK, OwnKey, Reachable
<1> QED BY <1>1 DEF Inv

LEMMA Counting ==
  ASSUME Inv, Answered \/ Faulty
  PROVE  faults' \in Nat
  BY DEF Inv, BaseOK, Answered, Faulty

(* A step that moves one run and changes nothing else but the failures.    *)
LEMMA QuietPreserves ==
  ASSUME Inv, NEW m \in Machines, NEW t \in Tasks, NEW r \in Task, Become(m, t, r),
         UNCHANGED <<session, nk, site, keyBroker, made>>, faults' \in Nat, TaskOK(r)
  PROVE  Inv'
<1>1. BaseOK'
  BY DEF Inv, BaseOK, session, site, StoredOK, SentOK, OwnKey, Reachable
<1>2. Grows
  BY DEF Grows, session, site
<1>3. TaskOK(r)'
  BY <1>2, Frame
<1> QED BY <1>1, <1>2, <1>3, StepPreserves

LEMMA Current ==
  ASSUME Inv, NEW m \in Machines, NEW t \in Tasks
  PROVE  \E q \in Task : q = task[m][t] /\ TaskOK(q)
  BY DEF Inv

LEMMA NextNetworkQuiet ==
  ASSUME Inv, NEW m \in Machines, NEW t \in Tasks, NextNetwork(m, t),
         Running(m, t)
  PROVE  \E r \in Task : Become(m, t, r) /\ TaskOK(r) /\ TaskOK(r)'
<1>1. PICK q \in Task : q = task[m][t] /\ TaskOK(q)
  BY Current
<1> DEFINE r == [Idle EXCEPT !.pc = "next", !.user = q.user, !.hik = q.hik, !.nets = q.nets]
<1>2. r \in Task
  BY DEF Idle, Task, PCs
<1>3. TaskOK(r) /\ TaskOK(r)'
  BY <1>1 DEF Running, At, Idle, Task, TaskOK, LocalsOK, ListsOK
<1>4. Become(m, t, r)
  BY <1>1 DEF NextNetwork
<1> QED BY <1>2, <1>3, <1>4

LEMMA InitInv == Init => Inv
<1> SUFFICES ASSUME Init PROVE Inv
  OBVIOUS
<1>1. BaseOK
  BY OwnerAssumption DEF Init, BaseOK, Hik, StoredOK, SentOK
<1>2. task \in [Machines -> [Tasks -> Task]]
  BY IdleOK DEF Init
<1>3. ASSUME NEW m \in Machines, NEW t \in Tasks PROVE TaskOK(task[m][t])
  BY IdleOK DEF Init
<1> QED BY <1>1, <1>2, <1>3 DEF Inv
-----------------------------------------------------------------------------
(* One lemma per action that gets hold of data, and one for those that     *)
(* only move on.  q is the record the run has, r the one it gets.          *)

LEMMA SyncNetworksInv ==
  ASSUME Inv, NEW m \in Machines, NEW t \in Tasks, SyncNetworks(m, t)
  PROVE  Inv'
<1> DEFINE r == [Idle EXCEPT !.pc = "memberships", !.user = user[m], !.hik = hik[m]]
<1>1. r \in Task /\ TaskOK(r)
  BY DEF SyncNetworks, Inv, BaseOK, Idle, Task, PCs, TaskOK, LocalsOK, ListsOK
<1>2. faults' \in Nat
  BY DEF SyncNetworks, Inv, BaseOK
<1> QED BY <1>1, <1>2, QuietPreserves DEF SyncNetworks

LEMMA ListMembershipsInv ==
  ASSUME Inv, NEW m \in Machines, NEW t \in Tasks, ListMemberships(m, t)
  PROVE  Inv'
<1>1. PICK q \in Task : q = task[m][t] /\ TaskOK(q)
  BY Current
<1>2. faults' \in Nat
  BY Counting DEF ListMemberships
<1> DEFINE mine == {n \in Networks : task[m][t].user \in members[n]}
           r == [q EXCEPT !.pc = "networks", !.ids = mine]
<1>3. r \in Task /\ TaskOK(r)
  BY <1>1 DEF ListMemberships, At, Task, PCs, TaskOK, LocalsOK, ListsOK
<1>4. Become(m, t, Idle) \/ Become(m, t, r)
  BY <1>1 DEF ListMemberships
<1> QED BY <1>2, <1>3, <1>4, IdleOK, QuietPreserves DEF ListMemberships

LEMMA ListNetworksInv ==
  ASSUME Inv, NEW m \in Machines, NEW t \in Tasks, ListNetworks(m, t)
  PROVE  Inv'
<1>1. PICK q \in Task : q = task[m][t] /\ TaskOK(q)
  BY Current
<1>2. faults' \in Nat
  BY Counting DEF ListNetworks
<1> DEFINE nets == {[id |-> n, version |-> version[n]] : n \in task[m][t].ids}
           r == [q EXCEPT !.pc = "next", !.ids = {}, !.nets = nets]
<1>3. nets \in SUBSET NetworkRow
  BY <1>1 DEF Task, NetworkRow, Inv, BaseOK
<1>4. r \in Task /\ TaskOK(r)
  BY <1>1, <1>3 DEF ListNetworks, At, Task, PCs, TaskOK, LocalsOK, ListsOK
<1>5. Become(m, t, Idle) \/ Become(m, t, r)
  BY <1>1 DEF ListNetworks
<1> QED BY <1>2, <1>4, <1>5, IdleOK, QuietPreserves DEF ListNetworks

LEMMA CheckNkInv ==
  ASSUME Inv, NEW m \in Machines, NEW t \in Tasks, CheckNk(m, t)
  PROVE  Inv'
<1>1. PICK q \in Task : q = task[m][t] /\ TaskOK(q)
  BY Current
<1>2. PICK net \in q.nets, pc \in {"load", "fetch"} :
        Become(m, t, [q EXCEPT !.net = net, !.nets = @ \ {net}, !.pc = pc])
  BY <1>1 DEF CheckNk
<1> DEFINE r == [q EXCEPT !.net = net, !.nets = @ \ {net}, !.pc = pc]
<1>3. net \in NetworkRow
  BY DEF Task
<1>4. r \in Task /\ TaskOK(r)
  BY <1>1, <1>3 DEF CheckNk, At, Task, PCs, TaskOK, LocalsOK, ListsOK
<1>5. faults' \in Nat
  BY Counting DEF CheckNk
<1> QED BY <1>2, <1>4, <1>5, QuietPreserves DEF CheckNk

LEMMA EndSyncInv ==
  ASSUME Inv, NEW m \in Machines, NEW t \in Tasks, EndSync(m, t)
  PROVE  Inv'
<1>1. faults' \in Nat
  BY DEF EndSync, Inv, BaseOK
<1> QED BY <1>1, IdleOK, QuietPreserves DEF EndSync

LEMMA FetchWrappedNkInv ==
  ASSUME Inv, NEW m \in Machines, NEW t \in Tasks, FetchWrappedNk(m, t)
  PROVE  Inv'
<1>1. PICK q \in Task : q = task[m][t] /\ TaskOK(q)
  BY Current
<1>2. faults' \in Nat
  BY Counting DEF FetchWrappedNk
<1> DEFINE g == [q EXCEPT !.pc = "generate"]
<1>3. g \in Task /\ TaskOK(g)
  BY <1>1 DEF FetchWrappedNk, At, Task, PCs, TaskOK, LocalsOK, ListsOK
<1>4. CASE Become(m, t, g)
  BY <1>2, <1>3, <1>4, QuietPreserves DEF FetchWrappedNk
<1>5. CASE \E w \in LatestNk(q.net.id, m) :
             Become(m, t, [q EXCEPT !.pc = "store", !.key = w.wrapped.key])
  <2>1. PICK w \in LatestNk(q.net.id, m) :
          Become(m, t, [q EXCEPT !.pc = "store", !.key = w.wrapped.key])
    BY <1>5
  <2> DEFINE r == [q EXCEPT !.pc = "store", !.key = w.wrapped.key]
  <2>2. w \in keyBroker /\ w.net = q.net.id
    BY DEF LatestNk
  <2>3. OwnKey(q.net.id, w.wrapped.key)
    BY <2>2 DEF Inv, BaseOK, SentOK
  <2>4. r \in Task /\ TaskOK(r)
    BY <1>1, <2>3 DEF FetchWrappedNk, At, Task, PCs, TaskOK, LocalsOK, ListsOK, OwnKey
  <2> QED BY <1>2, <2>1, <2>4, QuietPreserves DEF FetchWrappedNk
<1>6. Become(m, t, g)
        \/ \E w \in LatestNk(q.net.id, m) :
             Become(m, t, [q EXCEPT !.pc = "store", !.key = w.wrapped.key])
  BY <1>1 DEF FetchWrappedNk, Goto
<1> QED BY <1>4, <1>5, <1>6

(* The stored NKs after a step that may have stored k under n on m.        *)
LEMMA StoringPreserves ==
  ASSUME Inv, NEW m \in Machines, NEW t \in Tasks, NEW r \in Task, NEW n \in Networks,
         NEW k \in Key \cup {None}, k # None => OwnKey(n, k),
         Become(m, t, r), TaskOK(r), nk' = [nk EXCEPT ![m][n] = k],
         UNCHANGED <<session, site, keyBroker>>, made' \in Nat, faults' \in Nat
  PROVE  Inv'
<1>1. nk' \in [Machines -> [Networks -> Key \cup {None}]]
  BY DEF Inv, BaseOK
<1>2. StoredOK'
  <2> SUFFICES ASSUME NEW e \in Machines, NEW p \in Networks, nk'[e][p] # None
               PROVE  OwnKey(p, nk'[e][p])
    BY DEF StoredOK, OwnKey
  <2>1. CASE e = m /\ p = n
    BY <2>1 DEF Inv, BaseOK
  <2>2. CASE ~(e = m /\ p = n)
    BY <2>2 DEF Inv, BaseOK, StoredOK
  <2> QED BY <2>1, <2>2
<1>3. SentOK'
  BY DEF Inv, BaseOK, SentOK, OwnKey, Reachable, session, site
<1>4. BaseOK'
  BY <1>1, <1>2, <1>3 DEF Inv, BaseOK, session, site
<1>5. Grows
  BY DEF Grows, session, site
<1>6. TaskOK(r)'
  BY <1>5, Frame
<1> QED BY <1>4, <1>5, <1>6, StepPreserves

(* Storing that fails leaves the old NK, or none.                          *)
LEMMA UnstoredPreserves ==
  ASSUME Inv, NEW m \in Machines, NEW t \in Tasks, NEW r \in Task, NEW n \in Networks,
         Become(m, t, r), TaskOK(r), nk' \in Unstored(m, n),
         UNCHANGED <<session, site, keyBroker>>, made' \in Nat, faults' \in Nat
  PROVE  Inv'
<1>1. PICK k \in {None, nk[m][n]} : nk' = [nk EXCEPT ![m][n] = k]
  BY DEF Unstored, Inv, BaseOK
<1>2. k \in Key \cup {None} /\ (k # None => OwnKey(n, k))
  BY DEF Inv, BaseOK, StoredOK
<1> QED BY <1>1, <1>2, StoringPreserves

LEMMA StoreNkInv ==
  ASSUME Inv, NEW m \in Machines, NEW t \in Tasks, StoreNk(m, t)
  PROVE  Inv'
<1>1. PICK q \in Task : q = task[m][t] /\ TaskOK(q)
  BY Current
<1>2. faults' \in Nat /\ made' \in Nat
  BY Counting DEF StoreNk, Inv, BaseOK
<1>3. q.pc = "store" /\ q.net.id \in Networks /\ OwnKey(q.net.id, q.key)
  BY <1>1 DEF StoreNk, At, TaskOK, LocalsOK, NetworkRow
<1> DEFINE a == [q EXCEPT !.pc = "load", !.key = None]
           b == [q EXCEPT !.pc = "generate", !.key = None]
<1>4. a \in Task /\ b \in Task /\ TaskOK(a) /\ TaskOK(b)
  BY <1>1, <1>3 DEF Task, PCs, TaskOK, LocalsOK, ListsOK
<1>5. CASE nk' = [nk EXCEPT ![m][q.net.id] = q.key] /\ Become(m, t, a)
  <2>1. q.key \in Key
    BY <1>3 DEF OwnKey
  <2> QED BY <1>2, <1>3, <1>4, <1>5, <2>1, StoringPreserves DEF StoreNk
<1>6. CASE nk' \in Unstored(m, q.net.id) /\ Become(m, t, b)
  BY <1>2, <1>3, <1>4, <1>6, UnstoredPreserves DEF StoreNk
<1> QED BY <1>1, <1>5, <1>6 DEF StoreNk

LEMMA GenerateNkInv ==
  ASSUME Inv, NEW m \in Machines, NEW t \in Tasks, GenerateNk(m, t)
  PROVE  Inv'
<1>1. PICK q \in Task : q = task[m][t] /\ TaskOK(q)
  BY Current
<1>2. faults' \in Nat /\ made' \in Nat
  BY Counting DEF GenerateNk, Inv, BaseOK
<1>3. q.pc = "generate" /\ q.net.id \in Networks /\ q.user \in Users
  BY <1>1 DEF GenerateNk, At, TaskOK, LocalsOK, NetworkRow
<1> DEFINE a == [q EXCEPT !.pc = "load"]
           k == [n |-> made + 1, net |-> q.net.id, maker |-> q.user]
<1>4. CASE nk' = [nk EXCEPT ![m][q.net.id] = k] /\ Become(m, t, a)
  <2>1. a \in Task /\ TaskOK(a)
    BY <1>1, <1>3 DEF Task, PCs, TaskOK, LocalsOK, ListsOK
  <2>2. k \in Key /\ OwnKey(q.net.id, k)
    BY <1>1, <1>3 DEF GenerateNk, Inv, BaseOK, Key, OwnKey
  <2> QED BY <1>2, <1>3, <1>4, <2>1, <2>2, StoringPreserves DEF GenerateNk
<1>5. CASE nk' \in Unstored(m, q.net.id) /\ NextNetwork(m, t)
  <2>1. PICK r \in Task : Become(m, t, r) /\ TaskOK(r)
    BY <1>1, <1>3, <1>5, NextNetworkQuiet DEF Running, At
  <2> QED BY <1>2, <1>3, <1>5, <2>1, UnstoredPreserves DEF GenerateNk
<1> QED BY <1>1, <1>4, <1>5 DEF GenerateNk, Goto

LEMMA NextNetworkPreserves ==
  ASSUME Inv, NEW m \in Machines, NEW t \in Tasks, NextNetwork(m, t),
         Running(m, t), faults' \in Nat,
         UNCHANGED <<session, nk, site, keyBroker, made>>
  PROVE  Inv'
<1>1. PICK r \in Task : Become(m, t, r) /\ TaskOK(r)
  BY NextNetworkQuiet
<1> QED BY <1>1, QuietPreserves

LEMMA NotOwnerInv ==
  ASSUME Inv, NEW m \in Machines, NEW t \in Tasks, NotOwner(m, t)
  PROVE  Inv'
<1>1. faults' \in Nat
  BY DEF NotOwner, Inv, BaseOK
<1> QED BY <1>1, NextNetworkPreserves DEF NotOwner, Running, At

LEMMA DistributedInv ==
  ASSUME Inv, NEW m \in Machines, NEW t \in Tasks, Distributed(m, t)
  PROVE  Inv'
<1>1. faults' \in Nat
  BY DEF Distributed, Inv, BaseOK
<1> QED BY <1>1, NextNetworkPreserves DEF Distributed, Running, At

LEMMA LoadNkInv ==
  ASSUME Inv, NEW m \in Machines, NEW t \in Tasks, LoadNk(m, t)
  PROVE  Inv'
<1>1. PICK q \in Task : q = task[m][t] /\ TaskOK(q)
  BY Current
<1>2. faults' \in Nat
  BY Counting DEF LoadNk
<1>3. q.pc = "load" /\ q.net.id \in Networks
  BY <1>1 DEF LoadNk, At, TaskOK, LocalsOK, NetworkRow
<1> DEFINE r == [q EXCEPT !.pc = "members", !.key = nk[m][q.net.id]]
<1>4. CASE nk[m][q.net.id] # None /\ Become(m, t, r)
  <2>1. OwnKey(q.net.id, nk[m][q.net.id])
    BY <1>3, <1>4 DEF Inv, BaseOK, StoredOK
  <2>2. r \in Task /\ TaskOK(r)
    BY <1>1, <1>3, <2>1 DEF Task, PCs, TaskOK, LocalsOK, ListsOK, OwnKey
  <2> QED BY <1>2, <1>4, <2>2, QuietPreserves DEF LoadNk
<1>5. CASE NextNetwork(m, t)
  BY <1>2, <1>5, NextNetworkPreserves DEF LoadNk, Running, At
<1> QED BY <1>1, <1>4, <1>5 DEF LoadNk

LEMMA ListMembersInv ==
  ASSUME Inv, NEW m \in Machines, NEW t \in Tasks, ListMembers(m, t)
  PROVE  Inv'
<1>1. PICK q \in Task : q = task[m][t] /\ TaskOK(q)
  BY Current
<1>2. faults' \in Nat
  BY Counting DEF ListMembers
<1>3. q.pc = "members" /\ q.net.id \in Networks
  BY <1>1 DEF ListMembers, At, TaskOK, LocalsOK, NetworkRow
<1> DEFINE r == [q EXCEPT !.pc = "devices", !.members = members[q.net.id]]
<1>4. CASE Become(m, t, r)
  <2>1. r \in Task /\ TaskOK(r)
    BY <1>1, <1>3 DEF Task, PCs, TaskOK, LocalsOK, ListsOK, Inv, BaseOK
  <2> QED BY <1>2, <1>4, <2>1, QuietPreserves DEF ListMembers
<1>5. CASE NextNetwork(m, t)
  BY <1>2, <1>5, NextNetworkPreserves DEF ListMembers, Running, At
<1> QED BY <1>1, <1>4, <1>5 DEF ListMembers

LEMMA DevicesReachable ==
  ASSUME Inv, NEW n \in Networks, NEW users, users \subseteq joined[n]
  PROVE  /\ DevicesForUsers(users) \in SUBSET Target
         /\ \A x \in DevicesForUsers(users) : Reachable(n, x.id)
<1>1. ASSUME NEW y \in Machines, rows[y] # None
      PROVE  [id |-> y, hik |-> rows[y].hik] \in Target
  BY <1>1 DEF Inv, BaseOK, DeviceRow, Target
<1>2. DevicesForUsers(users) \in SUBSET Target
  BY <1>1 DEF DevicesForUsers
<1>3. ASSUME NEW x \in DevicesForUsers(users) PROVE Reachable(n, x.id)
  BY <1>3 DEF DevicesForUsers, Reachable
<1> QED BY <1>2, <1>3

LEMMA GetDevicesInv ==
  ASSUME Inv, NEW m \in Machines, NEW t \in Tasks, GetDevices(m, t)
  PROVE  Inv'
<1>1. PICK q \in Task : q = task[m][t] /\ TaskOK(q)
  BY Current
<1>2. faults' \in Nat
  BY Counting DEF GetDevices
<1>3. /\ q.pc = "devices" /\ q.net.id \in Networks
      /\ q.members \subseteq joined[q.net.id]
  BY <1>1 DEF GetDevices, At, TaskOK, LocalsOK, ListsOK, NetworkRow
<1> DEFINE r == [q EXCEPT !.pc = "deliver", !.members = {},
                          !.todo = DevicesForUsers(q.members)]
<1>4. CASE Become(m, t, r)
  <2>1. /\ DevicesForUsers(q.members) \in SUBSET Target
        /\ \A x \in DevicesForUsers(q.members) : Reachable(q.net.id, x.id)
    BY <1>3, DevicesReachable
  <2>2. r \in Task /\ TaskOK(r)
    BY <1>1, <1>3, <2>1 DEF Task, PCs, TaskOK, LocalsOK, ListsOK
  <2> QED BY <1>2, <1>4, <2>2, QuietPreserves DEF GetDevices
<1>5. CASE NextNetwork(m, t)
  BY <1>2, <1>5, NextNetworkPreserves DEF GetDevices, Running, At
<1> QED BY <1>1, <1>4, <1>5 DEF GetDevices

LEMMA HasWrappedNkInv ==
  ASSUME Inv, NEW m \in Machines, NEW t \in Tasks, HasWrappedNk(m, t)
  PROVE  Inv'
<1>1. PICK q \in Task : q = task[m][t] /\ TaskOK(q)
  BY Current
<1>2. faults' \in Nat
  BY Counting DEF HasWrappedNk
<1>3. q.pc = "deliver"
  BY <1>1 DEF HasWrappedNk, At
<1>4. PICK x \in q.todo :
        \/ Become(m, t, [q EXCEPT !.todo = @ \ {x}])
        \/ Become(m, t, [q EXCEPT !.pc = "push", !.todo = @ \ {x}, !.target = x])
  BY <1>1 DEF HasWrappedNk
<1> DEFINE a == [q EXCEPT !.todo = @ \ {x}]
           b == [q EXCEPT !.pc = "push", !.todo = @ \ {x}, !.target = x]
<1>5. x \in Target /\ Reachable(q.net.id, x.id)
  BY <1>1, <1>3 DEF Task, TaskOK, ListsOK
<1>6. a \in Task /\ TaskOK(a)
  BY <1>1, <1>3 DEF Task, TaskOK, LocalsOK, ListsOK
<1>7. b \in Task /\ TaskOK(b)
  BY <1>1, <1>3, <1>5 DEF Task, PCs, TaskOK, LocalsOK, ListsOK
<1> QED BY <1>2, <1>4, <1>6, <1>7, QuietPreserves DEF HasWrappedNk

(* A copy the run wraps for a device on its list.                          *)
LEMMA RowSent ==
  ASSUME Inv, NEW m \in Machines, NEW t \in Tasks, At(m, t, "push"),
         keyBroker' \in {keyBroker, keyBroker \cup {RowOf(task[m][t])}},
         UNCHANGED <<session, nk, site, made>>, faults' \in Nat
  PROVE  BaseOK' /\ Grows
<1>1. PICK q \in Task : q = task[m][t] /\ TaskOK(q)
  BY Current
<1>2. /\ q.net \in NetworkRow /\ q.hik \in Hik /\ OwnKey(q.net.id, q.key)
      /\ q.target \in Target /\ Reachable(q.net.id, q.target.id)
  BY <1>1 DEF At, TaskOK, LocalsOK, ListsOK
<1> DEFINE wrapped == Wrap(q.key, q.target.hik, q.hik)
           row == [net |-> q.net.id, target |-> q.target.id, version |-> q.net.version,
                   wrapped |-> wrapped]
<1>3. keyBroker' \subseteq keyBroker \cup {row}
  BY <1>1 DEF RowOf
<1>4. wrapped \in Wrapped /\ wrapped.key = q.key
  BY <1>2 DEF Wrap, DiffieHellman, Wrapped, OwnKey, Target
<1>5. row \in NetKeyRow
  BY <1>2, <1>4 DEF NetKeyRow, NetworkRow, Target
<1>6. SentOK'
  <2> SUFFICES ASSUME NEW w \in keyBroker'
               PROVE  OwnKey(w.net, w.wrapped.key) /\ Reachable(w.net, w.target)'
    BY DEF SentOK, OwnKey
  <2>1. CASE w \in keyBroker
    BY <2>1 DEF session, site, Inv, BaseOK, SentOK, Reachable
  <2>2. CASE w = row
    BY <2>2, <1>2, <1>4 DEF session, site, Reachable
  <2> QED BY <2>1, <2>2, <1>3
<1>7. BaseOK'
  BY <1>3, <1>5, <1>6 DEF session, site, Inv, BaseOK, StoredOK, OwnKey
<1>8. Grows
  BY DEF session, site, Grows
<1> QED BY <1>7, <1>8

LEMMA PushWrappedNkInv ==
  ASSUME Inv, NEW m \in Machines, NEW t \in Tasks, PushWrappedNk(m, t)
  PROVE  Inv'
<1>1. PICK q \in Task : q = task[m][t] /\ TaskOK(q)
  BY Current
<1>2. faults' \in Nat
  BY Counting DEF PushWrappedNk
<1> DEFINE r == [q EXCEPT !.pc = "deliver", !.target = None]
<1>3. r \in Task /\ TaskOK(r)
  BY <1>1 DEF PushWrappedNk, At, Task, PCs, TaskOK, LocalsOK, ListsOK
<1>4. BaseOK' /\ Grows
  BY <1>2, RowSent DEF PushWrappedNk
<1>5. TaskOK(r)'
  BY <1>3, <1>4, Frame
<1>6. Become(m, t, r)
  BY <1>1 DEF PushWrappedNk
<1> QED BY <1>3, <1>4, <1>5, <1>6, StepPreserves

LEMMA HangInv ==
  ASSUME Inv, NEW m \in Machines, NEW t \in Tasks, Hang(m, t)
  PROVE  Inv'
<1> DEFINE r == [Idle EXCEPT !.pc = "hung"]
<1>1. r \in Task /\ TaskOK(r) /\ Become(m, t, r)
  BY DEF Hang, Idle, Task, PCs, TaskOK, LocalsOK, ListsOK
<1>2. faults' \in Nat
  BY Counting DEF Hang
<1>3. CASE At(m, t, "push")
  <2>1. BaseOK' /\ Grows
    BY <1>2, <1>3, RowSent DEF Hang
  <2>2. TaskOK(r)'
    BY <1>1, <2>1, Frame
  <2> QED BY <1>1, <2>1, <2>2, StepPreserves
<1>4. CASE ~At(m, t, "push")
  BY <1>1, <1>2, <1>4, QuietPreserves DEF Hang
<1> QED BY <1>3, <1>4

LEMMA ProceedInv ==
  ASSUME Inv, NEW m \in Machines, NEW t \in Tasks, Proceed(m, t)
  PROVE  Inv'
  BY SyncNetworksInv, ListMembershipsInv, ListNetworksInv, CheckNkInv, EndSyncInv,
     FetchWrappedNkInv, StoreNkInv, GenerateNkInv, NotOwnerInv, LoadNkInv, ListMembersInv,
     GetDevicesInv, HasWrappedNkInv, PushWrappedNkInv, DistributedInv DEF Proceed
-----------------------------------------------------------------------------
(* The session and the site.                                               *)

(* While rows keep their user and joined only grows, wrapped keys stay     *)
(* with members.                                                           *)
LEMMA SentStays ==
  ASSUME Inv, Grows, UNCHANGED keyBroker
  PROVE  SentOK'
<1> SUFFICES ASSUME NEW w \in keyBroker
             PROVE  OwnKey(w.net, w.wrapped.key) /\ Reachable(w.net, w.target)'
  BY DEF SentOK, OwnKey
<1>1. w.net \in Networks /\ w.target \in Machines
  BY DEF Inv, BaseOK, NetKeyRow
<1> QED BY <1>1, ReachableStays DEF Inv, BaseOK, SentOK

LEMMA RowPut ==
  ASSUME Inv, NEW m \in Machines, NEW row \in DeviceRow,
         rows[m] # None => row.user = rows[m].user,
         rows' = [rows EXCEPT ![m] = row], UNCHANGED joined
  PROVE  /\ Grows /\ rows'[m] # None
         /\ rows' \in [Machines -> DeviceRow \cup {None}]
<1>1. rows' \in [Machines -> DeviceRow \cup {None}] /\ rows'[m] = row
  BY DEF Inv, BaseOK
<1>2. row # None
  BY NoneAssumption
<1>3. ASSUME NEW x \in Machines, rows[x] # None
      PROVE  rows'[x] # None /\ rows'[x].user = rows[x].user
  BY <1>1, <1>2, <1>3 DEF Inv, BaseOK
<1> QED BY <1>1, <1>2, <1>3 DEF Grows

LEMMA LoginInv ==
  ASSUME Inv, NEW m \in Machines, NEW u \in Users, Login(m, u)
  PROVE  Inv'
<1>1. Grows
  BY DEF Login, Grows, site
<1>2. SentOK'
  BY <1>1, SentStays DEF Login
<1>3. BaseOK'
  BY <1>2 DEF Login, site, Inv, BaseOK, StoredOK, OwnKey
<1> QED BY <1>1, <1>3, OutsidePreserves DEF Login

LEMMA RegisterDeviceInv ==
  ASSUME Inv, NEW m \in Machines, RegisterDevice(m)
  PROVE  Inv'
<1> DEFINE row == [user |-> IF rows[m] = None THEN user[m] ELSE rows[m].user,
                   hik |-> hik[m], active |-> TRUE]
<1>1. row \in DeviceRow
  BY DEF RegisterDevice, Inv, BaseOK, DeviceRow
<1>2. /\ Grows /\ rows'[m] # None
      /\ rows' \in [Machines -> DeviceRow \cup {None}]
  BY <1>1, RowPut DEF RegisterDevice, site
<1>3. SentOK'
  BY <1>2, SentStays DEF RegisterDevice
<1>4. \A x \in Machines : device'[x] => rows'[x] # None
  BY <1>2 DEF RegisterDevice, Inv, BaseOK, Grows
<1>5. BaseOK'
  BY <1>2, <1>3, <1>4 DEF RegisterDevice, site, Inv, BaseOK, StoredOK, OwnKey
<1> QED BY <1>2, <1>5, OutsidePreserves DEF RegisterDevice

LEMMA RotateHikInv ==
  ASSUME Inv, NEW m \in Machines, RotateHik(m)
  PROVE  Inv'
<1> DEFINE new == [hik[m] EXCEPT !.gen = @ + 1]
           row == [rows[m] EXCEPT !.hik = new]
<1>1. hik' \in [Machines -> Hik] /\ hik'[m] = new /\ new \in Hik
  <2>1. hik \in [Machines -> Hik] /\ hik[m] \in Hik
    BY DEF Inv, BaseOK
  <2>2. new \in Hik
    BY <2>1 DEF Hik
  <2>3. hik' = [hik EXCEPT ![m] = new]
    BY DEF RotateHik
  <2> HIDE DEF new
  <2> QED BY <2>1, <2>2, <2>3
<1>2. rows[m] \in DeviceRow
  BY DEF RotateHik, Inv, BaseOK
<1>3. row \in DeviceRow /\ row.user = rows[m].user
  BY <1>1, <1>2 DEF DeviceRow
<1>4. rows' = [rows EXCEPT ![m] = row]
  BY <1>1 DEF RotateHik
<1>5. Grows /\ rows' \in [Machines -> DeviceRow \cup {None}]
  BY <1>3, <1>4, RowPut DEF RotateHik, site
<1>6. SentOK'
  BY <1>5, SentStays DEF RotateHik
<1>7. BaseOK'
  BY <1>1, <1>5, <1>6 DEF RotateHik, site, Inv, BaseOK, StoredOK, OwnKey, Grows
<1> QED BY <1>5, <1>7, OutsidePreserves DEF RotateHik

LEMMA LogoutInv ==
  ASSUME Inv, NEW m \in Machines, Logout(m)
  PROVE  Inv'
<1>1. Grows /\ rows' \in [Machines -> DeviceRow \cup {None}]
  <2>1. CASE UNCHANGED rows
    BY <2>1 DEF Logout, site, Inv, BaseOK, Grows
  <2>2. CASE rows[m] # None /\ rows' = [rows EXCEPT ![m].active = FALSE]
    <3> DEFINE row == [rows[m] EXCEPT !.active = FALSE]
    <3>1. row \in DeviceRow /\ row.user = rows[m].user
      BY <2>2 DEF Inv, BaseOK, DeviceRow
    <3>2. rows' = [rows EXCEPT ![m] = row]
      BY <2>2
    <3> QED BY <3>1, <3>2, RowPut DEF Logout, site
  <2> QED BY <2>1, <2>2 DEF Logout
<1>2. SentOK'
  BY <1>1, SentStays DEF Logout
<1>3. faults' \in Nat
  BY Counting DEF Logout
<1>4. BaseOK'
  BY <1>1, <1>2, <1>3 DEF Logout, site, Inv, BaseOK, StoredOK, OwnKey, Grows
<1> QED BY <1>1, <1>4, OutsidePreserves DEF Logout

LEMMA RestartInv ==
  ASSUME Inv, NEW m \in Machines, Restart(m)
  PROVE  Inv'
<1>1. Grows
  BY DEF Restart, Grows, site
<1>2. SentOK'
  BY <1>1, SentStays DEF Restart
<1>3. BaseOK'
  BY <1>2 DEF Restart, site, Inv, BaseOK, StoredOK, OwnKey
<1>4. task' \in [Machines -> [Tasks -> Task]]
  BY IdleOK DEF Restart, Inv
<1>5. ASSUME NEW e \in Machines, NEW s \in Tasks PROVE TaskOK(task[e][s])'
  <2>1. PICK q \in Task : q = task'[e][s] /\ TaskOK(q)
    <3>1. CASE e = m
      <4>1. task'[e][s] = Idle
        BY <3>1 DEF Restart, Inv
      <4> QED BY <4>1, IdleOK
    <3>2. CASE e # m
      <4>1. task'[e][s] = task[e][s]
        BY <3>2 DEF Restart, Inv
      <4> QED BY <4>1 DEF Inv
    <3> QED BY <3>1, <3>2
  <2>2. TaskOK(q)'
    BY <1>1, <2>1, Frame
  <2> QED BY <2>1, <2>2 DEF TaskOK, LocalsOK, ListsOK, OwnKey, Reachable
<1> QED BY <1>3, <1>4, <1>5 DEF Inv

LEMMA SiteInv ==
  ASSUME Inv, NEW n \in Networks, Site(n)
  PROVE  Inv'
<1>1. Grows
  BY DEF Site, AddMember, RemoveMember, RaiseVersion, session, Grows, Inv, BaseOK
<1>2. SentOK' /\ UNCHANGED task
  BY <1>1, SentStays DEF Site, AddMember, RemoveMember, RaiseVersion
<1>3. CASE \E u \in Users : AddMember(n, u)
  BY <1>1, <1>2, <1>3, OutsidePreserves
  DEF AddMember, session, Inv, BaseOK, StoredOK, OwnKey
<1>4. CASE \E u \in Users : RemoveMember(n, u)
  BY <1>1, <1>2, <1>4, OutsidePreserves
  DEF RemoveMember, session, Inv, BaseOK, StoredOK, OwnKey
<1>5. CASE RaiseVersion(n)
  BY <1>1, <1>2, <1>5, OutsidePreserves
  DEF RaiseVersion, session, Inv, BaseOK, StoredOK, OwnKey
<1> QED BY <1>3, <1>4, <1>5 DEF Site

LEMMA StutterInv == Inv /\ UNCHANGED vars => Inv'
<1> SUFFICES ASSUME Inv, UNCHANGED vars PROVE Inv'
  OBVIOUS
<1>1. Grows
  BY DEF vars, session, site, Grows
<1>2. BaseOK'
  BY DEF vars, session, site, Inv, BaseOK, StoredOK, SentOK, OwnKey, Reachable
<1> QED BY <1>1, <1>2, OutsidePreserves DEF vars

LEMMA NextInv == Inv /\ [Next]_vars => Inv'
<1> SUFFICES ASSUME Inv, [Next]_vars PROVE Inv'
  OBVIOUS
<1>1. CASE UNCHANGED vars
  BY <1>1, StutterInv
<1>2. ASSUME NEW m \in Machines, Session(m) PROVE Inv'
  BY <1>2, LoginInv, RegisterDeviceInv, RotateHikInv, LogoutInv, RestartInv DEF Session
<1>3. ASSUME NEW m \in Machines, NEW t \in Tasks, Proceed(m, t) PROVE Inv'
  BY <1>3, ProceedInv
<1>4. ASSUME NEW m \in Machines, NEW t \in Tasks, Hang(m, t) PROVE Inv'
  BY <1>4, HangInv
<1>5. ASSUME NEW n \in Networks, Site(n) PROVE Inv'
  BY <1>5, SiteInv
<1> QED BY <1>1, <1>2, <1>3, <1>4, <1>5 DEF Next

(* The inductive invariant holds in every reachable state                  *)
(* (main.rs:407-520, with the session and the site around it).             *)
THEOREM Invariance == Spec => []Inv
<1> QED BY InitInv, NextInv, PTL DEF Spec
-----------------------------------------------------------------------------
(* Types are correct, for any constants.                                   *)
THEOREM TypeCorrect == Spec => []TypeOK
<1>1. Inv /\ disturbed \subseteq Machines => TypeOK
  BY DEF Inv, BaseOK, TypeOK
<1>2. Init => disturbed \subseteq Machines
  BY DEF Init
<1>3. disturbed \subseteq Machines /\ [Next]_vars => (disturbed \subseteq Machines)'
  <2> SUFFICES ASSUME disturbed \subseteq Machines, [Next]_vars
               PROVE  disturbed' \subseteq Machines
    OBVIOUS
  <2>1. ASSUME NEW m \in Machines, NEW t \in Tasks, Proceed(m, t) \/ Hang(m, t)
        PROVE  disturbed' \subseteq Machines
    BY <2>1
    DEF Proceed, Hang, SyncNetworks, ListMemberships, ListNetworks, CheckNk, EndSync,
        FetchWrappedNk, StoreNk, GenerateNk, NotOwner, LoadNk, ListMembers, GetDevices,
        HasWrappedNk, PushWrappedNk, Distributed
  <2>2. ASSUME NEW m \in Machines, Session(m) PROVE disturbed' = disturbed
    BY <2>2 DEF Session, Login, RegisterDevice, RotateHik, Logout, Restart
  <2>3. ASSUME NEW n \in Networks, Site(n) PROVE disturbed' = disturbed
    BY <2>3 DEF Site, AddMember, RemoveMember, RaiseVersion
  <2>4. CASE UNCHANGED vars
    BY <2>4 DEF vars
  <2> QED BY <2>1, <2>2, <2>3, <2>4 DEF Next
<1> QED BY <1>1, <1>2, <1>3, Invariance, PTL DEF Spec

(* Every NK stored on a machine or wrapped in key_broker was made for its  *)
(* network by a daemon of the network's owner, with any number of runs at  *)
(* once, changes of user in the middle of a run and failing calls          *)
(* (main.rs:431-470, broker.rs:474-493).                                   *)
THEOREM OwnersKeys == Spec => []KeysFromOwner
<1>1. Inv => KeysFromOwner
  <2> SUFFICES ASSUME Inv, NEW n \in Networks, NEW k \in Held(n)
               PROVE  OwnKey(n, k)
    BY DEF KeysFromOwner, OwnKey
  <2>1. CASE k \in {nk[m][n] : m \in Machines} \ {None}
    BY <2>1 DEF Inv, BaseOK, StoredOK
  <2>2. CASE k \in {q.wrapped.key : q \in {r \in keyBroker : r.net = n}}
    BY <2>2 DEF Inv, BaseOK, SentOK
  <2> QED BY <2>1, <2>2 DEF Held
<1> QED BY <1>1, Invariance, PTL

(* No NK is ever wrapped for the device of somebody who never was a member *)
(* of the network, however stale the lists of a run are (main.rs:481-509). *)
THEOREM MembersOnly == Spec => []OnlyMembersGetKeys
<1>1. Inv => OnlyMembersGetKeys
  BY DEF Inv, BaseOK, SentOK, Reachable, OnlyMembersGetKeys
<1> QED BY <1>1, Invariance, PTL
=============================================================================
