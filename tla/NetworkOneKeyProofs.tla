------------------------- MODULE NetworkOneKeyProofs -------------------------
(***************************************************************************)
(* Proof that NetworkSync keeps to one key of a network, as long as no two *)
(* runs meet on the owner's only machine and no stored NK fails to be read *)
(* there: for any machines, users, networks, runs, bounds, hung and        *)
(* failing calls.                                                          *)
(***************************************************************************)
EXTENDS NetworkSyncProofs

(* At most one run is going on.                                            *)
Alone(m) == \A s, t \in Tasks : Running(m, s) /\ Running(m, t) => s = t

(* A run belongs to a user of its machine.  One that delivers is the       *)
(* owner's.  On an undisturbed machine one that is getting a key finds     *)
(* none stored, and one that delivers has the stored one.                  *)
RunOK(m, r) ==
  /\ r.pc \notin {"idle", "hung"} => r.user \in Home[m]
  /\ r.pc \in {"members", "devices", "deliver", "push"} => r.user = Owner[r.net.id]
  /\ m \notin disturbed =>
       /\ r.pc \in {"fetch", "store", "generate"} => nk[m][r.net.id] = None
       /\ r.pc \in {"members", "devices", "deliver", "push"} => nk[m][r.net.id] = r.key

RunsOK ==
  /\ \A m \in Machines \ disturbed : Alone(m)
  /\ \A m \in Machines, t \in Tasks : RunOK(m, task[m][t])

AtHome == \A m \in Machines : user[m] \in Home[m] \cup {None}

(* Every copy holds the key stored on the owner's only machine.            *)
CopiesHeld ==
  \A n \in Networks, m \in Machines \ disturbed :
    UsedBy(Owner[n]) = {m} => \A q \in keyBroker : q.net = n => q.wrapped.key = nk[m][n]

(* The inductive invariant.                                                *)
OneInv == Inv /\ RunsOK /\ AtHome /\ CopiesHeld
-----------------------------------------------------------------------------
LEMMA OneCurrent ==
  ASSUME OneInv, NEW m \in Machines, NEW t \in Tasks
  PROVE  \E q \in Task : q = task[m][t] /\ TaskOK(q) /\ RunOK(m, q)
  BY Current DEF OneInv, RunsOK

(* Frame: what a run knows of its machine only a run of this machine can   *)
(* change, and the others do not go on.                                    *)
LEMMA RunsFrame ==
  ASSUME OneInv, NEW m \in Machines, NEW t \in Tasks, NEW r \in Task, Become(m, t, r),
         RunOK(m, r)', disturbed \subseteq disturbed',
         m \notin disturbed' => Running(m, t) \/ \A s \in Tasks : ~Running(m, s),
         \A e \in Machines \ {m} : nk'[e] = nk[e]
  PROVE  RunsOK'
<1>1. /\ \A s \in Tasks \ {t} : task'[m][s] = task[m][s]
      /\ \A e \in Machines \ {m} : task'[e] = task[e]
      /\ task'[m][t] = r
  BY DEF OneInv, Inv, Become
<1>2. ASSUME m \notin disturbed', NEW s \in Tasks \ {t} PROVE ~Running(m, s)
  BY <1>2 DEF OneInv, RunsOK, Alone
<1>3. ASSUME NEW e \in Machines \ disturbed', NEW s \in Tasks, NEW u \in Tasks,
             Running(e, s)', Running(e, u)'
      PROVE  s = u
  <2>1. CASE e = m
    BY <1>1, <1>2, <1>3, <2>1 DEF Running, At
  <2>2. CASE e # m
    BY <1>1, <1>3, <2>2 DEF Running, At, OneInv, RunsOK, Alone
  <2> QED BY <2>1, <2>2
<1>4. ASSUME NEW e \in Machines, NEW s \in Tasks PROVE RunOK(e, task[e][s])'
  <2>1. PICK q \in Task : q = task[e][s] /\ TaskOK(q) /\ RunOK(e, q)
    BY OneCurrent
  <2>2. CASE e = m /\ s = t
    BY <1>1, <2>2 DEF RunOK
  <2>3. CASE e = m /\ s # t
    <3>1. task'[e][s] = q
      BY <1>1, <2>1, <2>3
    <3>2. m \notin disturbed' => q.pc \in {"idle", "hung"}
      BY <1>2, <2>1, <2>3 DEF Running, At
    <3>3. RunOK(e, q)'
      BY <2>1, <2>3, <3>2 DEF RunOK
    <3> QED BY <3>1, <3>3 DEF RunOK
  <2>4. CASE e # m
    <3>1. task'[e][s] = q /\ nk'[e] = nk[e]
      BY <1>1, <2>1, <2>4
    <3>2. RunOK(e, q)'
      BY <2>1, <3>1 DEF RunOK
    <3> QED BY <3>1, <3>2 DEF RunOK
  <2> QED BY <2>2, <2>3, <2>4
<1> QED BY <1>3, <1>4 DEF RunsOK, Alone

LEMMA AtHomeFrame == ASSUME OneInv, UNCHANGED user PROVE AtHome'
  BY DEF OneInv, AtHome

LEMMA CopiesFrame ==
  ASSUME OneInv, UNCHANGED <<nk, keyBroker>>, disturbed \subseteq disturbed'
  PROVE  CopiesHeld'
  BY DEF OneInv, CopiesHeld

(* A step of a run that stores and sends nothing.                          *)
LEMMA QuietOne ==
  ASSUME OneInv, NEW m \in Machines, NEW t \in Tasks, NEW r \in Task, Become(m, t, r),
         RunOK(m, r), Running(m, t), UNCHANGED <<session, nk, keyBroker>>,
         disturbed \subseteq disturbed'
  PROVE  RunsOK' /\ AtHome' /\ CopiesHeld'
<1>1. RunOK(m, r)'
  BY DEF RunOK
<1> QED BY <1>1, RunsFrame, AtHomeFrame, CopiesFrame DEF session

LEMMA IdleOne == ASSUME NEW m \in Machines PROVE Idle \in Task /\ RunOK(m, Idle)
  BY IdleOK DEF Idle, RunOK

LEMMA NextNetworkOne ==
  ASSUME OneInv, NEW m \in Machines, NEW t \in Tasks, NextNetwork(m, t), Running(m, t)
  PROVE  \E r \in Task : Become(m, t, r) /\ RunOK(m, r) /\ RunOK(m, r)'
<1>1. PICK q \in Task : q = task[m][t] /\ RunOK(m, q)
  BY OneCurrent
<1> DEFINE r == [Idle EXCEPT !.pc = "next", !.user = q.user, !.hik = q.hik, !.nets = q.nets]
<1>2. r \in Task
  BY DEF Idle, Task, PCs
<1>3. RunOK(m, r) /\ RunOK(m, r)'
  BY <1>1 DEF Running, At, Idle, RunOK
<1>4. Become(m, t, r)
  BY <1>1 DEF NextNetwork
<1> QED BY <1>2, <1>3, <1>4
-----------------------------------------------------------------------------
(* The steps of a run that store and send nothing.                         *)

(* The only step that can let two runs meet, and then it is noted.         *)
LEMMA SyncNetworksOne ==
  ASSUME OneInv, NEW m \in Machines, NEW t \in Tasks, SyncNetworks(m, t)
  PROVE  RunsOK' /\ AtHome' /\ CopiesHeld'
<1>1. PICK r \in Task : Become(m, t, r) /\ r.pc = "memberships" /\ r.user = user[m]
  <2> DEFINE r == [Idle EXCEPT !.pc = "memberships", !.user = user[m], !.hik = hik[m]]
  <2>1. r \in Task /\ r.pc = "memberships" /\ r.user = user[m]
    BY DEF SyncNetworks, OneInv, Inv, BaseOK, Idle, Task, PCs
  <2> QED BY <2>1 DEF SyncNetworks
<1>2. RunOK(m, r)'
  BY <1>1 DEF SyncNetworks, OneInv, AtHome, RunOK
<1>3. /\ disturbed \subseteq disturbed' /\ UNCHANGED <<session, nk, keyBroker>>
      /\ m \notin disturbed' => \A s \in Tasks : ~Running(m, s)
  BY DEF SyncNetworks
<1> QED BY <1>1, <1>2, <1>3, RunsFrame, AtHomeFrame, CopiesFrame DEF session

LEMMA ListingOne ==
  ASSUME OneInv, NEW m \in Machines, NEW t \in Tasks,
         ListMemberships(m, t) \/ ListNetworks(m, t) \/ EndSync(m, t)
  PROVE  \E r \in Task : Become(m, t, r) /\ RunOK(m, r)
<1>1. PICK q \in Task : q = task[m][t] /\ TaskOK(q) /\ RunOK(m, q)
  BY OneCurrent
<1>2. Idle \in Task /\ RunOK(m, Idle)
  BY IdleOne
<1>3. CASE ListMemberships(m, t)
  <2> DEFINE mine == {n \in Networks : task[m][t].user \in members[n]}
             r == [q EXCEPT !.pc = "networks", !.ids = mine]
  <2>1. r \in Task /\ RunOK(m, r)
    BY <1>1, <1>3 DEF ListMemberships, At, Task, PCs, RunOK
  <2>2. Become(m, t, Idle) \/ Become(m, t, r)
    BY <1>1, <1>3 DEF ListMemberships
  <2> QED BY <1>2, <2>1, <2>2
<1>4. CASE ListNetworks(m, t)
  <2> DEFINE nets == {[id |-> n, version |-> version[n]] : n \in task[m][t].ids}
             r == [q EXCEPT !.pc = "next", !.ids = {}, !.nets = nets]
  <2>1. nets \in SUBSET NetworkRow
    BY <1>1 DEF Task, NetworkRow, OneInv, Inv, BaseOK
  <2>2. r \in Task /\ RunOK(m, r)
    BY <1>1, <1>4, <2>1 DEF ListNetworks, At, Task, PCs, RunOK
  <2>3. Become(m, t, Idle) \/ Become(m, t, r)
    BY <1>1, <1>4 DEF ListNetworks
  <2> QED BY <1>2, <2>2, <2>3
<1>5. CASE EndSync(m, t)
  BY <1>2, <1>5 DEF EndSync
<1> QED BY <1>3, <1>4, <1>5

(* On to "fetch" with a stored NK only after a failing read.               *)
LEMMA CheckNkOne ==
  ASSUME OneInv, NEW m \in Machines, NEW t \in Tasks, CheckNk(m, t)
  PROVE  RunsOK' /\ AtHome' /\ CopiesHeld'
<1>1. PICK q \in Task : q = task[m][t] /\ TaskOK(q) /\ RunOK(m, q)
  BY OneCurrent
<1>2. PICK net \in q.nets, pc \in {"load", "fetch"} :
        /\ Become(m, t, [q EXCEPT !.net = net, !.nets = @ \ {net}, !.pc = pc])
        /\ pc = "fetch" => nk[m][net.id] = None \/ m \in disturbed'
  BY <1>1 DEF CheckNk
<1> DEFINE r == [q EXCEPT !.net = net, !.nets = @ \ {net}, !.pc = pc]
<1>3. net \in NetworkRow
  BY DEF Task
<1>4. r \in Task
  BY <1>3 DEF Task, PCs
<1>5. UNCHANGED <<session, nk, keyBroker>> /\ disturbed \subseteq disturbed'
  BY DEF CheckNk
<1>6. Running(m, t) /\ q.pc = "next"
  BY <1>1 DEF CheckNk, Running, At
<1>7. RunOK(m, r)'
  BY <1>1, <1>2, <1>5, <1>6 DEF RunOK, Task
<1> HIDE DEF r
<1>8. RunsOK'
  BY <1>2, <1>4, <1>5, <1>6, <1>7, RunsFrame DEF r
<1> QED BY <1>5, <1>8, AtHomeFrame, CopiesFrame DEF session

LEMMA FetchOne ==
  ASSUME OneInv, NEW m \in Machines, NEW t \in Tasks, FetchWrappedNk(m, t)
  PROVE  \E r \in Task : Become(m, t, r) /\ RunOK(m, r)
<1>1. PICK q \in Task : q = task[m][t] /\ TaskOK(q) /\ RunOK(m, q)
  BY OneCurrent
<1> DEFINE g == [q EXCEPT !.pc = "generate"]
<1>2. g \in Task /\ RunOK(m, g)
  BY <1>1 DEF FetchWrappedNk, At, Task, PCs, RunOK
<1>3. CASE Become(m, t, g)
  BY <1>2, <1>3
<1>4. CASE \E w \in LatestNk(q.net.id, m) :
             Become(m, t, [q EXCEPT !.pc = "store", !.key = w.wrapped.key])
  <2>1. PICK w \in LatestNk(q.net.id, m) :
          Become(m, t, [q EXCEPT !.pc = "store", !.key = w.wrapped.key])
    BY <1>4
  <2> DEFINE r == [q EXCEPT !.pc = "store", !.key = w.wrapped.key]
  <2>2. w.wrapped.key \in Key
    BY DEF LatestNk, OneInv, Inv, BaseOK, SentOK, OwnKey
  <2>3. r \in Task /\ RunOK(m, r)
    BY <1>1, <2>2 DEF FetchWrappedNk, At, Task, PCs, RunOK
  <2> QED BY <2>1, <2>3
<1>5. Become(m, t, g)
        \/ \E w \in LatestNk(q.net.id, m) :
             Become(m, t, [q EXCEPT !.pc = "store", !.key = w.wrapped.key])
  BY <1>1 DEF FetchWrappedNk, Goto
<1> QED BY <1>3, <1>4, <1>5

LEMMA DeliveringOne ==
  ASSUME OneInv, NEW m \in Machines, NEW t \in Tasks,
         NotOwner(m, t) \/ LoadNk(m, t) \/ ListMembers(m, t) \/ GetDevices(m, t)
           \/ HasWrappedNk(m, t) \/ Distributed(m, t)
  PROVE  \E r \in Task : Become(m, t, r) /\ RunOK(m, r)
<1>1. PICK q \in Task : q = task[m][t] /\ TaskOK(q) /\ RunOK(m, q)
  BY OneCurrent
<1>2. Running(m, t)
  BY <1>1 DEF NotOwner, LoadNk, ListMembers, GetDevices, HasWrappedNk, Distributed, At, Running
<1>3. CASE NextNetwork(m, t)
  BY <1>2, <1>3, NextNetworkOne
<1>4. CASE LoadNk(m, t) /\ ~NextNetwork(m, t)
  <2> DEFINE r == [q EXCEPT !.pc = "members", !.key = nk[m][q.net.id]]
  <2>1. Become(m, t, r) /\ q.pc = "load" /\ Owner[q.net.id] = q.user
    BY <1>1, <1>4 DEF LoadNk, At
  <2>2. nk[m][q.net.id] \in Key
    BY <1>1, <1>4, <2>1 DEF LoadNk, OneInv, Inv, BaseOK, TaskOK, LocalsOK, NetworkRow
  <2>3. r \in Task /\ RunOK(m, r)
    BY <1>1, <2>1, <2>2 DEF Task, PCs, RunOK
  <2> QED BY <2>1, <2>3
<1>5. CASE ListMembers(m, t) /\ ~NextNetwork(m, t)
  <2> DEFINE r == [q EXCEPT !.pc = "devices", !.members = members[q.net.id]]
  <2>1. Become(m, t, r) /\ q.pc = "members"
    BY <1>1, <1>5 DEF ListMembers, At
  <2>2. members[q.net.id] \in SUBSET Users
    BY <1>1, <2>1 DEF OneInv, Inv, BaseOK, TaskOK, LocalsOK, NetworkRow
  <2>3. r \in Task /\ RunOK(m, r)
    BY <1>1, <2>1, <2>2 DEF Task, PCs, RunOK
  <2> QED BY <2>1, <2>3
<1>6. CASE GetDevices(m, t) /\ ~NextNetwork(m, t)
  <2> DEFINE r == [q EXCEPT !.pc = "deliver", !.members = {},
                            !.todo = DevicesForUsers(q.members)]
  <2>1. Become(m, t, r) /\ q.pc = "devices"
    BY <1>1, <1>6 DEF GetDevices, At
  <2>2. DevicesForUsers(q.members) \in SUBSET Target
    BY DEF DevicesForUsers, Target, OneInv, Inv, BaseOK, DeviceRow
  <2>3. r \in Task /\ RunOK(m, r)
    BY <1>1, <2>1, <2>2 DEF Task, PCs, RunOK
  <2> QED BY <2>1, <2>3
<1>7. CASE HasWrappedNk(m, t)
  <2>1. PICK x \in q.todo :
          \/ Become(m, t, [q EXCEPT !.todo = @ \ {x}])
          \/ Become(m, t, [q EXCEPT !.pc = "push", !.todo = @ \ {x}, !.target = x])
    BY <1>1, <1>7 DEF HasWrappedNk
  <2> DEFINE a == [q EXCEPT !.todo = @ \ {x}]
             b == [q EXCEPT !.pc = "push", !.todo = @ \ {x}, !.target = x]
  <2>2. q.pc = "deliver"
    BY <1>1, <1>7 DEF HasWrappedNk, At
  <2>3. a \in Task /\ RunOK(m, a) /\ b \in Task /\ RunOK(m, b)
    BY <1>1, <2>2 DEF Task, PCs, RunOK
  <2> QED BY <2>1, <2>3
<1> QED BY <1>3, <1>4, <1>5, <1>6, <1>7 DEF NotOwner, Distributed
-----------------------------------------------------------------------------
(* The steps that store or send a key.                                     *)

(* An entry that was empty when no copy could have been made of it.        *)
LEMMA StoringCopies ==
  ASSUME OneInv, NEW m \in Machines, NEW n \in Networks,
         NEW k, nk' = [nk EXCEPT ![m][n] = k],
         m \notin disturbed => nk[m][n] = None,
         UNCHANGED <<keyBroker, disturbed>>
  PROVE  CopiesHeld'
<1> SUFFICES ASSUME NEW p \in Networks, NEW e \in Machines \ disturbed,
                    UsedBy(Owner[p]) = {e}, NEW q \in keyBroker, q.net = p
             PROVE  q.wrapped.key = nk'[e][p]
  BY DEF CopiesHeld, UsedBy
<1>1. q.wrapped.key = nk[e][p]
  BY DEF OneInv, CopiesHeld
<1>2. CASE e = m /\ p = n
  <2>1. q.wrapped.key # None
    BY NoneAssumption DEF OneInv, Inv, BaseOK, SentOK, OwnKey
  <2> QED BY <1>1, <1>2, <2>1
<1>3. CASE ~(e = m /\ p = n)
  BY <1>1, <1>3 DEF OneInv, Inv, BaseOK
<1> QED BY <1>2, <1>3

LEMMA StoringOne ==
  ASSUME OneInv, NEW m \in Machines, NEW t \in Tasks, NEW r \in Task, NEW n \in Networks,
         NEW k, nk' = [nk EXCEPT ![m][n] = k], Become(m, t, r), RunOK(m, r)',
         Running(m, t), m \notin disturbed => nk[m][n] = None,
         UNCHANGED <<user, keyBroker, disturbed>>
  PROVE  RunsOK' /\ AtHome' /\ CopiesHeld'
<1>1. \A e \in Machines \ {m} : nk'[e] = nk[e]
  BY DEF OneInv, Inv, BaseOK
<1> QED BY <1>1, RunsFrame, AtHomeFrame, StoringCopies

LEMMA StoreNkOne ==
  ASSUME OneInv, NEW m \in Machines, NEW t \in Tasks, StoreNk(m, t)
  PROVE  RunsOK' /\ AtHome' /\ CopiesHeld'
<1>1. PICK q \in Task : q = task[m][t] /\ TaskOK(q) /\ RunOK(m, q)
  BY OneCurrent
<1>2. PICK n \in Networks : n = q.net.id
  BY <1>1 DEF StoreNk, At, TaskOK, LocalsOK, NetworkRow
<1> DEFINE a == [q EXCEPT !.pc = "load", !.key = None]
           b == [q EXCEPT !.pc = "generate", !.key = None]
<1>3. /\ q.pc = "store" /\ Running(m, t) /\ (m \notin disturbed => nk[m][n] = None)
      /\ UNCHANGED <<user, keyBroker, disturbed>>
  BY <1>1, <1>2 DEF StoreNk, At, Running, RunOK, session
<1>4. a \in Task /\ b \in Task
  BY DEF Task, PCs
<1>5. CASE nk' = [nk EXCEPT ![m][n] = q.key] /\ Become(m, t, a)
  <2>1. RunOK(m, a)'
    BY <1>1, <1>3 DEF RunOK, Task
  <2> QED BY <1>3, <1>4, <1>5, <2>1, StoringOne
<1>6. CASE nk' \in Unstored(m, n) /\ Become(m, t, b)
  <2>1. PICK k \in {nk[m][n], None} : nk' = [nk EXCEPT ![m][n] = k]
    BY <1>6 DEF Unstored, OneInv, Inv, BaseOK
  <2>2. m \notin disturbed => nk'[m][n] = None
    BY <1>3, <2>1 DEF OneInv, Inv, BaseOK
  <2>3. RunOK(m, b)'
    BY <1>1, <1>2, <1>3, <2>2 DEF RunOK, Task
  <2> QED BY <1>3, <1>4, <1>6, <2>1, <2>3, StoringOne
<1> QED BY <1>1, <1>2, <1>5, <1>6 DEF StoreNk

LEMMA GenerateNkOne ==
  ASSUME OneInv, NEW m \in Machines, NEW t \in Tasks, GenerateNk(m, t)
  PROVE  RunsOK' /\ AtHome' /\ CopiesHeld'
<1>1. PICK q \in Task : q = task[m][t] /\ TaskOK(q) /\ RunOK(m, q)
  BY OneCurrent
<1>2. PICK n \in Networks : n = q.net.id
  BY <1>1 DEF GenerateNk, At, TaskOK, LocalsOK, NetworkRow
<1>3. /\ q.pc = "generate" /\ Running(m, t) /\ (m \notin disturbed => nk[m][n] = None)
      /\ UNCHANGED <<user, keyBroker, disturbed>>
  BY <1>1, <1>2 DEF GenerateNk, At, Running, RunOK, session
<1> DEFINE new == [n |-> made + 1, net |-> n, maker |-> q.user]
           a == [q EXCEPT !.pc = "load"]
<1>4. CASE nk' = [nk EXCEPT ![m][n] = new] /\ Become(m, t, a)
  <2>1. a \in Task /\ RunOK(m, a)'
    BY <1>1, <1>3 DEF RunOK, Task, PCs
  <2> HIDE DEF new, a
  <2> QED BY <1>3, <1>4, <2>1, StoringOne
<1>5. CASE nk' \in Unstored(m, n) /\ NextNetwork(m, t)
  <2>1. PICK k \in {nk[m][n], None} : nk' = [nk EXCEPT ![m][n] = k]
    BY <1>5 DEF Unstored, OneInv, Inv, BaseOK
  <2>2. PICK r \in Task : Become(m, t, r) /\ RunOK(m, r)'
    BY <1>3, <1>5, NextNetworkOne
  <2> QED BY <1>3, <2>1, <2>2, StoringOne
<1> QED BY <1>1, <1>2, <1>4, <1>5 DEF GenerateNk, Goto

(* A copy is sent by the owner, on a machine of his: on the only one, and  *)
(* undisturbed, it holds the stored key.                                   *)
LEMMA SendingCopies ==
  ASSUME OneInv, NEW m \in Machines, NEW t \in Tasks, At(m, t, "push"),
         keyBroker' \in {keyBroker, keyBroker \cup {RowOf(task[m][t])}},
         UNCHANGED <<nk, disturbed>>
  PROVE  CopiesHeld'
<1>1. PICK q \in Task : q = task[m][t] /\ TaskOK(q) /\ RunOK(m, q)
  BY OneCurrent
<1>2. q.pc = "push"
  BY <1>1 DEF At
<1>3. RowOf(q).net = q.net.id /\ RowOf(q).wrapped.key = q.key
  BY DEF RowOf, Wrap
<1> SUFFICES ASSUME NEW p \in Networks, NEW e \in Machines \ disturbed,
                    UsedBy(Owner[p]) = {e}, NEW w \in keyBroker', w.net = p
             PROVE  w.wrapped.key = nk[e][p]
  BY DEF CopiesHeld, UsedBy
<1>4. CASE w \in keyBroker
  BY <1>4 DEF OneInv, CopiesHeld
<1>5. CASE w = RowOf(q)
  <2>1. p = q.net.id /\ Owner[p] \in Home[m]
    BY <1>1, <1>2, <1>3, <1>5 DEF RunOK
  <2>2. e = m
    BY <2>1 DEF UsedBy
  <2> QED BY <1>1, <1>2, <1>3, <1>5, <2>1, <2>2 DEF RunOK
<1> QED BY <1>1, <1>4, <1>5

LEMMA PushWrappedNkOne ==
  ASSUME OneInv, NEW m \in Machines, NEW t \in Tasks, PushWrappedNk(m, t)
  PROVE  RunsOK' /\ AtHome' /\ CopiesHeld'
<1>1. PICK q \in Task : q = task[m][t] /\ RunOK(m, q)
  BY OneCurrent
<1> DEFINE r == [q EXCEPT !.pc = "deliver", !.target = None]
<1>2. /\ q.pc = "push" /\ Running(m, t) /\ Become(m, t, r)
      /\ UNCHANGED <<user, nk, disturbed>>
  BY <1>1 DEF PushWrappedNk, At, Running, session
<1>3. r \in Task /\ RunOK(m, r)'
  BY <1>1, <1>2 DEF Task, PCs, RunOK
<1>4. CopiesHeld'
  BY SendingCopies DEF PushWrappedNk
<1> QED BY <1>2, <1>3, <1>4, RunsFrame, AtHomeFrame

LEMMA HangOne ==
  ASSUME OneInv, NEW m \in Machines, NEW t \in Tasks, Hang(m, t)
  PROVE  RunsOK' /\ AtHome' /\ CopiesHeld'
<1> DEFINE r == [Idle EXCEPT !.pc = "hung"]
<1>1. /\ r \in Task /\ RunOK(m, r)' /\ Become(m, t, r)
  BY DEF Hang, Idle, Task, PCs, RunOK
<1>2. Running(m, t) /\ UNCHANGED <<user, nk, disturbed>>
  BY DEF Hang, CallPCs, Running, At, session
<1>3. CopiesHeld'
  <2>1. CASE At(m, t, "push")
    BY <1>2, <2>1, SendingCopies DEF Hang
  <2>2. CASE ~At(m, t, "push")
    BY <1>2, <2>2, CopiesFrame DEF Hang
  <2> QED BY <2>1, <2>2
<1> QED BY <1>1, <1>2, <1>3, RunsFrame, AtHomeFrame
-----------------------------------------------------------------------------
LEMMA ProceedOne ==
  ASSUME OneInv, NEW m \in Machines, NEW t \in Tasks, Proceed(m, t)
  PROVE  RunsOK' /\ AtHome' /\ CopiesHeld'
<1>1. CASE \/ ListMemberships(m, t) \/ ListNetworks(m, t) \/ EndSync(m, t)
           \/ FetchWrappedNk(m, t) \/ NotOwner(m, t) \/ LoadNk(m, t) \/ ListMembers(m, t)
           \/ GetDevices(m, t) \/ HasWrappedNk(m, t) \/ Distributed(m, t)
  <2>1. PICK r \in Task : Become(m, t, r) /\ RunOK(m, r)
    BY <1>1, ListingOne, FetchOne, DeliveringOne
  <2>2. UNCHANGED <<session, nk, keyBroker, disturbed>> /\ Running(m, t)
    BY <1>1
    DEF ListMemberships, ListNetworks, EndSync, FetchWrappedNk, NotOwner, LoadNk,
        ListMembers, GetDevices, HasWrappedNk, Distributed, At, Running
  <2> QED BY <2>1, <2>2, QuietOne
<1> QED BY <1>1, SyncNetworksOne, CheckNkOne, StoreNkOne, GenerateNkOne, PushWrappedNkOne
        DEF Proceed

(* A step that leaves the runs, the keys and key_broker alone.             *)
LEMMA OutsideOne ==
  ASSUME OneInv, UNCHANGED <<task, nk, keyBroker, disturbed>>, AtHome'
  PROVE  RunsOK' /\ AtHome' /\ CopiesHeld'
<1>1. RunsOK'
  BY DEF OneInv, RunsOK, RunOK, Alone, Running, At
<1> QED BY <1>1, CopiesFrame

(* Logging in keeps to the users of the machine; a restart ends the runs.  *)
LEMMA SessionOne ==
  ASSUME OneInv, NEW m \in Machines, Session(m)
  PROVE  RunsOK' /\ AtHome' /\ CopiesHeld'
<1>1. UNCHANGED <<nk, keyBroker, disturbed>>
  BY DEF Session, Login, RegisterDevice, RotateHik, Logout, Restart, site
<1>2. AtHome'
  BY DEF Session, Login, RegisterDevice, RotateHik, Logout, Restart, OneInv, AtHome,
         Inv, BaseOK
<1>3. CASE ~Restart(m)
  <2>1. UNCHANGED task
    BY <1>3 DEF Session, Login, RegisterDevice, RotateHik, Logout
  <2> QED BY <1>1, <1>2, <2>1, OutsideOne
<1>4. CASE Restart(m)
  <2>1. /\ \A s \in Tasks : task'[m][s] = Idle
        /\ \A e \in Machines \ {m} : task'[e] = task[e]
    BY <1>4 DEF Restart, OneInv, Inv
  <2>2. ASSUME NEW e \in Machines, NEW s \in Tasks PROVE RunOK(e, task[e][s])'
    <3>1. task'[e][s] = Idle \/ task'[e][s] = task[e][s]
      BY <2>1
    <3>2. RunOK(e, Idle) /\ RunOK(e, task[e][s])
      BY IdleOne DEF OneInv, RunsOK
    <3> QED BY <1>1, <3>1, <3>2 DEF RunOK
  <2>3. ASSUME NEW e \in Machines \ disturbed' PROVE Alone(e)'
    <3>1. CASE e = m
      BY <2>1, <3>1 DEF Alone, Running, At, Idle
    <3>2. CASE e # m
      BY <1>1, <2>1, <3>2 DEF OneInv, RunsOK, Alone, Running, At
    <3> QED BY <3>1, <3>2
  <2>4. RunsOK'
    BY <2>2, <2>3 DEF RunsOK
  <2> QED BY <1>1, <1>2, <2>4, CopiesFrame
<1> QED BY <1>3, <1>4

LEMMA SiteOne ==
  ASSUME OneInv, NEW n \in Networks, Site(n)
  PROVE  RunsOK' /\ AtHome' /\ CopiesHeld'
<1>1. UNCHANGED <<user, task, nk, keyBroker, disturbed>>
  BY DEF Site, AddMember, RemoveMember, RaiseVersion, session
<1> QED BY <1>1, AtHomeFrame, OutsideOne

LEMMA NextOne == OneInv /\ [Next]_vars => OneInv'
<1> SUFFICES ASSUME OneInv, [Next]_vars PROVE OneInv'
  OBVIOUS
<1>1. Inv'
  BY NextInv DEF OneInv
<1>2. RunsOK' /\ AtHome' /\ CopiesHeld'
  <2>1. CASE UNCHANGED vars
    <3>1. UNCHANGED <<user, task, nk, keyBroker, disturbed>>
      BY <2>1 DEF vars, session
    <3> QED BY <3>1, AtHomeFrame, OutsideOne
  <2> QED BY <2>1, SessionOne, ProceedOne, HangOne, SiteOne DEF Next
<1> QED BY <1>1, <1>2 DEF OneInv

LEMMA InitOne == Init => OneInv
<1> SUFFICES ASSUME Init PROVE OneInv
  OBVIOUS
<1>1. RunsOK
  BY DEF Init, RunsOK, RunOK, Alone, Running, At, Idle
<1>2. AtHome /\ CopiesHeld
  BY DEF Init, AtHome, CopiesHeld
<1> QED BY <1>1, <1>2, InitInv DEF OneInv

(* The members who open the copies of a version get one key, the one the   *)
(* owner's daemon has stored, whatever crashes, hangs, fails or loses its  *)
(* answer, for an owner whose only machine no two runs have met on and     *)
(* never failed to read a stored NK (main.rs:431-468).                     *)
THEOREM KeepsOneKey == Spec => []OneKeyUnlessDisturbed
<1>1. OneInv => OneKeyUnlessDisturbed
  BY DEF OneInv, CopiesHeld, OneKeyUnlessDisturbed
<1> QED BY <1>1, InitOne, NextOne, PTL DEF Spec
=============================================================================
