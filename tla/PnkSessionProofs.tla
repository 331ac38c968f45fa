-------------------------- MODULE PnkSessionProofs --------------------------
(***************************************************************************)
(* Proofs about PnkSession, for any machines, users, device ids, number of *)
(* concurrent requests and bounds, with or without failures of the broker  *)
(* and of the Credential Manager.                                          *)
(***************************************************************************)
EXTENDS PnkSession, TLAPS

(* What the locals of a request hold at each of its awaits.                *)
LocalsOK(r) ==
  /\ r.pc \in {"hik", "check", "register", "load", "generate"} => r.op = "login"
  /\ r.pc \in {"hik", "check"} => r.device = None
  /\ r.op = "login" => r.user \in Users
  /\ r.pc \in {"check", "register", "device", "patch"} => r.pub \in Hik
  /\ r.pc \in {"rotate", "export", "device", "patch", "version", "pnk"} => r.op = "rewrap"
  /\ r.pc \in {"export", "device", "patch", "version", "pnk"} => r.hik \in Hik
  /\ r.op = "rotate" => r.pc \in {"list", "push"}
  /\ r.pc = "unwrap" => r.row \in BrokerRow
  /\ r.pc \in {"list", "push"} => r.key \in Key
  /\ r.pc = "list" => r.hik \in Hik
  /\ r.todo # {} => r.hik \in Hik
  /\ r.pc \in {"fetch", "unwrap"} => r.op \in {"login", "sync"}
  /\ r.pc = "nk" => r.user \in Users /\ r.hik \in Hik

(* A device id a request or the daemon holds is one of a row, and rows are *)
(* never deleted.                                                          *)
DeviceOK(r) ==
  /\ (r.pc = "register" /\ r.device # None) => rows[r.device] \in DeviceRow
  /\ (r.op = "login" /\ r.pc \in {"load", "fetch", "unwrap", "generate", "list", "push"})
       => r.device \in RowIds /\ rows[r.device] \in DeviceRow
  /\ r.pc = "patch" => r.device \in RowIds /\ rows[r.device] \in DeviceRow

(* A login that has its key has stored one in the Credential Manager, or a *)
(* store has failed on that machine.                                       *)
HasStored(d) == cred[d] \in Key \/ "unstored" \in mishap[d]

StoredOK(d, r) ==
  (r.op = "login" /\ r.pc \in {"list", "push"}) => HasStored(d)

(* A rotation has delivered its key to every device it is done with, or    *)
(* has noted a failure.                                                    *)
DeliveryOK(r) ==
  (r.op = "rotate" /\ r.pc = "push") =>
    (r.failed \/ \A x \in r.targets : x \in r.todo \/ Delivered(x, r.key, r.version))

TaskOK(d, r) == LocalsOK(r) /\ DeviceOK(r) /\ StoredOK(d, r) /\ DeliveryOK(r)

DaemonOK(d) ==
  daemon[d].device # None =>
    daemon[d].pnk \in Key /\ HasStored(d) /\ rows[daemon[d].device] \in DeviceRow

(* The inductive invariant.                                                *)
Inv ==
  /\ TypeOK
  /\ \A d \in Devices, t \in Tasks : TaskOK(d, task[d][t])
  /\ \A d \in Devices : DaemonOK(d)
-----------------------------------------------------------------------------
(* Frame: what the other requests know stays true while stored keys are    *)
(* only lost to a failed store, device rows are never taken away and       *)
(* key_broker only grows.                                                  *)
Grows ==
  /\ \A e \in Devices : HasStored(e) => HasStored(e)'
  /\ \A i \in RowIds : rows[i] \in DeviceRow => rows'[i] \in DeviceRow
  /\ keyBroker \subseteq keyBroker'

(* Everything but the tasks, of TypeOK.                                    *)
StoresOK ==
  /\ daemon \in [Devices -> Daemon]
  /\ cred \in [Devices -> Key \cup {None}]
  /\ rows \in [RowIds -> DeviceRow \cup {None}]
  /\ keyBroker \subseteq BrokerRow
  /\ made \in Nat
  /\ mishap \in [Devices -> SUBSET Mishaps]

LEMMA IdleOK == ASSUME NEW d \in Devices PROVE Idle \in Task /\ TaskOK(d, Idle)
  BY DEF Idle, Task, PCs, TaskOK, LocalsOK, DeviceOK, StoredOK, HasStored, DeliveryOK

LEMMA Frame ==
  ASSUME Grows, NEW e \in Devices, NEW r \in Task, TaskOK(e, r)
  PROVE  TaskOK(e, r)'
<1>1. LocalsOK(r)'
  BY DEF TaskOK, LocalsOK
<1>2. DeviceOK(r)'
  BY DEF TaskOK, DeviceOK, Grows, Task
<1>3. StoredOK(e, r)'
  BY DEF TaskOK, StoredOK, HasStored, Grows
<1>4. DeliveryOK(r)'
  BY DEF TaskOK, DeliveryOK, Delivered, Grows
<1> QED BY <1>1, <1>2, <1>3, <1>4 DEF TaskOK

(* A step that gives one request a sound record preserves the invariant.   *)
LEMMA TaskStepPreserves ==
  ASSUME Inv, NEW d \in Devices, NEW t \in Tasks, NEW r \in Task, Become(d, t, r),
         StoresOK', Grows, TaskOK(d, r)', \A e \in Devices : DaemonOK(e)'
  PROVE  Inv'
<1>1. task' \in [Devices -> [Tasks -> Task]]
  BY DEF Inv, TypeOK, Become
<1>2. TypeOK'
  BY <1>1 DEF TypeOK, StoresOK
<1>3. ASSUME NEW e \in Devices, NEW s \in Tasks PROVE TaskOK(e, task[e][s])'
  <2>1. CASE e = d /\ s = t
    <3>1. task'[e][s] = r
      BY <2>1 DEF Inv, TypeOK, Become
    <3> QED BY <3>1, <2>1 DEF TaskOK, LocalsOK, DeviceOK, StoredOK, HasStored, DeliveryOK
  <2>2. CASE ~(e = d /\ s = t)
    <3>1. task'[e][s] = task[e][s]
      BY <2>2 DEF Inv, TypeOK, Become
    <3>2. PICK q \in Task : q = task[e][s] /\ TaskOK(e, q)
      BY DEF Inv, TypeOK
    <3>3. TaskOK(e, q)'
      BY <3>2, Frame
    <3>4. task'[e][s] = q
      BY <3>1, <3>2
    <3> QED BY <3>3, <3>4 DEF TaskOK, LocalsOK, DeviceOK, StoredOK, HasStored, DeliveryOK
  <2> QED BY <2>1, <2>2
<1> QED BY <1>2, <1>3 DEF Inv
-----------------------------------------------------------------------------
(* One lemma per action.  Each names the record q the request has and the  *)
(* record r it gets.                                                       *)

LEMMA Current ==
  ASSUME Inv, NEW d \in Devices, NEW t \in Tasks
  PROVE  \E q \in Task : q = task[d][t] /\ TaskOK(d, q)
  BY DEF Inv, TypeOK

LEMMA DaemonTyped ==
  ASSUME Inv, NEW d \in Devices
  PROVE  daemon[d] \in Daemon /\ DaemonOK(d)
  BY DEF Inv, TypeOK

LEMMA FreshKeyTyped ==
  ASSUME Inv, NEW u \in Users
  PROVE  FreshKey(u) \in Key
  BY DEF FreshKey, Key, Inv, TypeOK

LEMMA DevicesTyped ==
  ASSUME Inv, NEW u
  PROVE  DevicesOf(u) \in SUBSET Target
<1>1. ASSUME NEW i \in RowIds, rows[i] # None
      PROVE  [id |-> i, hik |-> rows[i].hik] \in Target
  BY <1>1 DEF Inv, TypeOK, DeviceRow, Target
<1> QED BY <1>1 DEF DevicesOf

(* The ghost keeps what it has noted.                                      *)
LEMMA NoteKeeps ==
  ASSUME Inv, NEW d \in Devices, NEW S \in SUBSET Mishaps, Note(d, S)
  PROVE  /\ mishap' \in [Devices -> SUBSET Mishaps]
         /\ \A e \in Devices : mishap[e] \subseteq mishap'[e]
  BY DEF Note, Inv, TypeOK

(* store_pnk leaves the key, or leaves a note that it failed.              *)
LEMMA StorePnkStores ==
  ASSUME Inv, NEW d \in Devices, NEW k \in Key, StorePnk(d, k)
  PROVE  /\ cred' \in [Devices -> Key \cup {None}]
         /\ mishap' \in [Devices -> SUBSET Mishaps]
         /\ HasStored(d)'
         /\ \A e \in Devices : HasStored(e) => HasStored(e)'
<1>1. CASE cred' = [cred EXCEPT ![d] = k] /\ UNCHANGED mishap
  BY <1>1 DEF HasStored, Inv, TypeOK
<1>2. CASE cred' \in {cred, [cred EXCEPT ![d] = None]} /\ Note(d, {"unstored"})
  <2>1. {"unstored"} \in SUBSET Mishaps
    BY DEF Mishaps
  <2>2. /\ mishap' \in [Devices -> SUBSET Mishaps]
        /\ \A e \in Devices : mishap[e] \subseteq mishap'[e]
    BY <1>2, <2>1, NoteKeeps
  <2>3. "unstored" \in mishap'[d]
    BY <1>2 DEF Note, Inv, TypeOK
  <2> QED BY <1>2, <2>2, <2>3 DEF HasStored, Inv, TypeOK
<1> QED BY <1>1, <1>2 DEF StorePnk

LEMMA FinishPreserves ==
  ASSUME Inv, NEW d \in Devices, NEW t \in Tasks, Finish(d, t),
         StoresOK', Grows, \A e \in Devices : DaemonOK(e)'
  PROVE  Inv'
<1>1. PICK r \in Task : r = Idle /\ TaskOK(d, r)
  BY IdleOK
<1>2. TaskOK(d, r)'
  BY <1>1, Frame
<1> QED BY <1>1, <1>2, TaskStepPreserves DEF Finish

LEMMA LoginPreserves ==
  ASSUME Inv, NEW d \in Devices, NEW t \in Tasks, NEW u \in Users, Login(d, t, u)
  PROVE  Inv'
<1>1. PICK r \in Task : r = [Idle EXCEPT !.pc = "hik", !.op = "login", !.user = u]
  BY IdleOK DEF Idle, Task, PCs
<1>2. TaskOK(d, r)'
  BY <1>1 DEF Idle, TaskOK, LocalsOK, DeviceOK, StoredOK, HasStored, DeliveryOK
<1>3. /\ mishap' \in [Devices -> SUBSET Mishaps]
      /\ \A e \in Devices : mishap[e] \subseteq mishap'[e]
  BY NoteKeeps DEF Login, Mishaps
<1>4. StoresOK' /\ Grows /\ \A e \in Devices : DaemonOK(e)'
  BY <1>3 DEF Login, Inv, TypeOK, StoresOK, Grows, Daemon, DaemonOK, HasStored
<1> QED BY <1>1, <1>2, <1>4, TaskStepPreserves DEF Login

LEMMA ExportHikPreserves ==
  ASSUME Inv, NEW d \in Devices, NEW t \in Tasks, ExportHik(d, t)
  PROVE  Inv'
<1>1. PICK q \in Task : q = task[d][t] /\ TaskOK(d, q) /\ q.pc = "hik"
  BY Current DEF ExportHik, At
<1>2. PICK h \in Hik : h = daemon[d].hik
  BY DaemonTyped DEF Daemon
<1>3. [q EXCEPT !.pc = "check", !.pub = h] \in Task
  BY <1>2 DEF Task, PCs
<1>4. PICK r \in Task : r = [q EXCEPT !.pc = "check", !.pub = h]
  BY <1>3
<1>5. TaskOK(d, r)'
  BY <1>1, <1>2, <1>4 DEF ExportHik, Task, TaskOK, LocalsOK, DeviceOK, StoredOK, HasStored, DeliveryOK
<1>6. StoresOK' /\ Grows /\ \A e \in Devices : DaemonOK(e)'
  BY DEF ExportHik, Inv, TypeOK, StoresOK, Grows, DaemonOK, HasStored
<1> QED BY <1>1, <1>2, <1>4, <1>5, <1>6, TaskStepPreserves DEF ExportHik

LEMMA RegisterCheckPreserves ==
  ASSUME Inv, NEW d \in Devices, NEW t \in Tasks, RegisterCheck(d, t)
  PROVE  Inv'
<1>1. PICK q \in Task : q = task[d][t] /\ TaskOK(d, q) /\ q.pc = "check"
  BY Current DEF RegisterCheck, At
<1>2. StoresOK' /\ Grows /\ \A e \in Devices : DaemonOK(e)'
  BY DEF RegisterCheck, Inv, TypeOK, StoresOK, Grows, DaemonOK, HasStored
<1>3. CASE Finish(d, t)
  BY <1>2, <1>3, FinishPreserves
<1>4. ASSUME NEW i \in RowsWithHik(task[d][t].pub),
             Become(d, t, [task[d][t] EXCEPT !.pc = "register", !.device = i])
      PROVE  Inv'
  <2>1. i \in RowIds /\ rows[i] \in DeviceRow
    BY DEF RowsWithHik, Inv, TypeOK
  <2>2. PICK r \in Task : r = [q EXCEPT !.pc = "register", !.device = i]
    BY <2>1 DEF Task, PCs
  <2>3. TaskOK(d, r)'
    BY <1>1, <1>2, <2>1, <2>2 DEF Grows, Task, TaskOK, LocalsOK, DeviceOK, StoredOK, HasStored, DeliveryOK
  <2> QED BY <1>1, <1>2, <1>4, <2>2, <2>3, TaskStepPreserves
<1>5. CASE RowsWithHik(task[d][t].pub) = {} /\ Goto(d, t, "register")
  <2>1. PICK r \in Task : r = [q EXCEPT !.pc = "register"]
    BY DEF Task, PCs
  <2>2. TaskOK(d, r)'
    BY <1>1, <2>1 DEF Task, TaskOK, LocalsOK, DeviceOK, StoredOK, HasStored, DeliveryOK
  <2> QED BY <1>1, <1>2, <1>5, <2>1, <2>2, TaskStepPreserves DEF Goto
<1> QED BY <1>3, <1>4, <1>5 DEF RegisterCheck

LEMMA RegisterWritePreserves ==
  ASSUME Inv, NEW d \in Devices, NEW t \in Tasks, RegisterWrite(d, t)
  PROVE  Inv'
<1>1. PICK q \in Task : q = task[d][t] /\ TaskOK(d, q) /\ q.pc = "register"
  BY Current DEF RegisterWrite, At
<1>2. /\ q.user \in Users /\ q.pub \in Hik /\ q.op = "login"
      /\ q.device # None => q.device \in RowIds /\ rows[q.device] \in DeviceRow
  BY <1>1 DEF Task, TaskOK, LocalsOK, DeviceOK
<1>3. PICK outcome \in Outcomes, i \in RowIds, row \in DeviceRow :
        /\ rows' = IF Applied(outcome) THEN [rows EXCEPT ![i] = row] ELSE rows
        /\ IF outcome = "ok"
             THEN Become(d, t, [q EXCEPT !.pc = "load", !.pub = None, !.device = i])
             ELSE Finish(d, t)
  <2>1. CASE q.device # None
    <3> DEFINE row == [user |-> rows[q.device].user, hik |-> rows[q.device].hik,
                       active |-> TRUE]
    <3>1. row \in DeviceRow
      BY <1>2, <2>1 DEF DeviceRow
    <3>2. PICK outcome \in Outcomes :
            /\ rows' = IF Applied(outcome) THEN [rows EXCEPT ![q.device] = row] ELSE rows
            /\ IF outcome = "ok"
                 THEN Become(d, t, [q EXCEPT !.pc = "load", !.pub = None,
                                             !.device = q.device])
                 ELSE Finish(d, t)
      BY <1>1, <2>1 DEF RegisterWrite
    <3> QED BY <1>2, <2>1, <3>1, <3>2
  <2>2. CASE q.device = None
    <3> DEFINE row == [user |-> q.user, hik |-> q.pub, active |-> TRUE]
    <3>1. row \in DeviceRow
      BY <1>2 DEF DeviceRow
    <3>2. PICK outcome \in Outcomes, i \in RowIds :
            /\ rows' = IF Applied(outcome) THEN [rows EXCEPT ![i] = row] ELSE rows
            /\ IF outcome = "ok"
                 THEN Become(d, t, [q EXCEPT !.pc = "load", !.pub = None, !.device = i])
                 ELSE Finish(d, t)
      BY <1>1, <2>2 DEF RegisterWrite
    <3> QED BY <3>1, <3>2
  <2> QED BY <2>1, <2>2
<1>4. StoresOK' /\ Grows /\ \A e \in Devices : DaemonOK(e)'
  BY <1>3 DEF RegisterWrite, Inv, TypeOK, StoresOK, Grows, Daemon, DaemonOK, HasStored
<1>5. CASE outcome # "ok"
  BY <1>3, <1>4, <1>5, FinishPreserves
<1>6. CASE outcome = "ok"
  <2>1. [q EXCEPT !.pc = "load", !.pub = None, !.device = i] \in Task
    BY DEF Task, PCs
  <2>2. PICK r \in Task : r = [q EXCEPT !.pc = "load", !.pub = None, !.device = i]
    BY <2>1
  <2>3. rows'[i] \in DeviceRow
    BY <1>3, <1>6 DEF Inv, TypeOK, Applied
  <2>4. TaskOK(d, r)'
    BY <1>1, <1>2, <2>2, <2>3 DEF Task, TaskOK, LocalsOK, DeviceOK, StoredOK, HasStored, DeliveryOK
  <2> QED BY <1>3, <1>4, <1>6, <2>2, <2>4, TaskStepPreserves
<1> QED BY <1>5, <1>6

LEMMA LoadPnkPreserves ==
  ASSUME Inv, NEW d \in Devices, NEW t \in Tasks, LoadPnk(d, t)
  PROVE  Inv'
<1>1. PICK q \in Task : q = task[d][t] /\ TaskOK(d, q) /\ q.pc = "load"
  BY Current DEF LoadPnk, At
<1> DEFINE taken == [task[d][t] EXCEPT !.pc = "push", !.key = cred[d]]
<1>2. ASSUME UNCHANGED mishap \/ \E S \in SUBSET Mishaps : Note(d, S)
      PROVE  StoresOK' /\ Grows /\ \A e \in Devices : DaemonOK(e)'
  <2>1. /\ mishap' \in [Devices -> SUBSET Mishaps]
        /\ \A e \in Devices : mishap[e] \subseteq mishap'[e]
    BY <1>2, NoteKeeps DEF Inv, TypeOK
  <2> QED BY <2>1 DEF LoadPnk, Inv, TypeOK, StoresOK, Grows, DaemonOK, HasStored
<1>3. CASE cred[d] # None /\ Become(d, t, taken) /\ UNCHANGED mishap
  <2>1. cred[d] \in Key
    BY <1>3 DEF Inv, TypeOK
  <2>2. PICK k \in Key : k = cred[d]
    BY <2>1
  <2>3. [q EXCEPT !.pc = "push", !.key = k] \in Task
    BY DEF Task, PCs
  <2>4. PICK r \in Task : r = [q EXCEPT !.pc = "push", !.key = k]
    BY <2>3
  <2>5. TaskOK(d, r)'
    BY <1>1, <1>2, <1>3, <2>1, <2>4 DEF Grows, Task, TaskOK, LocalsOK, DeviceOK, StoredOK, HasStored, DeliveryOK
  <2> QED BY <1>1, <1>2, <1>3, <2>2, <2>4, <2>5, TaskStepPreserves
<1>4. CASE /\ Goto(d, t, "fetch")
           /\ Note(d, IF cred[d] = None THEN {} ELSE {"unread"})
  <2>0. StoresOK' /\ Grows /\ \A e \in Devices : DaemonOK(e)'
    BY <1>2, <1>4 DEF Mishaps
  <2>1. [q EXCEPT !.pc = "fetch"] \in Task
    BY DEF Task, PCs
  <2>2. PICK r \in Task : r = [q EXCEPT !.pc = "fetch"]
    BY <2>1
  <2>3. TaskOK(d, r)'
    BY <1>1, <2>0, <2>2 DEF Grows, Task, TaskOK, LocalsOK, DeviceOK, StoredOK, HasStored, DeliveryOK
  <2> QED BY <1>1, <1>4, <2>0, <2>2, <2>3, TaskStepPreserves DEF Goto
<1> QED BY <1>3, <1>4 DEF LoadPnk

LEMMA FetchWrappedPnksPreserves ==
  ASSUME Inv, NEW d \in Devices, NEW t \in Tasks, FetchWrappedPnks(d, t)
  PROVE  Inv'
<1>1. PICK q \in Task : q = task[d][t] /\ TaskOK(d, q) /\ q.pc = "fetch"
  BY Current DEF FetchWrappedPnks, At
<1>2. StoresOK' /\ Grows /\ \A e \in Devices : DaemonOK(e)'
  BY DEF FetchWrappedPnks, Inv, TypeOK, StoresOK, Grows, DaemonOK, HasStored
<1>3. CASE Finish(d, t)
  BY <1>2, <1>3, FinishPreserves
<1>4. CASE q.op = "login" /\ Goto(d, t, "generate")
  <2>1. [q EXCEPT !.pc = "generate"] \in Task
    BY DEF Task, PCs
  <2>2. PICK r \in Task : r = [q EXCEPT !.pc = "generate"]
    BY <2>1
  <2>3. TaskOK(d, r)'
    BY <1>1, <1>2, <1>4, <2>2 DEF Grows, Task, TaskOK, LocalsOK, DeviceOK, StoredOK, HasStored, DeliveryOK
  <2> QED BY <1>1, <1>2, <1>4, <2>2, <2>3, TaskStepPreserves DEF Goto
<1>5. ASSUME NEW row \in Latest(q.device),
             Become(d, t, [q EXCEPT !.pc = "unwrap", !.row = row])
      PROVE  Inv'
  <2>1. row \in BrokerRow
    BY DEF Latest, Inv, TypeOK
  <2>2. [q EXCEPT !.pc = "unwrap", !.row = row] \in Task
    BY <2>1 DEF Task, PCs
  <2>3. PICK r \in Task : r = [q EXCEPT !.pc = "unwrap", !.row = row]
    BY <2>2
  <2>4. TaskOK(d, r)'
    BY <1>1, <1>2, <2>1, <2>3 DEF Grows, Task, TaskOK, LocalsOK, DeviceOK, StoredOK, HasStored, DeliveryOK
  <2> QED BY <1>2, <1>5, <2>3, <2>4, TaskStepPreserves
<1> QED BY <1>1, <1>3, <1>4, <1>5 DEF FetchWrappedPnks

LEMMA UnwrapPnkPreserves ==
  ASSUME Inv, NEW d \in Devices, NEW t \in Tasks, UnwrapPnk(d, t)
  PROVE  Inv'
<1>1. PICK q \in Task : q = task[d][t] /\ TaskOK(d, q) /\ q.pc = "unwrap"
  BY Current DEF UnwrapPnk, At
<1>2. CASE ~OpensWithOwn(q.row.wrapped, daemon[d].hik)
  <2>1. Finish(d, t) /\ UNCHANGED <<daemon, cred, rows, keyBroker, made, mishap>>
    BY <1>1, <1>2 DEF UnwrapPnk
  <2>2. StoresOK' /\ Grows /\ \A e \in Devices : DaemonOK(e)'
    BY <2>1 DEF Inv, TypeOK, StoresOK, Grows, DaemonOK, HasStored
  <2> QED BY <2>1, <2>2, FinishPreserves
<1>3. CASE OpensWithOwn(q.row.wrapped, daemon[d].hik)
  <2>1. PICK k \in Key, v \in Nat :
          /\ k = q.row.wrapped.key
          /\ v = IF q.op = "sync" THEN q.row.version ELSE q.version
    BY <1>1 DEF Task, TaskOK, LocalsOK, BrokerRow, Wrapped
  <2>2. /\ Become(d, t, [q EXCEPT !.pc = "push", !.key = k, !.version = v, !.row = None])
        /\ IF q.op = "login" THEN StorePnk(d, k) ELSE UNCHANGED <<cred, mishap>>
        /\ UNCHANGED <<daemon, rows, keyBroker, made>>
    BY <1>1, <1>3, <2>1 DEF UnwrapPnk, Task
  <2>0. /\ cred' \in [Devices -> Key \cup {None}]
        /\ mishap' \in [Devices -> SUBSET Mishaps]
        /\ q.op = "login" => HasStored(d)'
        /\ \A e \in Devices : HasStored(e) => HasStored(e)'
    BY <2>2, StorePnkStores DEF Inv, TypeOK, HasStored
  <2>3. StoresOK' /\ Grows /\ \A e \in Devices : DaemonOK(e)'
    BY <2>2, <2>0 DEF Inv, TypeOK, StoresOK, Grows, DaemonOK, HasStored
  <2>4. [q EXCEPT !.pc = "push", !.key = k, !.version = v, !.row = None] \in Task
    BY DEF Task, PCs
  <2>5. PICK r \in Task :
          r = [q EXCEPT !.pc = "push", !.key = k, !.version = v, !.row = None]
    BY <2>4
  <2>6. r.op = "login" => HasStored(d)'
    BY <2>0, <2>5 DEF Task
  <2>7. TaskOK(d, r)'
    BY <1>1, <2>3, <2>5, <2>6
    DEF Grows, Task, TaskOK, LocalsOK, DeviceOK, StoredOK, HasStored, DeliveryOK
  <2> QED BY <2>2, <2>3, <2>5, <2>7, TaskStepPreserves
<1> QED BY <1>2, <1>3

LEMMA GeneratePnkPreserves ==
  ASSUME Inv, NEW d \in Devices, NEW t \in Tasks, GeneratePnk(d, t)
  PROVE  Inv'
<1>1. PICK q \in Task : /\ q = task[d][t] /\ TaskOK(d, q) /\ q.pc = "generate"
                        /\ q.op = "login" /\ q.user \in Users
  BY Current DEF GeneratePnk, At, TaskOK, LocalsOK
<1>2. PICK h \in Hik : h = daemon[d].hik
  BY DaemonTyped DEF Daemon
<1>3. PICK k \in Key : k = FreshKey(q.user)
  BY <1>1, FreshKeyTyped
<1>4. /\ Become(d, t, [q EXCEPT !.pc = "list", !.key = k, !.version = 1, !.hik = h])
      /\ StorePnk(d, k)
      /\ made' = made + 1
      /\ UNCHANGED <<daemon, rows, keyBroker>>
  BY <1>1, <1>2, <1>3 DEF GeneratePnk
<1>8. /\ cred' \in [Devices -> Key \cup {None}]
      /\ mishap' \in [Devices -> SUBSET Mishaps]
      /\ HasStored(d)'
      /\ \A e \in Devices : HasStored(e) => HasStored(e)'
  BY <1>4, StorePnkStores
<1>5. StoresOK' /\ Grows /\ \A e \in Devices : DaemonOK(e)'
  BY <1>4, <1>8 DEF Inv, TypeOK, StoresOK, Grows, DaemonOK, HasStored
<1>6. [q EXCEPT !.pc = "list", !.key = k, !.version = 1, !.hik = h] \in Task
  BY DEF Task, PCs
<1>7. PICK r \in Task : r = [q EXCEPT !.pc = "list", !.key = k, !.version = 1, !.hik = h]
  BY <1>6
<1>9. TaskOK(d, r)'
  BY <1>1, <1>5, <1>7, <1>8 DEF Grows, Task, TaskOK, LocalsOK, DeviceOK, StoredOK, HasStored, DeliveryOK
<1> QED BY <1>4, <1>5, <1>7, <1>9, TaskStepPreserves

LEMMA AdoptLoginPreserves ==
  ASSUME Inv, NEW d \in Devices, NEW t \in Tasks, AdoptLogin(d, t)
  PROVE  Inv'
<1>1. PICK q \in Task : /\ q = task[d][t] /\ TaskOK(d, q)
                        /\ q.pc = "push" /\ q.op = "login"
  BY Current DEF AdoptLogin, At
<1>2. /\ q.key \in Key /\ q.device \in RowIds
      /\ HasStored(d) /\ rows[q.device] \in DeviceRow
  BY <1>1 DEF TaskOK, LocalsOK, DeviceOK, StoredOK, HasStored
<1>3. StoresOK' /\ Grows
  BY <1>1, <1>2 DEF AdoptLogin, Inv, TypeOK, StoresOK, Grows, HasStored, Daemon
<1>4. \A e \in Devices : DaemonOK(e)'
  BY <1>1, <1>2 DEF AdoptLogin, Inv, TypeOK, Daemon, DaemonOK, HasStored
<1> QED BY <1>3, <1>4, FinishPreserves DEF AdoptLogin

LEMMA GetDevicesPreserves ==
  ASSUME Inv, NEW d \in Devices, NEW t \in Tasks, GetDevices(d, t)
  PROVE  Inv'
<1>1. PICK q \in Task : q = task[d][t] /\ TaskOK(d, q) /\ q.pc = "list"
  BY Current DEF GetDevices, At
<1>2. StoresOK' /\ Grows /\ \A e \in Devices : DaemonOK(e)'
  BY DEF GetDevices, Inv, TypeOK, StoresOK, Grows, DaemonOK, HasStored
<1>3. CASE Finish(d, t)
  BY <1>2, <1>3, FinishPreserves
<1>4. CASE Goto(d, t, "push") /\ q.op = "login"
  <2>1. [q EXCEPT !.pc = "push"] \in Task
    BY DEF Task, PCs
  <2>2. PICK r \in Task : r = [q EXCEPT !.pc = "push"]
    BY <2>1
  <2>3. TaskOK(d, r)'
    BY <1>1, <1>2, <1>4, <2>2 DEF Grows, Task, TaskOK, LocalsOK, DeviceOK, StoredOK, HasStored, DeliveryOK
  <2> QED BY <1>1, <1>2, <1>4, <2>2, <2>3, TaskStepPreserves DEF Goto
<1>5. CASE Become(d, t, [q EXCEPT !.pc = "push", !.targets = DevicesOf(q.user),
                                  !.todo = DevicesOf(q.user)])
  <2>1. PICK T \in SUBSET Target : T = DevicesOf(q.user)
    BY DevicesTyped
  <2>2. [q EXCEPT !.pc = "push", !.targets = T, !.todo = T] \in Task
    BY DEF Task, PCs
  <2>3. PICK r \in Task : r = [q EXCEPT !.pc = "push", !.targets = T, !.todo = T]
    BY <2>2
  <2>4. TaskOK(d, r)'
    BY <1>1, <1>2, <2>3 DEF Grows, Task, TaskOK, LocalsOK, DeviceOK, StoredOK, HasStored, DeliveryOK
  <2> QED BY <1>2, <1>5, <2>1, <2>3, <2>4, TaskStepPreserves
<1> QED BY <1>1, <1>3, <1>4, <1>5 DEF GetDevices

LEMMA PushWrappedPnkPreserves ==
  ASSUME Inv, NEW d \in Devices, NEW t \in Tasks, PushWrappedPnk(d, t)
  PROVE  Inv'
<1>1. PICK q \in Task : q = task[d][t] /\ TaskOK(d, q) /\ q.pc = "push"
  BY Current DEF PushWrappedPnk, At
<1>2. PICK x \in q.todo, outcome \in Outcomes :
        /\ keyBroker' =
             IF Applied(outcome)
               THEN keyBroker \cup {[target |-> x.id, version |-> q.version,
                                     wrapped |-> Wrap(q.key, x.hik, q.hik)]}
               ELSE keyBroker
        /\ Become(d, t, [q EXCEPT !.todo = @ \ {x}, !.failed = @ \/ outcome # "ok"])
  BY <1>1 DEF PushWrappedPnk
<1>3. x \in Target /\ q.key \in Key /\ q.hik \in Hik
  BY <1>1, <1>2 DEF Task, TaskOK, LocalsOK
<1>4. Wrap(q.key, x.hik, q.hik) \in Wrapped /\ x.hik \in Wrap(q.key, x.hik, q.hik).shared
  BY <1>3 DEF Wrap, DiffieHellman, Wrapped, Target
<1>5. [target |-> x.id, version |-> q.version, wrapped |-> Wrap(q.key, x.hik, q.hik)]
        \in BrokerRow
  BY <1>3, <1>4 DEF BrokerRow, Target, Task
<1>6. StoresOK' /\ Grows /\ \A e \in Devices : DaemonOK(e)'
  BY <1>2, <1>5 DEF PushWrappedPnk, Inv, TypeOK, StoresOK, Grows, DaemonOK, HasStored
<1>7. [q EXCEPT !.todo = @ \ {x}, !.failed = @ \/ outcome # "ok"] \in Task
  BY DEF Task
<1>8. PICK r \in Task : r = [q EXCEPT !.todo = @ \ {x}, !.failed = @ \/ outcome # "ok"]
  BY <1>7
<1>9. LocalsOK(r)' /\ DeviceOK(r)' /\ StoredOK(d, r)'
  BY <1>1, <1>3, <1>6, <1>8 DEF Grows, Task, TaskOK, LocalsOK, DeviceOK, StoredOK, HasStored
<1>10. ASSUME q.op = "rotate", ~r.failed, NEW y \in r.targets
       PROVE  y \in r.todo \/ Delivered(y, r.key, r.version)'
  <2>1. ~q.failed /\ outcome = "ok" /\ y \in q.targets
    BY <1>8, <1>10 DEF Task
  <2>2. CASE y = x
    <3>1. [target |-> x.id, version |-> q.version, wrapped |-> Wrap(q.key, x.hik, q.hik)]
            \in keyBroker'
      BY <1>2, <2>1 DEF Applied
    <3>2. Delivered(x, q.key, q.version)'
      BY <3>1, <1>4 DEF Delivered, Wrap
    <3> QED BY <3>2, <2>2, <1>8 DEF Task
  <2>3. CASE y # x
    <3>1. y \in q.todo \/ Delivered(y, q.key, q.version)
      BY <1>1, <1>10, <2>1 DEF TaskOK, DeliveryOK
    <3> QED BY <3>1, <1>6, <1>8, <2>3 DEF Delivered, Grows, Task
  <2> QED BY <2>2, <2>3
<1>11. DeliveryOK(r)'
  BY <1>8, <1>10 DEF DeliveryOK, Task
<1>12. TaskOK(d, r)'
  BY <1>9, <1>11 DEF TaskOK
<1> QED BY <1>2, <1>6, <1>8, <1>12, TaskStepPreserves

LEMMA RotatePnkPreserves ==
  ASSUME Inv, NEW d \in Devices, NEW t \in Tasks, RotatePnk(d, t)
  PROVE  Inv'
<1>0. daemon[d].user \in Users /\ daemon[d].version \in Nat /\ daemon[d].hik \in Hik
  BY DaemonTyped DEF RotatePnk, Daemon
<1>1. PICK u \in Users, v \in Nat, h \in Hik :
        u = daemon[d].user /\ v = daemon[d].version + 1 /\ h = daemon[d].hik
  <2>1. daemon[d].version + 1 \in Nat
    BY <1>0
  <2> QED BY <1>0, <2>1
<1>2. PICK k \in Key : k = FreshKey(u)
  BY FreshKeyTyped
<1> DEFINE new == [Idle EXCEPT !.pc = "list", !.op = "rotate", !.user = u, !.key = k,
                               !.version = v, !.hik = h]
<1>3. new \in Task
  BY IdleOK DEF Idle, Task, PCs
<1>4. PICK r \in Task : r = new
  BY <1>3
<1>5. TaskOK(d, r)'
  BY <1>4 DEF Idle, TaskOK, LocalsOK, DeviceOK, StoredOK, HasStored, DeliveryOK
<1>6. StoresOK' /\ Grows /\ \A e \in Devices : DaemonOK(e)'
  BY DEF RotatePnk, Inv, TypeOK, StoresOK, Grows, DaemonOK, HasStored
<1> QED BY <1>1, <1>2, <1>4, <1>5, <1>6, TaskStepPreserves DEF RotatePnk

LEMMA AbandonRotationPreserves ==
  ASSUME Inv, NEW d \in Devices, NEW t \in Tasks, AbandonRotation(d, t)
  PROVE  Inv'
<1>1. StoresOK' /\ Grows /\ \A e \in Devices : DaemonOK(e)'
  BY DEF AbandonRotation, Inv, TypeOK, StoresOK, Grows, DaemonOK, HasStored
<1> QED BY <1>1, FinishPreserves DEF AbandonRotation

LEMMA AdoptRotationPreserves ==
  ASSUME Inv, NEW d \in Devices, NEW t \in Tasks, AdoptRotation(d, t)
  PROVE  Inv'
<1>1. PICK q \in Task : q = task[d][t] /\ TaskOK(d, q) /\ q.pc = "push"
  BY Current DEF AdoptRotation, At
<1>2. q.key \in Key /\ q.version \in Nat
  BY <1>1 DEF Task, TaskOK, LocalsOK
<1>3. StoresOK' /\ Grows
  BY <1>1, <1>2 DEF AdoptRotation, Inv, TypeOK, StoresOK, Grows, HasStored, Daemon
<1>4. \A e \in Devices : DaemonOK(e)'
  BY <1>1, <1>2 DEF AdoptRotation, Inv, TypeOK, Daemon, DaemonOK, HasStored
<1> QED BY <1>3, <1>4, FinishPreserves DEF AdoptRotation

LEMMA SyncKeysPreserves ==
  ASSUME Inv, NEW d \in Devices, NEW t \in Tasks, SyncKeys(d, t)
  PROVE  Inv'
<1>1. PICK i \in RowIds : i = daemon[d].device
  BY DaemonTyped DEF SyncKeys, Daemon
<1>2. [Idle EXCEPT !.pc = "fetch", !.op = "sync", !.device = i] \in Task
  BY IdleOK DEF Idle, Task, PCs
<1>3. PICK r \in Task : r = [Idle EXCEPT !.pc = "fetch", !.op = "sync", !.device = i]
  BY <1>2
<1>4. TaskOK(d, r)'
  BY <1>3 DEF Idle, TaskOK, LocalsOK, DeviceOK, StoredOK, HasStored, DeliveryOK
<1>5. StoresOK' /\ Grows /\ \A e \in Devices : DaemonOK(e)'
  BY DEF SyncKeys, Inv, TypeOK, StoresOK, Grows, DaemonOK, HasStored
<1> QED BY <1>1, <1>3, <1>4, <1>5, TaskStepPreserves DEF SyncKeys

LEMMA AdoptSyncPreserves ==
  ASSUME Inv, NEW d \in Devices, NEW t \in Tasks, AdoptSync(d, t)
  PROVE  Inv'
<1>1. PICK q \in Task : q = task[d][t] /\ TaskOK(d, q) /\ q.pc = "push"
  BY Current DEF AdoptSync, At
<1>2. q.key \in Key /\ q.version \in Nat
  BY <1>1 DEF Task, TaskOK, LocalsOK
<1>3. StoresOK' /\ Grows
  BY <1>1, <1>2 DEF AdoptSync, Inv, TypeOK, StoresOK, Grows, HasStored, Daemon
<1>4. \A e \in Devices : DaemonOK(e)'
  BY <1>1, <1>2 DEF AdoptSync, Inv, TypeOK, Daemon, DaemonOK, HasStored
<1> QED BY <1>3, <1>4, FinishPreserves DEF AdoptSync

LEMMA RotateHikPreserves ==
  ASSUME Inv, NEW d \in Devices, NEW t \in Tasks, RotateHik(d, t)
  PROVE  Inv'
<1>1. PICK u \in Users : u = daemon[d].user
  BY DaemonTyped DEF RotateHik, Daemon
<1>2. [Idle EXCEPT !.pc = "rotate", !.op = "rewrap", !.user = u] \in Task
  BY IdleOK DEF Idle, Task, PCs
<1>3. PICK r \in Task : r = [Idle EXCEPT !.pc = "rotate", !.op = "rewrap", !.user = u]
  BY <1>2
<1>4. TaskOK(d, r)'
  BY <1>3 DEF Idle, TaskOK, LocalsOK, DeviceOK, StoredOK, HasStored, DeliveryOK
<1>5. /\ mishap' \in [Devices -> SUBSET Mishaps]
      /\ \A e \in Devices : mishap[e] \subseteq mishap'[e]
  BY NoteKeeps DEF RotateHik, Mishaps
<1>6. StoresOK' /\ Grows /\ \A e \in Devices : DaemonOK(e)'
  BY <1>5 DEF RotateHik, Inv, TypeOK, StoresOK, Grows, DaemonOK, HasStored
<1> QED BY <1>1, <1>3, <1>4, <1>6, TaskStepPreserves DEF RotateHik

LEMMA RotateIdentityPreserves ==
  ASSUME Inv, NEW d \in Devices, NEW t \in Tasks, RotateIdentity(d, t)
  PROVE  Inv'
<1>1. PICK q \in Task : q = task[d][t] /\ TaskOK(d, q) /\ q.pc = "rotate"
  BY Current DEF RotateIdentity, At
<1>2. PICK h \in Hik : h = [dev |-> d, gen |-> daemon[d].hik.gen + 1]
  <2>1. daemon[d].hik.gen \in Nat
    BY DaemonTyped DEF Daemon, Hik
  <2>2. [dev |-> d, gen |-> daemon[d].hik.gen + 1] \in Hik
    BY <2>1 DEF Hik
  <2> QED BY <2>2
<1>3. /\ daemon' = [daemon EXCEPT ![d].hik = h]
      /\ Become(d, t, [q EXCEPT !.pc = "export", !.hik = h])
      /\ UNCHANGED <<cred, rows, keyBroker, made, mishap>>
  BY <1>1, <1>2 DEF RotateIdentity
<1>4. StoresOK' /\ Grows /\ \A e \in Devices : DaemonOK(e)'
  BY <1>3 DEF Inv, TypeOK, StoresOK, Grows, Daemon, DaemonOK, HasStored
<1>5. [q EXCEPT !.pc = "export", !.hik = h] \in Task
  BY DEF Task, PCs
<1>6. PICK r \in Task : r = [q EXCEPT !.pc = "export", !.hik = h]
  BY <1>5
<1>7. TaskOK(d, r)'
  BY <1>1, <1>4, <1>6 DEF Grows, Task, TaskOK, LocalsOK, DeviceOK, StoredOK, HasStored, DeliveryOK
<1> QED BY <1>3, <1>4, <1>6, <1>7, TaskStepPreserves

LEMMA ExportNewHikPreserves ==
  ASSUME Inv, NEW d \in Devices, NEW t \in Tasks, ExportNewHik(d, t)
  PROVE  Inv'
<1>1. PICK q \in Task : q = task[d][t] /\ TaskOK(d, q) /\ q.pc = "export"
  BY Current DEF ExportNewHik, At
<1>2. PICK h \in Hik : h = daemon[d].hik
  BY DaemonTyped DEF Daemon
<1>3. [q EXCEPT !.pc = "device", !.pub = h] \in Task
  BY <1>2 DEF Task, PCs
<1>4. PICK r \in Task : r = [q EXCEPT !.pc = "device", !.pub = h]
  BY <1>3
<1>5. TaskOK(d, r)'
  BY <1>1, <1>2, <1>4 DEF ExportNewHik, Task, TaskOK, LocalsOK, DeviceOK, StoredOK, HasStored, DeliveryOK
<1>6. StoresOK' /\ Grows /\ \A e \in Devices : DaemonOK(e)'
  BY DEF ExportNewHik, Inv, TypeOK, StoresOK, Grows, DaemonOK, HasStored
<1> QED BY <1>1, <1>2, <1>4, <1>5, <1>6, TaskStepPreserves DEF ExportNewHik

LEMMA ReadDeviceIdPreserves ==
  ASSUME Inv, NEW d \in Devices, NEW t \in Tasks, ReadDeviceId(d, t)
  PROVE  Inv'
<1>1. PICK q \in Task : q = task[d][t] /\ TaskOK(d, q) /\ q.pc = "device"
  BY Current DEF ReadDeviceId, At
<1>2. StoresOK' /\ Grows /\ \A e \in Devices : DaemonOK(e)'
  BY DEF ReadDeviceId, Inv, TypeOK, StoresOK, Grows, DaemonOK, HasStored
<1>3. PICK i \in RowIds \cup {None} : i = daemon[d].device
  BY DaemonTyped DEF Daemon
<1>4. i # None => i \in RowIds /\ rows[i] \in DeviceRow
  BY <1>3, DaemonTyped DEF DaemonOK, HasStored
<1>5. PICK pc \in PCs : pc = IF i # None THEN "patch" ELSE "version"
  BY DEF PCs
<1>6. [q EXCEPT !.device = i, !.pc = pc] \in Task
  BY DEF Task
<1>7. PICK r \in Task : r = [q EXCEPT !.device = i, !.pc = pc]
  BY <1>6
<1>8. TaskOK(d, r)'
  BY <1>1, <1>2, <1>4, <1>5, <1>7
  DEF Grows, Task, TaskOK, LocalsOK, DeviceOK, StoredOK, HasStored, DeliveryOK
<1> QED BY <1>1, <1>2, <1>3, <1>5, <1>7, <1>8, TaskStepPreserves DEF ReadDeviceId

LEMMA UpdateDeviceHikPreserves ==
  ASSUME Inv, NEW d \in Devices, NEW t \in Tasks, UpdateDeviceHik(d, t)
  PROVE  Inv'
<1>1. PICK q \in Task : q = task[d][t] /\ TaskOK(d, q) /\ q.pc = "patch"
  BY Current DEF UpdateDeviceHik, At
<1>2. /\ q.device \in RowIds /\ rows[q.device] \in DeviceRow
      /\ q.pub \in Hik /\ q.op = "rewrap" /\ q.hik \in Hik
  BY <1>1 DEF TaskOK, LocalsOK, DeviceOK
<1>3. PICK row \in DeviceRow : row = [rows[q.device] EXCEPT !.hik = q.pub]
  BY <1>2 DEF DeviceRow
<1>4. PICK outcome \in Outcomes :
        /\ rows' = IF Applied(outcome) THEN [rows EXCEPT ![q.device] = row] ELSE rows
        /\ IF outcome = "ok" THEN Goto(d, t, "version") ELSE Finish(d, t)
        /\ Note(d, IF outcome = "ok" THEN {} ELSE {"unpatched"})
  BY <1>1, <1>2, <1>3 DEF UpdateDeviceHik, Inv, TypeOK
<1>0. /\ mishap' \in [Devices -> SUBSET Mishaps]
      /\ \A e \in Devices : mishap[e] \subseteq mishap'[e]
  BY <1>4, NoteKeeps DEF Mishaps
<1>5. StoresOK' /\ Grows /\ \A e \in Devices : DaemonOK(e)'
  BY <1>2, <1>4, <1>0 DEF UpdateDeviceHik, Inv, TypeOK, StoresOK, Grows, Daemon, DaemonOK, HasStored
<1>6. CASE outcome # "ok"
  BY <1>4, <1>5, <1>6, FinishPreserves
<1>7. CASE outcome = "ok"
  <2>1. [q EXCEPT !.pc = "version"] \in Task
    BY DEF Task, PCs
  <2>2. PICK r \in Task : r = [q EXCEPT !.pc = "version"]
    BY <2>1
  <2>3. TaskOK(d, r)'
    BY <1>1, <1>2, <2>2 DEF Task, TaskOK, LocalsOK, DeviceOK, StoredOK, HasStored, DeliveryOK
  <2> QED BY <1>1, <1>4, <1>5, <1>7, <2>2, <2>3, TaskStepPreserves DEF Goto
<1> QED BY <1>6, <1>7

LEMMA ReadVersionPreserves ==
  ASSUME Inv, NEW d \in Devices, NEW t \in Tasks, ReadVersion(d, t)
  PROVE  Inv'
<1>1. PICK q \in Task : q = task[d][t] /\ TaskOK(d, q) /\ q.pc = "version"
  BY Current DEF ReadVersion, At
<1>2. PICK v \in Nat : v = daemon[d].version
  BY DaemonTyped DEF Daemon
<1>3. [q EXCEPT !.pc = "pnk", !.version = v, !.pub = None, !.device = None] \in Task
  BY <1>2 DEF Task, PCs
<1>4. PICK r \in Task : r = [q EXCEPT !.pc = "pnk", !.version = v, !.pub = None, !.device = None]
  BY <1>3
<1>5. TaskOK(d, r)'
  BY <1>1, <1>2, <1>4 DEF ReadVersion, Task, TaskOK, LocalsOK, DeviceOK, StoredOK, HasStored, DeliveryOK
<1>6. StoresOK' /\ Grows /\ \A e \in Devices : DaemonOK(e)'
  BY DEF ReadVersion, Inv, TypeOK, StoresOK, Grows, DaemonOK, HasStored
<1> QED BY <1>1, <1>2, <1>4, <1>5, <1>6, TaskStepPreserves DEF ReadVersion

LEMMA ReadPnkPreserves ==
  ASSUME Inv, NEW d \in Devices, NEW t \in Tasks, ReadPnk(d, t)
  PROVE  Inv'
<1>1. PICK q \in Task : q = task[d][t] /\ TaskOK(d, q) /\ q.pc = "pnk"
  BY Current DEF ReadPnk, At
<1>2. StoresOK' /\ Grows /\ \A e \in Devices : DaemonOK(e)'
  BY DEF ReadPnk, Inv, TypeOK, StoresOK, Grows, DaemonOK, HasStored
<1>3. CASE daemon[d].pnk = None
  BY <1>2, <1>3, FinishPreserves DEF ReadPnk
<1>4. CASE daemon[d].pnk # None
  <2>1. PICK k \in Key : k = daemon[d].pnk
    BY <1>4, DaemonTyped DEF Daemon
  <2>2. [q EXCEPT !.pc = "list", !.key = k] \in Task
    BY DEF Task, PCs
  <2>3. PICK r \in Task : r = [q EXCEPT !.pc = "list", !.key = k]
    BY <2>2
  <2>4. TaskOK(d, r)'
    BY <1>1, <2>3 DEF Task, TaskOK, LocalsOK, DeviceOK, StoredOK, HasStored, DeliveryOK
  <2> QED BY <1>1, <1>2, <1>4, <2>1, <2>3, <2>4, TaskStepPreserves DEF ReadPnk
<1> QED BY <1>3, <1>4

LEMMA RewrapDonePreserves ==
  ASSUME Inv, NEW d \in Devices, NEW t \in Tasks, RewrapDone(d, t)
  PROVE  Inv'
<1>1. StoresOK' /\ Grows /\ \A e \in Devices : DaemonOK(e)'
  BY DEF RewrapDone, Inv, TypeOK, StoresOK, Grows, DaemonOK, HasStored
<1> QED BY <1>1, FinishPreserves DEF RewrapDone

LEMMA LogoutPreserves ==
  ASSUME Inv, NEW d \in Devices, NEW t \in Tasks, Logout(d, t)
  PROVE  Inv'
<1>1. PICK applied \in BOOLEAN :
        rows' = [i \in RowIds |->
                   IF applied /\ rows[i] # None /\ rows[i].hik = daemon[d].hik
                     THEN [rows[i] EXCEPT !.active = FALSE]
                     ELSE rows[i]]
  BY DEF Logout
<1>2. ASSUME NEW i \in RowIds
      PROVE  /\ rows'[i] \in DeviceRow \cup {None}
             /\ rows[i] \in DeviceRow => rows'[i] \in DeviceRow
  BY <1>1 DEF Inv, TypeOK, DeviceRow
<1>3. rows' \in [RowIds -> DeviceRow \cup {None}]
  BY <1>1, <1>2
<1>0. /\ mishap' \in [Devices -> SUBSET Mishaps]
      /\ \A e \in Devices : mishap[e] \subseteq mishap'[e]
  BY NoteKeeps DEF Logout, Mishaps
<1>4. Grows
  BY <1>2, <1>0 DEF Logout, Grows, HasStored
<1>5. [daemon[d] EXCEPT !.user = None, !.pnk = None, !.device = None] \in Daemon
  BY DaemonTyped DEF Daemon
<1>6. TypeOK'
  BY <1>3, <1>5, <1>0 DEF Logout, Inv, TypeOK
<1>7. ASSUME NEW e \in Devices PROVE DaemonOK(e)'
  BY <1>2, <1>0 DEF Logout, Inv, TypeOK, Daemon, DaemonOK, HasStored
<1>8. ASSUME NEW e \in Devices, NEW s \in Tasks PROVE TaskOK(e, task[e][s])'
  <2>1. PICK q \in Task : q = task[e][s] /\ TaskOK(e, q)
    BY Current
  <2>2. TaskOK(e, q)'
    BY <1>4, <2>1, Frame
  <2>3. task'[e][s] = q
    BY <2>1 DEF Logout
  <2> QED BY <2>2, <2>3 DEF TaskOK, LocalsOK, DeviceOK, StoredOK, HasStored, DeliveryOK
<1> QED BY <1>6, <1>7, <1>8 DEF Inv

LEMMA StartNetSyncPreserves ==
  ASSUME Inv, NEW d \in Devices, NEW t \in Tasks, StartNetSync(d, t)
  PROVE  Inv'
<1>1. PICK u \in Users, h \in Hik : u = daemon[d].user /\ h = daemon[d].hik
  BY DaemonTyped DEF StartNetSync, Daemon
<1>2. [Idle EXCEPT !.pc = "nk", !.op = "netsync", !.user = u, !.hik = h] \in Task
  BY IdleOK DEF Idle, Task, PCs
<1>3. PICK r \in Task :
        r = [Idle EXCEPT !.pc = "nk", !.op = "netsync", !.user = u, !.hik = h]
  BY <1>2
<1>4. TaskOK(d, r)'
  BY <1>3 DEF Idle, TaskOK, LocalsOK, DeviceOK, StoredOK, HasStored, DeliveryOK
<1>5. StoresOK' /\ Grows /\ \A e \in Devices : DaemonOK(e)'
  BY DEF StartNetSync, Inv, TypeOK, StoresOK, Grows, DaemonOK, HasStored
<1> QED BY <1>1, <1>3, <1>4, <1>5, TaskStepPreserves DEF StartNetSync

LEMMA PushNetworkKeyPreserves ==
  ASSUME Inv, NEW d \in Devices, NEW t \in Tasks, PushNetworkKey(d, t)
  PROVE  Inv'
<1>1. PICK q \in Task : q = task[d][t] /\ TaskOK(d, q) /\ q.pc = "nk"
  BY Current DEF PushNetworkKey, At
<1>2. q.user \in Users /\ q.hik \in Hik
  BY <1>1 DEF TaskOK, LocalsOK
<1>3. PICK i \in RowIds, v \in 1..MaxNkVersion, outcome \in Outcomes :
        /\ rows[i] # None
        /\ keyBroker' =
             IF Applied(outcome)
               THEN keyBroker \cup
                      {[target |-> i, version |-> v,
                        wrapped |-> Wrap(NetworkKey(q.user), rows[i].hik, q.hik)]}
               ELSE keyBroker
  BY <1>1 DEF PushNetworkKey
<1>4. NetworkKey(q.user) \in Key
  BY <1>2 DEF NetworkKey, Key
<1>5. rows[i].hik \in Hik /\ v \in Nat
  BY <1>3 DEF Inv, TypeOK, DeviceRow
<1>6. Wrap(NetworkKey(q.user), rows[i].hik, q.hik) \in Wrapped
  BY <1>2, <1>4, <1>5 DEF Wrap, DiffieHellman, Wrapped
<1>7. [target |-> i, version |-> v,
       wrapped |-> Wrap(NetworkKey(q.user), rows[i].hik, q.hik)] \in BrokerRow
  BY <1>5, <1>6 DEF BrokerRow
<1>8. UNCHANGED <<daemon, cred, rows, task, made, mishap>>
  BY DEF PushNetworkKey
<1>9. Grows /\ keyBroker' \subseteq BrokerRow
  BY <1>3, <1>7, <1>8 DEF Inv, TypeOK, Grows, HasStored
<1>10. TypeOK'
  BY <1>8, <1>9 DEF Inv, TypeOK
<1>11. ASSUME NEW e \in Devices  PROVE DaemonOK(e)'
  BY <1>8 DEF Inv, DaemonOK, HasStored
<1>12. ASSUME NEW e \in Devices, NEW s \in Tasks  PROVE TaskOK(e, task[e][s])'
  <2>1. PICK p \in Task : p = task[e][s] /\ TaskOK(e, p)
    BY Current
  <2>2. TaskOK(e, p)'
    BY <1>9, <2>1, Frame
  <2>3. task'[e][s] = p
    BY <1>8, <2>1
  <2> QED BY <2>2, <2>3 DEF TaskOK, LocalsOK, DeviceOK, StoredOK, HasStored, DeliveryOK
<1> QED BY <1>10, <1>11, <1>12 DEF Inv

LEMMA NetSyncDonePreserves ==
  ASSUME Inv, NEW d \in Devices, NEW t \in Tasks, NetSyncDone(d, t)
  PROVE  Inv'
<1>1. StoresOK' /\ Grows /\ \A e \in Devices : DaemonOK(e)'
  BY DEF NetSyncDone, Inv, TypeOK, StoresOK, Grows, DaemonOK, HasStored
<1> QED BY <1>1, FinishPreserves DEF NetSyncDone

LEMMA RestartPreserves ==
  ASSUME Inv, NEW d \in Devices, Restart(d)
  PROVE  Inv'
<1>1. Grows
  BY DEF Restart, Grows, HasStored
<1>2. Started(daemon[d].hik) \in Daemon
  BY DaemonTyped DEF Started, Daemon
<1>3. TypeOK'
  BY <1>2, IdleOK DEF Restart, Inv, TypeOK
<1>4. ASSUME NEW e \in Devices PROVE DaemonOK(e)'
  BY DEF Restart, Inv, TypeOK, Started, DaemonOK, HasStored
<1>5. ASSUME NEW e \in Devices, NEW s \in Tasks PROVE TaskOK(e, task[e][s])'
  <2>1. PICK q \in Task : q = task'[e][s] /\ TaskOK(e, q)
    BY Current, IdleOK DEF Restart, Inv, TypeOK
  <2>2. TaskOK(e, q)'
    BY <1>1, <2>1, Frame
  <2> QED BY <2>1, <2>2 DEF TaskOK, LocalsOK, DeviceOK, StoredOK, HasStored, DeliveryOK
<1> QED BY <1>3, <1>4, <1>5 DEF Inv

-----------------------------------------------------------------------------
(* The theorems.                                                           *)

LEMMA InitInv == Init => Inv
<1> SUFFICES ASSUME Init PROVE Inv
  OBVIOUS
<1>1. TypeOK
  BY IdleOK DEF Init, TypeOK, Started, Daemon, Hik
<1>2. ASSUME NEW d \in Devices, NEW t \in Tasks PROVE TaskOK(d, task[d][t])
  BY IdleOK DEF Init
<1>3. ASSUME NEW d \in Devices PROVE DaemonOK(d)
  BY DEF Init, Started, DaemonOK, HasStored
<1> QED BY <1>1, <1>2, <1>3 DEF Inv

LEMMA NextInv == Inv /\ [Next]_vars => Inv'
<1> SUFFICES ASSUME Inv, [Next]_vars PROVE Inv'
  OBVIOUS
<1>1. CASE UNCHANGED vars
  BY <1>1 DEF vars, Inv, TypeOK, TaskOK, LocalsOK, DeviceOK, StoredOK, HasStored, DeliveryOK,
              Delivered, DaemonOK, HasStored
<1>2. ASSUME NEW d \in Devices, NEW t \in Tasks, TaskStep(d, t) PROVE Inv'
  <2>1. CASE \E u \in Users : Login(d, t, u)
    BY <2>1, LoginPreserves
  <2>2. CASE ExportHik(d, t) \/ RegisterCheck(d, t) \/ RegisterWrite(d, t)
    BY <2>2, ExportHikPreserves, RegisterCheckPreserves, RegisterWritePreserves
  <2>3. CASE LoadPnk(d, t) \/ FetchWrappedPnks(d, t) \/ UnwrapPnk(d, t) \/ GeneratePnk(d, t)
    BY <2>3, LoadPnkPreserves, FetchWrappedPnksPreserves, UnwrapPnkPreserves,
       GeneratePnkPreserves
  <2>4. CASE GetDevices(d, t) \/ PushWrappedPnk(d, t) \/ AdoptLogin(d, t)
    BY <2>4, GetDevicesPreserves, PushWrappedPnkPreserves, AdoptLoginPreserves
  <2>5. CASE RotatePnk(d, t) \/ AbandonRotation(d, t) \/ AdoptRotation(d, t)
    BY <2>5, RotatePnkPreserves, AbandonRotationPreserves, AdoptRotationPreserves
  <2>6. CASE SyncKeys(d, t) \/ AdoptSync(d, t)
    BY <2>6, SyncKeysPreserves, AdoptSyncPreserves
  <2>7. CASE RotateHik(d, t) \/ RotateIdentity(d, t) \/ ExportNewHik(d, t) \/ ReadDeviceId(d, t)
    BY <2>7, RotateHikPreserves, RotateIdentityPreserves, ExportNewHikPreserves,
       ReadDeviceIdPreserves
  <2>8. CASE UpdateDeviceHik(d, t) \/ ReadVersion(d, t) \/ ReadPnk(d, t) \/ RewrapDone(d, t)
    BY <2>8, UpdateDeviceHikPreserves, ReadVersionPreserves, ReadPnkPreserves,
       RewrapDonePreserves
  <2>9. CASE Logout(d, t)
    BY <2>9, LogoutPreserves
  <2>10. CASE StartNetSync(d, t) \/ PushNetworkKey(d, t) \/ NetSyncDone(d, t)
    BY <2>10, StartNetSyncPreserves, PushNetworkKeyPreserves, NetSyncDonePreserves
  <2> QED BY <1>2, <2>1, <2>2, <2>3, <2>4, <2>5, <2>6, <2>7, <2>8, <2>9, <2>10 DEF TaskStep
<1>3. ASSUME NEW d \in Devices, Restart(d) PROVE Inv'
  BY <1>3, RestartPreserves
<1> QED BY <1>1, <1>2, <1>3 DEF Next

(* The invariant that the other theorems rest on.                          *)
THEOREM Invariance == Spec => []Inv
  BY InitInv, NextInv, PTL DEF Spec

(* Type correctness: every local of every request and every row of the     *)
(* broker's tables is what the code declares, at every step of a handler.  *)
THEOREM TypeCorrect == Spec => []TypeOK
<1>1. Inv => TypeOK
  BY DEF Inv
<1> QED BY <1>1, Invariance, PTL

(* A registered daemon has a PNK in memory, and one in the Credential      *)
(* Manager unless a store of it has failed, however logins, logouts,       *)
(* rotations and failures interleave.                                      *)
THEOREM RegisteredKeys == Spec => []RegisteredHasKeys
<1>1. Inv => RegisteredHasKeys
  BY NoneAssumption DEF Inv, DaemonOK, HasStored, RegisteredHasKeys
<1> QED BY <1>1, Invariance, PTL

(* RotatePnk takes its key over only when every listed device has a row    *)
(* that wraps it.                                                          *)
THEOREM RotationDelivers == Spec => RotationAllOrNothing
<1>1. ASSUME Inv, Next PROVE RotationStep
  <2> SUFFICES ASSUME NEW d \in Devices, NEW t \in Tasks,
                      task[d][t].op = "rotate", At(d, t, "idle")',
                      daemon'[d].pnk = task[d][t].key,
                      daemon'[d].pnk # daemon[d].pnk,
                      NEW x \in task[d][t].targets
               PROVE  Delivered(x, task[d][t].key, task[d][t].version)
    BY DEF RotationStep
  <2>1. /\ task[d][t].pc \in {"list", "push"} /\ task[d][t].key \in Key
        /\ task'[d][t] # task[d][t]
    BY <1>1, Current DEF At, TaskOK, LocalsOK
  <2>2. ASSUME NEW e \in Devices, Restart(e) PROVE FALSE
    BY <1>1, <2>1, <2>2, NoneAssumption DEF Restart, Started, Inv, TypeOK
  <2>3. ASSUME NEW e \in Devices, NEW s \in Tasks, TaskStep(e, s)
        PROVE  Delivered(x, task[d][t].key, task[d][t].version)
    <3>1. CASE AdoptRotation(e, s)
      <4>1. e = d /\ s = t
        BY <1>1, <2>1, <3>1 DEF AdoptRotation, Finish, Become, Inv, TypeOK
      <4>2. task[d][t].pc = "push" /\ task[d][t].todo = {} /\ ~task[d][t].failed
        BY <3>1, <4>1 DEF AdoptRotation, At
      <4> QED BY <1>1, <4>2, Current DEF TaskOK, DeliveryOK
    <3>2. CASE AdoptLogin(e, s) \/ AdoptSync(e, s)
      <4>1. e = d /\ s = t
        BY <1>1, <2>1, <3>2 DEF AdoptLogin, AdoptSync, Finish, Become, Inv, TypeOK
      <4> QED BY <3>2, <4>1 DEF AdoptLogin, AdoptSync
    <3>3. CASE Logout(e, s)
      BY <2>1, <3>3 DEF Logout
    <3>4. CASE (\E u \in Users : Login(e, s, u)) \/ RotateIdentity(e, s)
      <4>1. daemon \in [Devices -> Daemon]
        BY <1>1 DEF Inv, TypeOK
      <4>2. ASSUME NEW u \in Users, Login(e, s, u) PROVE FALSE
        BY <4>1, <4>2 DEF Login, Daemon
      <4>3. ASSUME RotateIdentity(e, s) PROVE FALSE
        BY <4>1, <4>3 DEF RotateIdentity, Daemon
      <4> QED BY <3>4, <4>2, <4>3
    <3>5. CASE daemon' = daemon
      BY <3>5
    <3>6. ExportHik(e, s) \/ RegisterCheck(e, s) \/ RegisterWrite(e, s)
          \/ LoadPnk(e, s) \/ FetchWrappedPnks(e, s) \/ UnwrapPnk(e, s)
          \/ GeneratePnk(e, s) => daemon' = daemon
      BY DEF ExportHik, RegisterCheck, RegisterWrite, LoadPnk, FetchWrappedPnks, UnwrapPnk,
             GeneratePnk
    <3>7. GetDevices(e, s) \/ PushWrappedPnk(e, s) \/ RotatePnk(e, s)
          \/ AbandonRotation(e, s) \/ SyncKeys(e, s) \/ RotateHik(e, s)
          => daemon' = daemon
      BY DEF GetDevices, PushWrappedPnk, RotatePnk, AbandonRotation, SyncKeys, RotateHik
    <3>8. ExportNewHik(e, s) \/ ReadDeviceId(e, s) \/ UpdateDeviceHik(e, s)
          \/ ReadVersion(e, s) \/ ReadPnk(e, s) \/ RewrapDone(e, s)
          => daemon' = daemon
      BY DEF ExportNewHik, ReadDeviceId, UpdateDeviceHik, ReadVersion, ReadPnk, RewrapDone
    <3>9. StartNetSync(e, s) \/ PushNetworkKey(e, s) \/ NetSyncDone(e, s)
          => daemon' = daemon
      BY DEF StartNetSync, PushNetworkKey, NetSyncDone
    <3> QED BY <2>3, <3>1, <3>2, <3>3, <3>4, <3>5, <3>6, <3>7, <3>8, <3>9 DEF TaskStep
  <2> QED BY <1>1, <2>2, <2>3 DEF Next
<1> QED BY <1>1, Invariance, PTL DEF Spec, RotationAllOrNothing

=============================================================================
