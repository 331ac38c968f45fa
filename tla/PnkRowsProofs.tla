---------------------------- MODULE PnkRowsProofs ----------------------------
(***************************************************************************)
(* Proofs about the device rows of PnkSession, for any machines, users,    *)
(* device ids and number of concurrent requests, whatever calls fail: no   *)
(* two rows carry one HIK, and the row of a registered daemon names its    *)
(* identity, each unless the machine has noted the mishap it is exposed to.*)
(***************************************************************************)
EXTENDS PnkSessionProofs

Mine(d) == {i \in RowIds : rows[i] # None /\ rows[i].hik.dev = d}

Updating(r) == r.pc \in {"rotate", "export", "device", "patch"}
Enrolled(r) ==
  r.op = "login" /\ r.pc \in {"load", "fetch", "unwrap", "generate", "list", "push"}

(* Whatever happens, a machine holds and writes rows of its own only.      *)
HeldBy(d, r) ==
  /\ r.pc \in {"check", "register", "device", "patch"} => r.pub.dev = d
  /\ (r.pc = "register" /\ r.device # None) => r.device \in Mine(d)
  /\ Enrolled(r) => r.device \in Mine(d)
  /\ r.pc = "patch" => r.device = daemon[d].device

Held(d) ==
  /\ daemon[d].hik.dev = d
  /\ daemon[d].device # None => daemon[d].device \in Mine(d)
  /\ \A t \in Tasks : HeldBy(d, task[d][t])

(* At most one request is between reading the identity and writing it to   *)
(* the table, and no login runs next to a RotateHik that is.               *)
Alone(d) ==
  \A t, s \in Tasks :
    (Registering(d, t) /\ s # t) =>
      ~Registering(d, s) /\ (Updating(task[d][t]) => ~LoggingIn(d, s))

(* Such a request knows the identity in use, and whether it has a row.     *)
Named(d, r) ==
  /\ r.pc \in {"check", "register", "device", "patch"} => r.pub = daemon[d].hik
  /\ (r.pc = "register" /\ r.device # None) => rows[r.device].hik = daemon[d].hik
  /\ (r.pc = "register" /\ r.device = None) => \A i \in Mine(d) : rows[i].hik # daemon[d].hik
  /\ r.pc \in {"export", "device", "patch"} => \A i \in Mine(d) : rows[i].hik # daemon[d].hik

Distinct(d) ==
  /\ \A i \in Mine(d) : rows[i].hik.gen <= daemon[d].hik.gen
  /\ \A i, j \in Mine(d) : rows[i].hik = rows[j].hik => i = j

Apart(d) ==
  "overlap" \notin mishap[d] =>
    Distinct(d) /\ Alone(d) /\ \A t \in Tasks : Named(d, task[d][t])

(* A row in use names the identity; RotateHik alone may leave it behind.   *)
UpToDate(d, i) == rows[i].hik = daemon[d].hik /\ rows[i].active

Follows(d) ==
  mishap[d] \cap {"overlap", "logout", "unpatched"} = {} =>
    /\ \A t \in Tasks : Enrolled(task[d][t]) => UpToDate(d, task[d][t].device)
    /\ daemon[d].device # None =>
         /\ rows[daemon[d].device].active
         /\ (\A t \in Tasks : ~Updating(task[d][t])) => UpToDate(d, daemon[d].device)

Own(d) == Held(d) /\ Apart(d) /\ Follows(d)

(* The inductive invariant, on top of Inv.                                 *)
RowsInv == \A d \in Devices : Own(d)
-----------------------------------------------------------------------------
(* Frame.                                                                  *)

(* A step of machine d leaves the rows of other machines alone, and keeps  *)
(* every row with the machine it belongs to.                               *)
OwnRowsOnly(d) ==
  \A i \in RowIds :
    /\ rows[i] # None => rows'[i] # None /\ rows'[i].hik.dev = rows[i].hik.dev
    /\ (rows'[i] # None /\ rows'[i].hik.dev # d) => rows'[i] = rows[i]

OthersSame(d) ==
  \A e \in Devices \ {d} :
    daemon'[e] = daemon[e] /\ task'[e] = task[e] /\ mishap'[e] = mishap[e]

(* A step that does nothing the invariant can see.                         *)
Lesser(q, r) ==
  \/ r = q
  \/ /\ ~Updating(q)
     /\ r.pc \notin {"hik", "check", "register", "rotate", "export", "device", "patch"}
     /\ r.op = "login" => q.op = "login"
     /\ Enrolled(r) => Enrolled(q) /\ r.device = q.device

Quiet(d) ==
  /\ rows' = rows
  /\ daemon'[d].hik = daemon[d].hik /\ daemon'[d].device = daemon[d].device
  /\ mishap[d] \subseteq mishap'[d]
  /\ \A t \in Tasks : Lesser(task[d][t], task'[d][t])

LEMMA MineTyped ==
  ASSUME Inv, NEW d \in Devices, NEW i \in Mine(d)
  PROVE  /\ i \in RowIds /\ rows[i] \in DeviceRow /\ rows[i] # None
         /\ rows[i].hik.dev = d /\ rows[i].hik.gen \in Nat
  BY DEF Mine, Inv, TypeOK, DeviceRow, Hik

LEMMA BecomeAt ==
  ASSUME Inv, NEW d \in Devices, NEW t \in Tasks, NEW r \in Task, Become(d, t, r)
  PROVE  /\ task'[d][t] = r
         /\ \A s \in Tasks : s # t => task'[d][s] = task[d][s]
  BY DEF Become, Inv, TypeOK

LEMMA ForeignStep ==
  ASSUME Inv, NEW d \in Devices, NEW e \in Devices \ {d}, OwnRowsOnly(d), OthersSame(d),
         Own(e)
  PROVE  Own(e)'
<1>1. daemon'[e] = daemon[e] /\ task'[e] = task[e] /\ mishap'[e] = mishap[e]
  BY DEF OthersSame
<1>2. \A i \in Mine(e) : rows'[i] = rows[i]
  BY MineTyped DEF OwnRowsOnly
<1>3. Mine(e)' = Mine(e)
  BY DEF OwnRowsOnly, Mine
<1>4. Held(e)'
  BY <1>1, <1>3 DEF Own, Held, HeldBy
<1>5. Apart(e)'
  <2>1. SUFFICES ASSUME "overlap" \notin mishap[e]
                 PROVE  (Distinct(e) /\ Alone(e) /\ \A t \in Tasks : Named(e, task[e][t]))'
    BY <1>1 DEF Apart
  <2>2. Distinct(e) /\ Alone(e) /\ \A t \in Tasks : Named(e, task[e][t])
    BY <2>1 DEF Own, Apart
  <2>3. Distinct(e)'
    BY <1>1, <1>2, <1>3, <2>2 DEF Distinct
  <2>4. Alone(e)'
    BY <1>1, <2>2 DEF Alone, Registering, LoggingIn
  <2>5. ASSUME NEW t \in Tasks PROVE Named(e, task[e][t])'
    BY <1>1, <1>2, <1>3, <2>2 DEF Named, Own, Held, HeldBy
  <2> QED BY <2>3, <2>4, <2>5
<1>6. Follows(e)'
  <2>1. ASSUME NEW i \in Mine(e) PROVE UpToDate(e, i)' <=> UpToDate(e, i)
    BY <1>1, <1>2 DEF UpToDate
  <2>2. ASSUME NEW t \in Tasks, Enrolled(task[e][t]) PROVE task[e][t].device \in Mine(e)
    BY <2>2 DEF Own, Held, HeldBy
  <2> QED BY <1>1, <1>2, <2>1, <2>2 DEF Own, Held, Follows
<1> QED BY <1>4, <1>5, <1>6 DEF Own

LEMMA OwnStep ==
  ASSUME Inv, RowsInv, NEW d \in Devices, OwnRowsOnly(d), OthersSame(d), Own(d)'
  PROVE  RowsInv'
  BY ForeignStep DEF RowsInv

LEMMA QuietStep ==
  ASSUME Inv, NEW d \in Devices, Quiet(d), Own(d)
  PROVE  Own(d)'
<1>1. Mine(d)' = Mine(d)
  BY DEF Quiet, Mine
<1>2. /\ daemon'[d].hik = daemon[d].hik /\ daemon'[d].device = daemon[d].device
      /\ rows' = rows /\ mishap[d] \subseteq mishap'[d]
  BY DEF Quiet
<1>3. ASSUME NEW t \in Tasks PROVE Lesser(task[d][t], task'[d][t])
  BY DEF Quiet
<1>4. Held(d)'
  <2>1. ASSUME NEW t \in Tasks PROVE HeldBy(d, task[d][t])'
    <3>1. HeldBy(d, task[d][t])
      BY DEF Own, Held
    <3> QED BY <1>1, <1>2, <1>3, <3>1 DEF HeldBy, Lesser, Enrolled
  <2> QED BY <1>1, <1>2, <2>1 DEF Own, Held
<1>5. Apart(d)'
  <2>1. SUFFICES ASSUME "overlap" \notin mishap'[d]
                 PROVE  (Distinct(d) /\ Alone(d) /\ \A t \in Tasks : Named(d, task[d][t]))'
    BY DEF Apart
  <2>2. Distinct(d) /\ Alone(d) /\ \A t \in Tasks : Named(d, task[d][t])
    BY <1>2, <2>1 DEF Own, Apart
  <2>3. Distinct(d)'
    BY <1>1, <1>2, <2>2 DEF Distinct
  <2>4. Alone(d)'
    <3>1. ASSUME NEW t \in Tasks, Registering(d, t)'
          PROVE  Registering(d, t) /\ task'[d][t] = task[d][t]
      BY <1>3, <3>1 DEF Lesser, Registering
    <3>2. ASSUME NEW t \in Tasks, LoggingIn(d, t)'
          PROVE  LoggingIn(d, t)
      BY <1>3, <3>2 DEF Lesser, LoggingIn
    <3> QED BY <2>2, <3>1, <3>2 DEF Alone
  <2>5. ASSUME NEW t \in Tasks PROVE Named(d, task[d][t])'
    <3>1. Named(d, task[d][t])
      BY <2>2
    <3> QED BY <1>1, <1>2, <1>3, <3>1 DEF Named, Lesser
  <2> QED BY <2>3, <2>4, <2>5
<1>6. Follows(d)'
  <2>1. SUFFICES ASSUME mishap'[d] \cap {"overlap", "logout", "unpatched"} = {}
                 PROVE  (/\ \A t \in Tasks : Enrolled(task[d][t])
                                                => UpToDate(d, task[d][t].device)
                         /\ daemon[d].device # None =>
                              /\ rows[daemon[d].device].active
                              /\ (\A t \in Tasks : ~Updating(task[d][t]))
                                   => UpToDate(d, daemon[d].device))'
    BY DEF Follows
  <2>2. /\ \A t \in Tasks : Enrolled(task[d][t]) => UpToDate(d, task[d][t].device)
        /\ daemon[d].device # None =>
             /\ rows[daemon[d].device].active
             /\ (\A t \in Tasks : ~Updating(task[d][t])) => UpToDate(d, daemon[d].device)
    BY <1>2, <2>1 DEF Own, Follows
  <2>3. ASSUME NEW i PROVE UpToDate(d, i)' <=> UpToDate(d, i)
    BY <1>2 DEF UpToDate
  <2>4. ASSUME NEW t \in Tasks
        PROVE  /\ Enrolled(task'[d][t]) =>
                    Enrolled(task[d][t]) /\ task'[d][t].device = task[d][t].device
               /\ Updating(task[d][t]) => Updating(task'[d][t])
    BY <1>3 DEF Lesser
  <2> QED BY <1>2, <2>2, <2>3, <2>4
<1> QED BY <1>4, <1>5, <1>6 DEF Own

-----------------------------------------------------------------------------
(* The machine that steps, one lemma per action the invariant can see.     *)

LEMMA NoteAt ==
  ASSUME Inv, NEW d \in Devices, NEW S, Note(d, S)
  PROVE  mishap'[d] = mishap[d] \cup S
  BY DEF Note, Inv, TypeOK

LEMMA LoginOwn ==
  ASSUME Inv, NEW d \in Devices, NEW t \in Tasks, NEW u \in Users, Login(d, t, u), Own(d)
  PROVE  Own(d)'
<1>1. PICK r \in Task : r = [Idle EXCEPT !.pc = "hik", !.op = "login", !.user = u]
  BY IdleOK DEF Idle, Task, PCs
<1>2. r.pc = "hik" /\ r.op = "login"
  BY <1>1 DEF Idle
<1>3. task'[d][t] = r /\ \A s \in Tasks : s # t => task'[d][s] = task[d][s]
  BY <1>1, BecomeAt DEF Login
<1>4. /\ rows' = rows /\ Mine(d)' = Mine(d)
      /\ daemon'[d].hik = daemon[d].hik /\ daemon'[d].device = daemon[d].device
  BY DEF Login, Mine, Inv, TypeOK, Daemon
<1>5. /\ mishap[d] \subseteq mishap'[d]
      /\ "overlap" \notin mishap'[d] => \A s \in Tasks : ~Registering(d, s)
  BY NoteAt DEF Login
<1>6. Held(d)'
  <2>1. ASSUME NEW s \in Tasks PROVE HeldBy(d, task[d][s])'
    BY <1>2, <1>3, <1>4 DEF Own, Held, HeldBy, Enrolled
  <2> QED BY <1>4, <2>1 DEF Own, Held
<1>7. Apart(d)'
  <2>1. SUFFICES ASSUME "overlap" \notin mishap'[d]
                 PROVE  (Distinct(d) /\ Alone(d) /\ \A s \in Tasks : Named(d, task[d][s]))'
    BY DEF Apart
  <2>2. Distinct(d)'
    BY <1>4, <1>5, <2>1 DEF Own, Apart, Distinct
  <2>3. Alone(d)'
    BY <1>2, <1>3, <1>5, <2>1 DEF Alone, Registering, Updating
  <2>4. ASSUME NEW s \in Tasks PROVE Named(d, task[d][s])'
    BY <1>2, <1>3, <1>5, <2>1 DEF Named, Registering
  <2> QED BY <2>2, <2>3, <2>4
<1>8. Follows(d)'
  <2>1. ASSUME NEW i PROVE UpToDate(d, i)' <=> UpToDate(d, i)
    BY <1>4 DEF UpToDate
  <2>2. ASSUME NEW s \in Tasks
        PROVE  /\ Enrolled(task'[d][s]) => s # t /\ task'[d][s] = task[d][s]
               /\ Updating(task[d][s]) => Updating(task'[d][s])
    BY <1>2, <1>3 DEF Login, At, Enrolled, Updating
  <2> QED BY <1>4, <1>5, <2>1, <2>2 DEF Own, Follows
<1> QED BY <1>6, <1>7, <1>8 DEF Own

(* A step that only moves one request on, keeping the tables, the identity *)
(* and the device id.                                                      *)
LEMMA LocalOwn ==
  ASSUME Inv, NEW d \in Devices, NEW t \in Tasks, NEW r \in Task, Become(d, t, r),
         rows' = rows, daemon' = daemon, mishap' = mishap, Own(d),
         HeldBy(d, r)', "overlap" \notin mishap[d] => Named(d, r)',
         r.op = task[d][t].op,
         Registering(d, t), ~Enrolled(r),
         Updating(r) => Updating(task[d][t]),
         Updating(task[d][t]) => Updating(r) \/ daemon[d].device = None
  PROVE  Own(d)'
<1>1. task'[d][t] = r /\ \A s \in Tasks : s # t => task'[d][s] = task[d][s]
  BY BecomeAt
<1>2. Mine(d)' = Mine(d)
  BY DEF Mine
<1>3. Held(d)'
  <2>1. ASSUME NEW s \in Tasks PROVE HeldBy(d, task[d][s])'
    <3>1. CASE s = t
      BY <1>1, <3>1 DEF HeldBy
    <3>2. CASE s # t
      BY <1>1, <1>2, <3>2 DEF Own, Held, HeldBy
    <3> QED BY <3>1, <3>2
  <2> QED BY <1>2, <2>1 DEF Own, Held
<1>4. Apart(d)'
  <2>1. SUFFICES ASSUME "overlap" \notin mishap[d]
                 PROVE  (Distinct(d) /\ Alone(d) /\ \A s \in Tasks : Named(d, task[d][s]))'
    BY DEF Apart
  <2>2. Distinct(d) /\ Alone(d) /\ \A s \in Tasks : Named(d, task[d][s])
    BY <2>1 DEF Own, Apart
  <2>3. Distinct(d)'
    BY <1>2, <2>2 DEF Distinct
  <2>4. Alone(d)'
    <3>1. ASSUME NEW s \in Tasks, s # t PROVE ~Registering(d, s)'
      BY <1>1, <2>2, <3>1 DEF Alone, Registering
    <3>2. ASSUME NEW s \in Tasks, s # t, Updating(r) PROVE ~LoggingIn(d, s)'
      BY <1>1, <2>2, <3>2 DEF Alone, LoggingIn, Updating
    <3> QED BY <1>1, <3>1, <3>2 DEF Alone, Updating
  <2>5. ASSUME NEW s \in Tasks PROVE Named(d, task[d][s])'
    <3>1. CASE s = t
      BY <1>1, <2>1, <3>1 DEF Named
    <3>2. CASE s # t
      BY <1>1, <1>2, <2>2, <3>2 DEF Named
    <3> QED BY <3>1, <3>2
  <2> QED BY <2>3, <2>4, <2>5
<1>5. Follows(d)'
  <2>1. ASSUME NEW i PROVE UpToDate(d, i)' <=> UpToDate(d, i)
    BY DEF UpToDate
  <2>2. ASSUME NEW s \in Tasks
        PROVE  /\ Enrolled(task'[d][s]) => s # t /\ task'[d][s] = task[d][s]
               /\ Updating(task[d][s]) => Updating(task'[d][s]) \/ daemon[d].device = None
    BY <1>1
  <2> QED BY <2>1, <2>2 DEF Own, Follows
<1> QED BY <1>3, <1>4, <1>5 DEF Own

LEMMA ExportHikOwn ==
  ASSUME Inv, NEW d \in Devices, NEW t \in Tasks, ExportHik(d, t), Own(d)
  PROVE  Own(d)'
<1>1. PICK q \in Task : q = task[d][t] /\ TaskOK(d, q) /\ q.pc = "hik" /\ q.op = "login"
  BY Current DEF ExportHik, At, TaskOK, LocalsOK
<1>2. PICK h \in Hik : h = daemon[d].hik /\ h.dev = d
  BY DaemonTyped DEF Daemon, Own, Held
<1>3. PICK r \in Task : r = [q EXCEPT !.pc = "check", !.pub = h]
  BY DEF Task, PCs
<1>4. r.pc = "check" /\ r.pub = h /\ r.op = "login"
  BY <1>1, <1>3 DEF Task
<1>5. daemon' = daemon /\ rows' = rows /\ mishap' = mishap /\ Become(d, t, r)
  BY <1>1, <1>2, <1>3 DEF ExportHik
<1>6. HeldBy(d, r)' /\ Named(d, r)'
  BY <1>2, <1>4, <1>5 DEF HeldBy, Named, Enrolled
<1> QED BY <1>1, <1>4, <1>5, <1>6, LocalOwn DEF Registering, Enrolled, Updating

LEMMA RegisterCheckOwn ==
  ASSUME Inv, NEW d \in Devices, NEW t \in Tasks, RegisterCheck(d, t), Own(d)
  PROVE  Own(d)'
<1>0. PICK q \in Task : q = task[d][t] /\ TaskOK(d, q) /\ q.pc = "check"
  BY Current DEF RegisterCheck, At
<1>1. /\ q = task[d][t] /\ q.pc = "check"
      /\ q.op = "login" /\ q.pub \in Hik /\ q.device = None
  BY <1>0 DEF TaskOK, LocalsOK
<1>2. daemon' = daemon /\ rows' = rows /\ mishap' = mishap /\ Mine(d)' = Mine(d)
  BY DEF RegisterCheck, Mine
<1>3. /\ q.pub.dev = d
      /\ "overlap" \notin mishap[d] => q.pub = daemon[d].hik
  BY <1>1 DEF Own, Held, HeldBy, Apart, Named
<1>4. CASE Finish(d, t)
  <2>1. task'[d][t] = Idle /\ \A s \in Tasks : s # t => task'[d][s] = task[d][s]
    BY <1>4, IdleOK, BecomeAt DEF Finish
  <2>2. Quiet(d)
    BY <1>1, <1>2, <2>1 DEF Quiet, Lesser, Idle, Updating, Enrolled
  <2> QED BY <2>2, QuietStep
<1>5. ASSUME NEW i \in RowsWithHik(q.pub),
             Become(d, t, [q EXCEPT !.pc = "register", !.device = i])
      PROVE  Own(d)'
  <2>1. i \in RowIds /\ i \in Mine(d) /\ rows[i].hik = q.pub /\ i # None
    BY <1>3, NoneAssumption DEF RowsWithHik, Mine
  <2>2. PICK r \in Task : r = [q EXCEPT !.pc = "register", !.device = i]
    BY <2>1 DEF Task, PCs
  <2>3. r.pc = "register" /\ r.pub = q.pub /\ r.op = "login" /\ r.device = i
    BY <1>1, <2>2 DEF Task
  <2>4. HeldBy(d, r)' /\ ("overlap" \notin mishap[d] => Named(d, r)')
    BY <1>2, <1>3, <2>1, <2>3 DEF HeldBy, Named, Enrolled
  <2> QED BY <1>1, <1>2, <1>5, <2>2, <2>3, <2>4, LocalOwn DEF Registering, Enrolled, Updating
<1>6. CASE RowsWithHik(q.pub) = {} /\ Goto(d, t, "register")
  <2>1. PICK r \in Task : r = [q EXCEPT !.pc = "register"]
    BY DEF Task, PCs
  <2>2. r.pc = "register" /\ r.pub = q.pub /\ r.op = "login" /\ r.device = None
    BY <1>1, <2>1 DEF Task
  <2>3. \A i \in Mine(d) : rows[i].hik # q.pub
    BY <1>6 DEF RowsWithHik, Mine
  <2>4. HeldBy(d, r)' /\ ("overlap" \notin mishap[d] => Named(d, r)')
    BY <1>2, <1>3, <2>2, <2>3 DEF HeldBy, Named, Enrolled
  <2> QED BY <1>1, <1>2, <1>6, <2>1, <2>2, <2>4, LocalOwn
          DEF Goto, Registering, Enrolled, Updating
<1> QED BY <1>1, <1>4, <1>5, <1>6 DEF RegisterCheck

LEMMA RegisterWriteOwn ==
  ASSUME Inv, NEW d \in Devices, NEW t \in Tasks, RegisterWrite(d, t), Own(d)
  PROVE  Own(d)' /\ OwnRowsOnly(d)
<1>1. PICK q \in Task : /\ q = task[d][t] /\ TaskOK(d, q) /\ q.pc = "register"
                        /\ q.op = "login" /\ q.pub \in Hik
                        /\ HeldBy(d, q) /\ q.pub.dev = d /\ q.user \in Users
  BY Current DEF RegisterWrite, At, TaskOK, LocalsOK, Own, Held, HeldBy
<1>2. q.device # None => q.device \in Mine(d)
  BY <1>1 DEF HeldBy
<1>3. PICK outcome \in Outcomes, i \in RowIds, h \in Hik, u \in Users :
        /\ rows' = IF Applied(outcome)
                     THEN [rows EXCEPT ![i] = [user |-> u, hik |-> h, active |-> TRUE]]
                     ELSE rows
        /\ IF outcome = "ok"
             THEN Become(d, t, [q EXCEPT !.pc = "load", !.pub = None, !.device = i])
             ELSE Finish(d, t)
        /\ \/ q.device = None /\ rows[i] = None /\ h = q.pub
           \/ q.device # None /\ i = q.device /\ h = rows[i].hik
  <2>1. CASE q.device # None
    <3>1. \E outcome \in Outcomes :
            /\ rows' = IF Applied(outcome)
                         THEN [rows EXCEPT ![q.device] =
                                [user |-> rows[q.device].user, hik |-> rows[q.device].hik,
                                 active |-> TRUE]]
                         ELSE rows
            /\ IF outcome = "ok"
                 THEN Become(d, t, [q EXCEPT !.pc = "load", !.pub = None,
                                             !.device = q.device])
                 ELSE Finish(d, t)
      BY <1>1, <2>1 DEF RegisterWrite
    <3>2. q.device \in RowIds /\ rows[q.device].user \in Users /\ rows[q.device].hik \in Hik
      BY <1>2, <2>1, MineTyped DEF DeviceRow
    <3> QED BY <2>1, <3>1, <3>2
  <2>2. CASE q.device = None
    <3>1. \E outcome \in Outcomes, i \in RowIds :
            /\ rows[i] = None
            /\ rows' = IF Applied(outcome)
                         THEN [rows EXCEPT ![i] = [user |-> q.user, hik |-> q.pub,
                                                   active |-> TRUE]]
                         ELSE rows
            /\ IF outcome = "ok"
                 THEN Become(d, t, [q EXCEPT !.pc = "load", !.pub = None, !.device = i])
                 ELSE Finish(d, t)
      BY <1>1, <2>2 DEF RegisterWrite
    <3> QED BY <1>1, <2>2, <3>1
  <2> QED BY <2>1, <2>2
<1>4. h.dev = d /\ (rows[i] # None => rows[i].hik = h)
  BY <1>1, <1>2, <1>3, MineTyped
<1>5. /\ \A j \in RowIds : j # i => rows'[j] = rows[j]
      /\ rows'[i] = rows[i] \/ rows'[i] = [user |-> u, hik |-> h, active |-> TRUE]
      /\ outcome = "ok" => rows'[i] = [user |-> u, hik |-> h, active |-> TRUE]
  BY <1>3 DEF Inv, TypeOK, Applied
<1>6. [user |-> u, hik |-> h, active |-> TRUE] # None
  <2>1. [user |-> u, hik |-> h, active |-> TRUE] \in DeviceRow
    BY DEF DeviceRow
  <2> QED BY <2>1, NoneAssumption
<1>7. OwnRowsOnly(d)
  BY <1>4, <1>5, <1>6 DEF OwnRowsOnly
<1>8. /\ daemon' = daemon /\ mishap' = mishap
      /\ \A j \in Mine(d) : j \in Mine(d)' /\ rows'[j].hik = rows[j].hik
                            /\ (rows[j].active => rows'[j].active)
      /\ \A j \in Mine(d)' : j \in Mine(d) \/ (j = i /\ rows[i] = None)
  <2>1. daemon' = daemon /\ mishap' = mishap
    BY DEF RegisterWrite
  <2>2. ASSUME NEW j \in Mine(d)
        PROVE  /\ rows'[j] # None /\ rows'[j].hik = rows[j].hik
               /\ rows[j].active => rows'[j].active
    <3>1. CASE j = i
      BY <1>4, <1>5, <1>6, <3>1, MineTyped
    <3>2. CASE j # i
      BY <1>5, <3>2, MineTyped
    <3> QED BY <3>1, <3>2
  <2>3. ASSUME NEW j \in Mine(d)' PROVE j \in Mine(d) \/ (j = i /\ rows[i] = None)
    <3>1. CASE j = i /\ rows[i] # None
      BY <1>4, <3>1 DEF Mine
    <3>2. CASE j # i
      BY <1>5, <3>2 DEF Mine
    <3> QED BY <3>1, <3>2
  <2> QED BY <2>1, <2>2, <2>3, MineTyped DEF Mine
<1>9. PICK r \in Task :
        /\ Become(d, t, r) /\ ~(r.pc \in {"hik", "check", "register"}) /\ ~Updating(r)
        /\ Enrolled(r) => outcome = "ok" /\ r.device = i
        /\ r.pc # "idle" => r.op = "login"
        /\ r.pc = "idle" => r.op = "none"
  <2>1. CASE outcome = "ok"
    <3>1. PICK r \in Task : r = [q EXCEPT !.pc = "load", !.pub = None, !.device = i]
      BY DEF Task, PCs
    <3>2. r.pc = "load" /\ r.op = "login" /\ r.device = i
      BY <1>1, <3>1 DEF Task
    <3> QED BY <1>3, <2>1, <3>1, <3>2 DEF Updating
  <2>2. CASE outcome # "ok"
    <3>1. PICK r \in Task : r = Idle
      BY IdleOK
    <3> QED BY <1>3, <2>2, <3>1 DEF Finish, Idle, Updating, Enrolled
  <2> QED BY <2>1, <2>2
<1>10. task'[d][t] = r /\ \A s \in Tasks : s # t => task'[d][s] = task[d][s]
  BY <1>9, BecomeAt
<1>11. Held(d)'
  <2>1. ASSUME NEW s \in Tasks PROVE HeldBy(d, task[d][s])'
    <3>1. CASE s = t
      <4>1. outcome = "ok" => i \in Mine(d)'
        BY <1>4, <1>5, <1>6 DEF Mine
      <4> QED BY <1>9, <1>10, <3>1, <4>1 DEF HeldBy, Updating
    <3>2. CASE s # t
      BY <1>8, <1>10, <3>2 DEF Own, Held, HeldBy
    <3> QED BY <3>1, <3>2
  <2> QED BY <1>8, <2>1 DEF Own, Held
<1>12. Apart(d)'
  <2>1. SUFFICES ASSUME "overlap" \notin mishap[d]
                 PROVE  (Distinct(d) /\ Alone(d) /\ \A s \in Tasks : Named(d, task[d][s]))'
    BY <1>8 DEF Apart
  <2>2. Distinct(d) /\ Alone(d) /\ Named(d, q)
    BY <1>1, <2>1 DEF Own, Apart
  <2>3. Registering(d, t) /\ \A s \in Tasks : s # t => ~Registering(d, s)
    BY <1>1, <2>2 DEF Alone, Registering
  <2>4. ASSUME rows[i] = None, rows'[i] # None
        PROVE  rows'[i].hik = daemon[d].hik /\ \A j \in Mine(d) : rows[j].hik # daemon[d].hik
    <3>1. q.device = None /\ h = q.pub
      BY <1>2, <1>3, <2>4, MineTyped
    <3> QED BY <1>1, <1>5, <2>2, <2>4, <3>1 DEF Named
  <2>5. Distinct(d)'
    <3>1. ASSUME NEW j \in Mine(d)'
          PROVE  /\ rows'[j].hik.gen <= daemon[d].hik.gen
                 /\ j \in Mine(d) \/ (j = i /\ rows[i] = None /\ rows'[i] # None)
      <4>1. daemon[d].hik.gen \in Nat
        BY DaemonTyped DEF Daemon, Hik
      <4>2. j \in Mine(d) \/ (j = i /\ rows[i] = None /\ rows'[i] # None)
        BY <1>8 DEF Mine
      <4> QED BY <1>8, <2>2, <2>4, <4>1, <4>2 DEF Distinct
    <3>2. ASSUME NEW j \in Mine(d)', NEW k \in Mine(d)', rows'[j].hik = rows'[k].hik
          PROVE  j = k
      BY <1>8, <2>2, <2>4, <3>1, <3>2 DEF Distinct
    <3> QED BY <1>8, <3>1, <3>2 DEF Distinct
  <2>6. ASSUME NEW s \in Tasks PROVE ~Registering(d, s)'
    BY <1>9, <1>10, <2>3 DEF Registering, Updating
  <2>7. Alone(d)' /\ \A s \in Tasks : Named(d, task[d][s])'
    BY <2>6 DEF Alone, Named, Registering
  <2> QED BY <2>5, <2>7
<1>13. Follows(d)'
  <2>1. SUFFICES ASSUME mishap[d] \cap {"overlap", "logout", "unpatched"} = {}
                 PROVE  (/\ \A s \in Tasks : Enrolled(task[d][s])
                                                => UpToDate(d, task[d][s].device)
                         /\ daemon[d].device # None =>
                              /\ rows[daemon[d].device].active
                              /\ (\A s \in Tasks : ~Updating(task[d][s]))
                                   => UpToDate(d, daemon[d].device))'
    BY <1>8 DEF Follows
  <2>2. ASSUME NEW j \in Mine(d), UpToDate(d, j) PROVE UpToDate(d, j)'
    BY <1>8, <2>2 DEF UpToDate
  <2>3. Named(d, q)
    BY <1>1, <2>1 DEF Own, Apart
  <2>4. h = daemon[d].hik
    BY <1>1, <1>3, <2>3 DEF Named
  <2>5. ASSUME NEW s \in Tasks, Enrolled(task'[d][s]) PROVE UpToDate(d, task[d][s].device)'
    <3>1. CASE s = t
      BY <1>5, <1>8, <1>9, <1>10, <2>4, <2>5, <3>1 DEF UpToDate
    <3>2. CASE s # t
      <4>1. task'[d][s] = task[d][s] /\ Enrolled(task[d][s])
        BY <1>10, <2>5, <3>2
      <4>2. task[d][s].device \in Mine(d) /\ UpToDate(d, task[d][s].device)
        BY <2>1, <4>1 DEF Own, Held, HeldBy, Follows
      <4> QED BY <2>2, <4>1, <4>2
    <3> QED BY <3>1, <3>2
  <2>6. ASSUME daemon[d].device # None
        PROVE  /\ daemon[d].device \in Mine(d) /\ rows'[daemon[d].device].active
               /\ (\A s \in Tasks : ~Updating(task[d][s])) => UpToDate(d, daemon[d].device)
    BY <1>8, <2>1, <2>6 DEF Own, Held, Follows
  <2>7. ASSUME \A s \in Tasks : ~Updating(task'[d][s])
        PROVE  \A s \in Tasks : ~Updating(task[d][s])
    BY <1>1, <1>10, <2>7 DEF Updating
  <2> QED BY <1>8, <2>2, <2>5, <2>6, <2>7
<1> QED BY <1>7, <1>11, <1>12, <1>13 DEF Own

LEMMA AdoptLoginOwn ==
  ASSUME Inv, NEW d \in Devices, NEW t \in Tasks, AdoptLogin(d, t), Own(d)
  PROVE  Own(d)'
<1>1. PICK q \in Task : /\ q = task[d][t] /\ TaskOK(d, q)
                        /\ q.pc = "push" /\ q.op = "login" /\ Enrolled(q)
  BY Current DEF AdoptLogin, At, Enrolled
<1>2. q.device \in Mine(d)
  BY <1>1 DEF Own, Held, HeldBy
<1>3. task'[d][t] = Idle /\ \A s \in Tasks : s # t => task'[d][s] = task[d][s]
  BY IdleOK, BecomeAt DEF AdoptLogin, Finish
<1>4. /\ rows' = rows /\ mishap' = mishap /\ Mine(d)' = Mine(d)
      /\ daemon'[d].hik = daemon[d].hik /\ daemon'[d].device = q.device
      /\ \A s \in Tasks : task[d][s].pc # "patch"
  BY <1>1 DEF AdoptLogin, NoReader, At, Mine, Inv, TypeOK, Daemon
<1>5. ASSUME NEW s \in Tasks
      PROVE  task'[d][s] = task[d][s] \/ (task'[d][s] = Idle /\ task[d][s] = q)
  BY <1>1, <1>3
<1>6. Held(d)'
  <2>1. ASSUME NEW s \in Tasks PROVE HeldBy(d, task[d][s])'
    BY <1>4, <1>5 DEF Own, Held, HeldBy, Idle, Enrolled
  <2> QED BY <1>2, <1>4, <2>1 DEF Own, Held
<1>7. Apart(d)'
  <2>1. SUFFICES ASSUME "overlap" \notin mishap[d]
                 PROVE  (Distinct(d) /\ Alone(d) /\ \A s \in Tasks : Named(d, task[d][s]))'
    BY <1>4 DEF Apart
  <2>2. Distinct(d) /\ Alone(d) /\ \A s \in Tasks : Named(d, task[d][s])
    BY <2>1 DEF Own, Apart
  <2>3. Distinct(d)'
    BY <1>4, <2>2 DEF Distinct
  <2>4. Alone(d)'
    BY <1>5, <2>2 DEF Alone, Registering, Updating, LoggingIn, Idle
  <2>5. ASSUME NEW s \in Tasks PROVE Named(d, task[d][s])'
    BY <1>4, <1>5, <2>2 DEF Named, Idle
  <2> QED BY <2>3, <2>4, <2>5
<1>8. Follows(d)'
  <2>1. SUFFICES ASSUME mishap[d] \cap {"overlap", "logout", "unpatched"} = {}
                 PROVE  (/\ \A s \in Tasks : Enrolled(task[d][s])
                                                => UpToDate(d, task[d][s].device)
                         /\ daemon[d].device # None =>
                              /\ rows[daemon[d].device].active
                              /\ (\A s \in Tasks : ~Updating(task[d][s]))
                                   => UpToDate(d, daemon[d].device))'
    BY <1>4 DEF Follows
  <2>2. ASSUME NEW i, UpToDate(d, i) PROVE UpToDate(d, i)'
    BY <1>4, <2>2 DEF UpToDate
  <2>3. ASSUME NEW s \in Tasks, Enrolled(task[d][s]) PROVE UpToDate(d, task[d][s].device)
    BY <2>1, <2>3 DEF Own, Follows
  <2>4. ~Enrolled(Idle)
    BY DEF Idle, Enrolled
  <2>5. UpToDate(d, q.device) /\ UpToDate(d, q.device)'
    BY <1>1, <2>2, <2>3
  <2> QED BY <1>4, <1>5, <2>2, <2>3, <2>4, <2>5 DEF UpToDate
<1> QED BY <1>6, <1>7, <1>8 DEF Own

LEMMA RotateHikOwn ==
  ASSUME Inv, NEW d \in Devices, NEW t \in Tasks, RotateHik(d, t), Own(d)
  PROVE  Own(d)'
<1>1. PICK u \in Users : u = daemon[d].user
  BY DaemonTyped DEF RotateHik, Daemon
<1>2. PICK r \in Task : r = [Idle EXCEPT !.pc = "rotate", !.op = "rewrap", !.user = u]
  BY IdleOK DEF Idle, Task, PCs
<1>3. r.pc = "rotate" /\ r.op = "rewrap"
  BY <1>2 DEF Idle
<1>4. task'[d][t] = r /\ \A s \in Tasks : s # t => task'[d][s] = task[d][s]
  BY <1>1, <1>2, BecomeAt DEF RotateHik
<1>5. rows' = rows /\ Mine(d)' = Mine(d) /\ daemon' = daemon /\ task[d][t].pc = "idle"
  BY DEF RotateHik, Mine, At
<1>6. /\ mishap[d] \subseteq mishap'[d]
      /\ "overlap" \notin mishap'[d] =>
           \A s \in Tasks : ~Registering(d, s) /\ ~LoggingIn(d, s)
  BY NoteAt DEF RotateHik
<1>7. Held(d)'
  <2>1. ASSUME NEW s \in Tasks PROVE HeldBy(d, task[d][s])'
    BY <1>3, <1>4, <1>5 DEF Own, Held, HeldBy, Enrolled
  <2> QED BY <1>5, <2>1 DEF Own, Held
<1>8. Apart(d)'
  <2>1. SUFFICES ASSUME "overlap" \notin mishap'[d]
                 PROVE  (Distinct(d) /\ Alone(d) /\ \A s \in Tasks : Named(d, task[d][s]))'
    BY DEF Apart
  <2>2. Distinct(d)'
    BY <1>5, <1>6, <2>1 DEF Own, Apart, Distinct
  <2>3. ASSUME NEW s \in Tasks, s # t PROVE ~Registering(d, s)' /\ ~LoggingIn(d, s)'
    BY <1>4, <1>6, <2>1, <2>3 DEF Registering, LoggingIn
  <2>4. ASSUME NEW s \in Tasks PROVE Named(d, task[d][s])'
    BY <1>3, <1>4, <2>3 DEF Named, Registering
  <2> QED BY <2>2, <2>3, <2>4 DEF Alone
<1>9. Follows(d)'
  <2>1. ASSUME NEW i PROVE UpToDate(d, i)' <=> UpToDate(d, i)
    BY <1>5 DEF UpToDate
  <2>2. ASSUME NEW s \in Tasks
        PROVE  /\ Enrolled(task'[d][s]) => task'[d][s] = task[d][s]
               /\ Updating(task[d][s]) => Updating(task'[d][s])
    BY <1>3, <1>4, <1>5 DEF Enrolled, Updating
  <2> QED BY <1>5, <1>6, <2>1, <2>2 DEF Own, Follows
<1> QED BY <1>7, <1>8, <1>9 DEF Own

LEMMA RotateIdentityOwn ==
  ASSUME Inv, NEW d \in Devices, NEW t \in Tasks, RotateIdentity(d, t), Own(d)
  PROVE  Own(d)'
<1>1. PICK q \in Task : /\ q = task[d][t] /\ TaskOK(d, q)
                        /\ q.pc = "rotate" /\ q.op = "rewrap"
  BY Current DEF RotateIdentity, At, TaskOK, LocalsOK
<1>2. daemon[d].hik.gen \in Nat
  BY DaemonTyped DEF Daemon, Hik
<1>3. PICK h \in Hik : h = [dev |-> d, gen |-> daemon[d].hik.gen + 1]
  <2>1. [dev |-> d, gen |-> daemon[d].hik.gen + 1] \in Hik
    BY <1>2 DEF Hik
  <2> QED BY <2>1
<1>4. PICK r \in Task : r = [q EXCEPT !.pc = "export", !.hik = h]
  BY DEF Task, PCs
<1>5. r.pc = "export" /\ r.op = "rewrap"
  BY <1>1, <1>4 DEF Task
<1>6. task'[d][t] = r /\ \A s \in Tasks : s # t => task'[d][s] = task[d][s]
  BY <1>1, <1>3, <1>4, BecomeAt DEF RotateIdentity
<1>7. /\ rows' = rows /\ Mine(d)' = Mine(d) /\ mishap' = mishap
      /\ daemon'[d].hik = h /\ daemon'[d].device = daemon[d].device
  BY <1>3 DEF RotateIdentity, Mine, Inv, TypeOK, Daemon
<1>8. Held(d)'
  <2>1. ASSUME NEW s \in Tasks PROVE HeldBy(d, task[d][s])'
    BY <1>5, <1>6, <1>7 DEF Own, Held, HeldBy, Enrolled
  <2> QED BY <1>3, <1>7, <2>1 DEF Own, Held
<1>9. Apart(d)'
  <2>1. SUFFICES ASSUME "overlap" \notin mishap[d]
                 PROVE  (Distinct(d) /\ Alone(d) /\ \A s \in Tasks : Named(d, task[d][s]))'
    BY <1>7 DEF Apart
  <2>2. Distinct(d) /\ Alone(d)
    BY <2>1 DEF Own, Apart
  <2>3. ASSUME NEW s \in Tasks, s # t PROVE ~Registering(d, s)' /\ ~LoggingIn(d, s)'
    BY <1>1, <1>6, <2>2, <2>3 DEF Alone, Registering, Updating, LoggingIn
  <2>4. ASSUME NEW i \in Mine(d) PROVE rows[i].hik.gen < h.gen
    BY <1>2, <1>3, <2>2, MineTyped DEF Distinct
  <2>5. Distinct(d)'
    <3>1. \A i \in Mine(d) : rows[i].hik.gen <= h.gen
      <4>1. h.gen \in Nat
        BY DEF Hik
      <4> QED BY <2>4, <4>1, MineTyped
    <3> QED BY <1>7, <2>2, <3>1 DEF Distinct
  <2>6. \A i \in Mine(d) : rows[i].hik # h
    BY <1>2, <1>3, <2>4, MineTyped
  <2>7. ASSUME NEW s \in Tasks PROVE Named(d, task[d][s])'
    BY <1>5, <1>6, <1>7, <2>3, <2>6 DEF Named, Registering
  <2> QED BY <2>3, <2>5, <2>7 DEF Alone
<1>10. Follows(d)'
  <2>1. SUFFICES ASSUME mishap[d] \cap {"overlap", "logout", "unpatched"} = {}
                 PROVE  (/\ \A s \in Tasks : Enrolled(task[d][s])
                                                => UpToDate(d, task[d][s].device)
                         /\ daemon[d].device # None =>
                              /\ rows[daemon[d].device].active
                              /\ (\A s \in Tasks : ~Updating(task[d][s]))
                                   => UpToDate(d, daemon[d].device))'
    BY <1>7 DEF Follows
  <2>2. ASSUME NEW s \in Tasks PROVE ~Enrolled(task'[d][s])
    BY <1>1, <1>5, <1>6, <2>1
    DEF Own, Apart, Alone, Registering, Updating, LoggingIn, Enrolled
  <2>3. Updating(task'[d][t])
    BY <1>5, <1>6 DEF Updating
  <2> QED BY <1>7, <2>1, <2>2, <2>3 DEF Own, Follows
<1> QED BY <1>8, <1>9, <1>10 DEF Own

LEMMA ExportNewHikOwn ==
  ASSUME Inv, NEW d \in Devices, NEW t \in Tasks, ExportNewHik(d, t), Own(d)
  PROVE  Own(d)'
<1>1. PICK q \in Task : /\ q = task[d][t] /\ TaskOK(d, q)
                        /\ q.pc = "export" /\ q.op = "rewrap"
  BY Current DEF ExportNewHik, At, TaskOK, LocalsOK
<1>2. PICK h \in Hik : h = daemon[d].hik /\ h.dev = d
  BY DaemonTyped DEF Daemon, Own, Held
<1>3. PICK r \in Task : r = [q EXCEPT !.pc = "device", !.pub = h]
  BY DEF Task, PCs
<1>4. r.pc = "device" /\ r.pub = h /\ r.op = "rewrap"
  BY <1>1, <1>3 DEF Task
<1>5. daemon' = daemon /\ rows' = rows /\ mishap' = mishap /\ Become(d, t, r)
      /\ Mine(d)' = Mine(d)
  BY <1>1, <1>2, <1>3 DEF ExportNewHik, Mine
<1>6. "overlap" \notin mishap[d] => \A i \in Mine(d) : rows[i].hik # daemon[d].hik
  BY <1>1 DEF Own, Apart, Named
<1>7. HeldBy(d, r)' /\ ("overlap" \notin mishap[d] => Named(d, r)')
  BY <1>2, <1>4, <1>5, <1>6 DEF HeldBy, Named, Enrolled
<1> QED BY <1>1, <1>4, <1>5, <1>7, LocalOwn DEF Registering, Enrolled, Updating

LEMMA ReadDeviceIdOwn ==
  ASSUME Inv, NEW d \in Devices, NEW t \in Tasks, ReadDeviceId(d, t), Own(d)
  PROVE  Own(d)'
<1>1. PICK q \in Task : /\ q = task[d][t] /\ TaskOK(d, q)
                        /\ q.pc = "device" /\ q.op = "rewrap"
  BY Current DEF ReadDeviceId, At, TaskOK, LocalsOK
<1>2. PICK i \in RowIds \cup {None} : i = daemon[d].device
  BY DaemonTyped DEF Daemon
<1>3. PICK pc \in {"patch", "version"} : pc = IF i # None THEN "patch" ELSE "version"
  OBVIOUS
<1>4. PICK r \in Task : r = [q EXCEPT !.device = i, !.pc = pc]
  <2>1. pc \in PCs
    BY DEF PCs
  <2>2. [q EXCEPT !.device = i, !.pc = pc] \in Task
    BY <2>1 DEF Task
  <2> QED BY <2>2
<1>5. r.pc = pc /\ r.pub = q.pub /\ r.device = i /\ r.op = "rewrap"
  BY <1>1, <1>4 DEF Task
<1>6. daemon' = daemon /\ rows' = rows /\ mishap' = mishap /\ Become(d, t, r)
      /\ Mine(d)' = Mine(d)
  BY <1>1, <1>2, <1>3, <1>4 DEF ReadDeviceId, Mine
<1>7. HeldBy(d, q) /\ ("overlap" \notin mishap[d] => Named(d, q))
  BY <1>1 DEF Own, Held, Apart
<1>8. HeldBy(d, r)' /\ ("overlap" \notin mishap[d] => Named(d, r)')
  BY <1>1, <1>2, <1>3, <1>5, <1>6, <1>7 DEF HeldBy, Named, Enrolled
<1>9. Updating(r) \/ daemon[d].device = None
  BY <1>2, <1>3, <1>5 DEF Updating
<1> QED BY <1>1, <1>5, <1>6, <1>8, <1>9, LocalOwn DEF Registering, Enrolled, Updating

LEMMA UpdateDeviceHikOwn ==
  ASSUME Inv, NEW d \in Devices, NEW t \in Tasks, UpdateDeviceHik(d, t), Own(d)
  PROVE  Own(d)' /\ OwnRowsOnly(d)
<1>1. PICK q \in Task : /\ q = task[d][t] /\ TaskOK(d, q)
                        /\ q.pc = "patch" /\ q.op = "rewrap" /\ q.pub \in Hik
  BY Current DEF UpdateDeviceHik, At, TaskOK, LocalsOK
<1>2. HeldBy(d, q) /\ q.device \in RowIds
  BY <1>1 DEF Own, Held, TaskOK, DeviceOK
<1>3. /\ q.device = daemon[d].device /\ q.device \in Mine(d)
      /\ daemon[d].device # None /\ q.pub.dev = d
  BY <1>1, <1>2, NoneAssumption DEF HeldBy, Own, Held
<1>4. PICK row \in DeviceRow : /\ row = [rows[q.device] EXCEPT !.hik = q.pub]
                               /\ row.hik = q.pub /\ row.active = rows[q.device].active
  <2>1. PICK old \in DeviceRow : old = rows[q.device]
    BY <1>3, MineTyped
  <2>2. PICK h \in Hik : h = q.pub
    BY <1>1
  <2>3. /\ [old EXCEPT !.hik = h] \in DeviceRow
        /\ [old EXCEPT !.hik = h].hik = h
        /\ [old EXCEPT !.hik = h].active = old.active
    BY DEF DeviceRow
  <2> QED BY <2>1, <2>2, <2>3
<1>5. PICK outcome \in Outcomes :
        /\ rows' = IF Applied(outcome) THEN [rows EXCEPT ![q.device] = row] ELSE rows
        /\ IF outcome = "ok" THEN Goto(d, t, "version") ELSE Finish(d, t)
        /\ Note(d, IF outcome = "ok" THEN {} ELSE {"unpatched"})
  BY <1>1, <1>2, <1>4 DEF UpdateDeviceHik, Inv, TypeOK
<1>6. /\ \A j \in RowIds : j # q.device => rows'[j] = rows[j]
      /\ rows'[q.device] = rows[q.device] \/ rows'[q.device] = row
      /\ outcome = "ok" => rows'[q.device] = row
  BY <1>2, <1>5 DEF Inv, TypeOK, Applied
<1>7. row # None
  BY NoneAssumption
<1>8. OwnRowsOnly(d) /\ Mine(d)' = Mine(d) /\ daemon' = daemon
  <2>0. rows[q.device] # None /\ rows[q.device].hik.dev = d
    BY <1>3, MineTyped
  <2>1. /\ rows[q.device] # None /\ rows[q.device].hik.dev = d
        /\ rows'[q.device] # None /\ rows'[q.device].hik.dev = d
    <3>1. CASE rows'[q.device] = rows[q.device]
      BY <2>0, <3>1
    <3>2. CASE rows'[q.device] = row
      BY <1>3, <1>4, <1>7, <2>0, <3>2
    <3> QED BY <1>6, <3>1, <3>2
  <2>2. OwnRowsOnly(d)
    BY <1>6, <2>1 DEF OwnRowsOnly
  <2>3. \A i \in RowIds : i \in Mine(d)' <=> i \in Mine(d)
    BY <1>6, <2>1 DEF Mine
  <2> QED BY <2>2, <2>3 DEF Mine, UpdateDeviceHik
<1>9. /\ mishap[d] \subseteq mishap'[d]
      /\ outcome # "ok" => "unpatched" \in mishap'[d]
  BY <1>5, NoteAt
<1>10. PICK r \in Task : Become(d, t, r) /\ r.pc \in {"version", "idle"} /\ r.op # "login"
  <2>1. CASE outcome = "ok"
    <3>1. PICK r \in Task : r = [q EXCEPT !.pc = "version"]
      BY DEF Task, PCs
    <3> QED BY <1>1, <1>5, <2>1, <3>1 DEF Goto, Task
  <2>2. CASE outcome # "ok"
    BY <1>5, <2>2, IdleOK DEF Finish, Idle
  <2> QED BY <2>1, <2>2
<1>11. task'[d][t] = r /\ \A s \in Tasks : s # t => task'[d][s] = task[d][s]
  BY <1>10, BecomeAt
<1>12. Held(d)'
  <2>1. ASSUME NEW s \in Tasks PROVE HeldBy(d, task[d][s])'
    BY <1>8, <1>10, <1>11 DEF Own, Held, HeldBy, Enrolled
  <2> QED BY <1>8, <2>1 DEF Own, Held
<1>13. ASSUME "overlap" \notin mishap[d]
       PROVE  /\ Distinct(d) /\ q.pub = daemon[d].hik
              /\ \A i \in Mine(d) : rows[i].hik # daemon[d].hik
              /\ \A s \in Tasks : s # t => ~Registering(d, s) /\ ~LoggingIn(d, s)
  BY <1>1, <1>13 DEF Own, Apart, Named, Alone, Registering, Updating
<1>14. Apart(d)'
  <2>1. SUFFICES ASSUME "overlap" \notin mishap[d]
                 PROVE  (Distinct(d) /\ Alone(d) /\ \A s \in Tasks : Named(d, task[d][s]))'
    BY <1>9 DEF Apart
  <2>2. ASSUME NEW s \in Tasks PROVE ~Registering(d, s)'
    BY <1>10, <1>11, <1>13, <2>1 DEF Registering
  <2>3. daemon[d].hik.gen \in Nat
    BY DaemonTyped DEF Daemon, Hik
  <2>4. ASSUME NEW i \in Mine(d)
        PROVE  /\ rows'[i].hik.gen <= daemon[d].hik.gen
               /\ rows'[i].hik = rows[i].hik \/ (i = q.device /\ rows'[i].hik = daemon[d].hik)
    <3>1. rows'[i].hik = rows[i].hik \/ (i = q.device /\ rows'[i].hik = daemon[d].hik)
      <4>1. i \in RowIds
        BY MineTyped
      <4> QED BY <1>4, <1>6, <1>13, <2>1, <4>1
    <3>2. rows[i].hik.gen <= daemon[d].hik.gen
      BY <1>13, <2>1 DEF Distinct
    <3>3. daemon[d].hik.gen <= daemon[d].hik.gen
      BY <2>3
    <3> QED BY <3>1, <3>2, <3>3
  <2>5. Distinct(d)'
    BY <1>8, <1>13, <2>1, <2>4 DEF Distinct
  <2>6. Alone(d)' /\ \A s \in Tasks : Named(d, task[d][s])'
    BY <2>2 DEF Alone, Named, Registering
  <2> QED BY <2>5, <2>6
<1>15. Follows(d)'
  <2>1. SUFFICES ASSUME mishap'[d] \cap {"overlap", "logout", "unpatched"} = {}
                 PROVE  (/\ \A s \in Tasks : Enrolled(task[d][s])
                                                => UpToDate(d, task[d][s].device)
                         /\ daemon[d].device # None =>
                              /\ rows[daemon[d].device].active
                              /\ (\A s \in Tasks : ~Updating(task[d][s]))
                                   => UpToDate(d, daemon[d].device))'
    BY DEF Follows
  <2>2. outcome = "ok" /\ mishap[d] \cap {"overlap", "logout", "unpatched"} = {}
    BY <1>9, <2>1
  <2>3. ASSUME NEW s \in Tasks PROVE ~Enrolled(task'[d][s])
    BY <1>10, <1>11, <1>13, <2>2 DEF LoggingIn, Enrolled
  <2>4. rows[q.device].active
    BY <1>3, <2>2 DEF Own, Follows
  <2>5. UpToDate(d, q.device)'
    BY <1>4, <1>6, <1>8, <1>13, <2>2, <2>4 DEF UpToDate
  <2> QED BY <1>3, <1>8, <2>3, <2>5 DEF UpToDate
<1> QED BY <1>8, <1>12, <1>14, <1>15 DEF Own

LEMMA LogoutOwn ==
  ASSUME Inv, NEW d \in Devices, NEW t \in Tasks, Logout(d, t), Own(d)
  PROVE  Own(d)' /\ OwnRowsOnly(d)
<1>1. PICK applied \in BOOLEAN :
        rows' = [i \in RowIds |->
                   IF applied /\ rows[i] # None /\ rows[i].hik = daemon[d].hik
                     THEN [rows[i] EXCEPT !.active = FALSE]
                     ELSE rows[i]]
  BY DEF Logout
<1>2. ASSUME NEW i \in RowIds
      PROVE  /\ rows[i] # None => rows'[i] # None /\ rows'[i].hik = rows[i].hik
             /\ rows[i] = None => rows'[i] = None
             /\ rows'[i] # rows[i] => rows[i] # None /\ rows[i].hik = daemon[d].hik
  <2>1. rows[i] # None => [rows[i] EXCEPT !.active = FALSE] \in DeviceRow
                          /\ [rows[i] EXCEPT !.active = FALSE].hik = rows[i].hik
    BY DEF Inv, TypeOK, DeviceRow
  <2> QED BY <1>1, <2>1, NoneAssumption
<1>3. daemon[d].hik.dev = d
  BY DEF Own, Held
<1>4. OwnRowsOnly(d) /\ Mine(d)' = Mine(d)
  BY <1>2, <1>3 DEF OwnRowsOnly, Mine
<1>5. /\ task' = task /\ daemon'[d].hik = daemon[d].hik /\ daemon'[d].device = None
      /\ \A s \in Tasks : task[d][s].pc # "patch"
  BY DEF Logout, NoReader, At, Inv, TypeOK, Daemon
<1>6. /\ mishap[d] \subseteq mishap'[d]
      /\ "logout" \notin mishap'[d] => \A s \in Tasks : ~LoggingIn(d, s)
  BY NoteAt DEF Logout
<1>7. Held(d)'
  <2>1. ASSUME NEW s \in Tasks PROVE HeldBy(d, task[d][s])'
    BY <1>4, <1>5 DEF Own, Held, HeldBy
  <2> QED BY <1>3, <1>4, <1>5, <2>1 DEF Held
<1>8. Apart(d)'
  <2>1. SUFFICES ASSUME "overlap" \notin mishap[d]
                 PROVE  (Distinct(d) /\ Alone(d) /\ \A s \in Tasks : Named(d, task[d][s]))'
    BY <1>6 DEF Apart
  <2>2. Distinct(d) /\ Alone(d) /\ \A s \in Tasks : Named(d, task[d][s])
    BY <2>1 DEF Own, Apart
  <2>3. \A i \in Mine(d) : rows'[i].hik = rows[i].hik
    BY <1>2, MineTyped
  <2>4. Distinct(d)'
    BY <1>4, <1>5, <2>2, <2>3 DEF Distinct
  <2>5. Alone(d)'
    BY <1>5, <2>2 DEF Alone, Registering, LoggingIn
  <2>6. ASSUME NEW s \in Tasks PROVE Named(d, task[d][s])'
    <3>1. Named(d, task[d][s]) /\ HeldBy(d, task[d][s])
      BY <2>2 DEF Own, Held
    <3> QED BY <1>4, <1>5, <2>3, <3>1 DEF Named, HeldBy
  <2> QED BY <2>4, <2>5, <2>6
<1>9. Follows(d)'
  BY <1>5, <1>6 DEF Follows, LoggingIn, Enrolled
<1> QED BY <1>4, <1>7, <1>8, <1>9 DEF Own

LEMMA RestartOwn ==
  ASSUME Inv, NEW d \in Devices, Restart(d), Own(d)
  PROVE  Own(d)'
<1>1. /\ rows' = rows /\ mishap' = mishap /\ Mine(d)' = Mine(d)
      /\ daemon'[d].hik = daemon[d].hik /\ daemon'[d].device = None
      /\ \A s \in Tasks : task'[d][s] = Idle
  BY DEF Restart, Started, Mine, Inv, TypeOK
<1>2. Held(d)'
  BY <1>1 DEF Own, Held, HeldBy, Idle, Enrolled
<1>3. Apart(d)'
  BY <1>1 DEF Own, Apart, Distinct, Alone, Named, Registering, Idle
<1>4. Follows(d)'
  BY <1>1 DEF Follows, Idle, Enrolled
<1> QED BY <1>2, <1>3, <1>4 DEF Own
-----------------------------------------------------------------------------
(* All steps together.                                                     *)

LEMMA StaysAtHome ==
  ASSUME Inv, NEW d \in Devices, NEW t \in Tasks, TaskStep(d, t)
  PROVE  OthersSame(d)
<1> USE DEF OthersSame, Finish, Goto, Become, Note, Inv, TypeOK
<1>1. CASE \E u \in Users : Login(d, t, u)
  BY <1>1 DEF Login
<1>2. CASE ExportHik(d, t) \/ RegisterCheck(d, t) \/ RegisterWrite(d, t)
  BY <1>2 DEF ExportHik, RegisterCheck, RegisterWrite
<1>3. CASE LoadPnk(d, t) \/ FetchWrappedPnks(d, t)
  BY <1>3 DEF LoadPnk, FetchWrappedPnks
<1>4. CASE UnwrapPnk(d, t) \/ GeneratePnk(d, t)
  BY <1>4 DEF UnwrapPnk, GeneratePnk, StorePnk
<1>5. CASE GetDevices(d, t) \/ PushWrappedPnk(d, t) \/ AdoptLogin(d, t)
  BY <1>5 DEF GetDevices, PushWrappedPnk, AdoptLogin
<1>6. CASE RotatePnk(d, t) \/ AbandonRotation(d, t) \/ AdoptRotation(d, t)
  BY <1>6 DEF RotatePnk, AbandonRotation, AdoptRotation
<1>7. CASE SyncKeys(d, t) \/ AdoptSync(d, t) \/ Logout(d, t)
  BY <1>7 DEF SyncKeys, AdoptSync, Logout
<1>8. CASE RotateHik(d, t) \/ RotateIdentity(d, t) \/ ExportNewHik(d, t) \/ ReadDeviceId(d, t)
  BY <1>8 DEF RotateHik, RotateIdentity, ExportNewHik, ReadDeviceId
<1>9. CASE UpdateDeviceHik(d, t) \/ ReadVersion(d, t) \/ ReadPnk(d, t) \/ RewrapDone(d, t)
  BY <1>9 DEF UpdateDeviceHik, ReadVersion, ReadPnk, RewrapDone
<1>10. CASE StartNetSync(d, t) \/ PushNetworkKey(d, t) \/ NetSyncDone(d, t)
  BY <1>10 DEF StartNetSync, PushNetworkKey, NetSyncDone
<1> QED BY <1>1, <1>2, <1>3, <1>4, <1>5, <1>6, <1>7, <1>8, <1>9, <1>10 DEF TaskStep

Unseen(d, t) ==
  \/ LoadPnk(d, t) \/ FetchWrappedPnks(d, t) \/ UnwrapPnk(d, t) \/ GeneratePnk(d, t)
  \/ GetDevices(d, t) \/ PushWrappedPnk(d, t)
  \/ RotatePnk(d, t) \/ AbandonRotation(d, t) \/ AdoptRotation(d, t)
  \/ SyncKeys(d, t) \/ AdoptSync(d, t)
  \/ ReadVersion(d, t) \/ ReadPnk(d, t) \/ RewrapDone(d, t)
  \/ StartNetSync(d, t) \/ PushNetworkKey(d, t) \/ NetSyncDone(d, t)

LEMMA UnseenQuiet ==
  ASSUME Inv, NEW d \in Devices, NEW t \in Tasks, Unseen(d, t)
  PROVE  Quiet(d)
<1>1. PICK q \in Task : q = task[d][t] /\ TaskOK(d, q)
  BY Current
<1>2. rows' = rows
  BY DEF Unseen, LoadPnk, FetchWrappedPnks, UnwrapPnk, GeneratePnk, GetDevices, PushWrappedPnk,
         RotatePnk, AbandonRotation, AdoptRotation, SyncKeys, AdoptSync, ReadVersion, ReadPnk,
         RewrapDone, StartNetSync, PushNetworkKey, NetSyncDone
<1>3. daemon'[d].hik = daemon[d].hik /\ daemon'[d].device = daemon[d].device
  <2>1. CASE AdoptRotation(d, t) \/ AdoptSync(d, t)
    BY <2>1 DEF AdoptRotation, AdoptSync, Inv, TypeOK, Daemon
  <2>2. CASE ~(AdoptRotation(d, t) \/ AdoptSync(d, t))
    BY <2>2 DEF Unseen, LoadPnk, FetchWrappedPnks, UnwrapPnk, GeneratePnk, GetDevices,
         PushWrappedPnk, RotatePnk, AbandonRotation, SyncKeys, ReadVersion, ReadPnk,
         RewrapDone, StartNetSync, PushNetworkKey, NetSyncDone
  <2> QED BY <2>1, <2>2
<1>4. mishap[d] \subseteq mishap'[d]
  <2>1. mishap' = mishap \/ \E S : Note(d, S)
    <3>1. CASE LoadPnk(d, t) \/ UnwrapPnk(d, t) \/ GeneratePnk(d, t)
      BY <3>1 DEF LoadPnk, UnwrapPnk, GeneratePnk, StorePnk
    <3>2. CASE ~(LoadPnk(d, t) \/ UnwrapPnk(d, t) \/ GeneratePnk(d, t))
      BY <3>2 DEF Unseen, FetchWrappedPnks, GetDevices, PushWrappedPnk, RotatePnk,
           AbandonRotation, AdoptRotation, SyncKeys, AdoptSync, ReadVersion, ReadPnk,
           RewrapDone, StartNetSync, PushNetworkKey, NetSyncDone
    <3> QED BY <3>1, <3>2
  <2> QED BY <2>1, NoteAt
<1>5. ASSUME NEW r, Become(d, t, r), Lesser(q, r)
      PROVE  \A s \in Tasks : Lesser(task[d][s], task'[d][s])
  BY <1>1, <1>5 DEF Become, Lesser, Inv, TypeOK
<1>6. \E r : (Become(d, t, r) \/ (r = q /\ task' = task)) /\ Lesser(q, r)
  <2> USE <1>1
  <2>1. Finish(d, t) /\ ~Updating(q) => Become(d, t, Idle) /\ Lesser(q, Idle)
    BY DEF Finish, Lesser, Idle, Enrolled
  <2>2. CASE LoadPnk(d, t)
    <3>1. q.pc = "load" /\ q.op = "login"
      BY <2>2 DEF LoadPnk, At, TaskOK, LocalsOK
    <3>2. \E r \in {[q EXCEPT !.pc = "push", !.key = cred[d]], [q EXCEPT !.pc = "fetch"]} :
            Become(d, t, r)
      BY <2>2 DEF LoadPnk, Goto
    <3>3. /\ Lesser(q, [q EXCEPT !.pc = "push", !.key = cred[d]])
          /\ Lesser(q, [q EXCEPT !.pc = "fetch"])
      BY <3>1 DEF Lesser, Enrolled, Updating, Task
    <3> QED BY <3>2, <3>3
  <2>3. CASE FetchWrappedPnks(d, t)
    <3>1. q.pc = "fetch" /\ ~Updating(q)
      BY <2>3 DEF FetchWrappedPnks, At, Updating
    <3>2. CASE Finish(d, t)
      BY <2>1, <3>1, <3>2
    <3>3. CASE ~Finish(d, t)
      <4>1. \/ Become(d, t, [q EXCEPT !.pc = "generate"])
            \/ \E row : Become(d, t, [q EXCEPT !.pc = "unwrap", !.row = row])
        BY <2>3, <3>3 DEF FetchWrappedPnks, Goto
      <4>2. /\ Lesser(q, [q EXCEPT !.pc = "generate"])
            /\ \A row : Lesser(q, [q EXCEPT !.pc = "unwrap", !.row = row])
        BY <3>1 DEF Lesser, Enrolled, Updating, Task
      <4> QED BY <4>1, <4>2
    <3> QED BY <3>2, <3>3
  <2>4. CASE UnwrapPnk(d, t)
    <3>1. q.pc = "unwrap" /\ ~Updating(q)
      BY <2>4 DEF UnwrapPnk, At, Updating
    <3>2. CASE Finish(d, t)
      BY <2>1, <3>1, <3>2
    <3>3. CASE ~Finish(d, t)
      <4>1. \E k, v : Become(d, t, [q EXCEPT !.pc = "push", !.key = k, !.version = v,
                                            !.row = None])
        BY <2>4, <3>3 DEF UnwrapPnk
      <4>2. \A k, v : Lesser(q, [q EXCEPT !.pc = "push", !.key = k, !.version = v,
                                         !.row = None])
        BY <3>1 DEF Lesser, Enrolled, Updating, Task
      <4> QED BY <4>1, <4>2
    <3> QED BY <3>2, <3>3
  <2>5. CASE GeneratePnk(d, t)
    <3>1. q.pc = "generate"
      BY <2>5 DEF GeneratePnk, At
    <3>2. \E k, h : Become(d, t, [q EXCEPT !.pc = "list", !.key = k, !.version = 1, !.hik = h])
      BY <2>5 DEF GeneratePnk
    <3>3. \A k, h : Lesser(q, [q EXCEPT !.pc = "list", !.key = k, !.version = 1, !.hik = h])
      BY <3>1 DEF Lesser, Enrolled, Updating, Task
    <3> QED BY <3>2, <3>3
  <2>6. CASE GetDevices(d, t)
    <3>1. q.pc = "list" /\ ~Updating(q)
      BY <2>6 DEF GetDevices, At, Updating
    <3>2. CASE Finish(d, t)
      BY <2>1, <3>1, <3>2
    <3>3. CASE ~Finish(d, t)
      <4>1. \/ Become(d, t, [q EXCEPT !.pc = "push"])
            \/ \E T : Become(d, t, [q EXCEPT !.pc = "push", !.targets = T, !.todo = T])
        BY <2>6, <3>3 DEF GetDevices, Goto
      <4>2. /\ Lesser(q, [q EXCEPT !.pc = "push"])
            /\ \A T : Lesser(q, [q EXCEPT !.pc = "push", !.targets = T, !.todo = T])
        BY <3>1 DEF Lesser, Enrolled, Updating, Task
      <4> QED BY <4>1, <4>2
    <3> QED BY <3>2, <3>3
  <2>7. CASE PushWrappedPnk(d, t)
    <3>1. q.pc = "push"
      BY <2>7 DEF PushWrappedPnk, At
    <3>2. \E T, f : Become(d, t, [q EXCEPT !.todo = T, !.failed = f])
      BY <2>7 DEF PushWrappedPnk
    <3>3. \A T, f : Lesser(q, [q EXCEPT !.todo = T, !.failed = f])
      BY <3>1 DEF Lesser, Enrolled, Updating, Task
    <3> QED BY <3>2, <3>3
  <2>8. CASE RotatePnk(d, t)
    <3>1. q.pc = "idle"
      BY <2>8 DEF RotatePnk, At
    <3>2. \E u, k, v, h : Become(d, t, [Idle EXCEPT !.pc = "list", !.op = "rotate", !.user = u,
                                                   !.key = k, !.version = v, !.hik = h])
      BY <2>8 DEF RotatePnk
    <3>3. \A u, k, v, h : Lesser(q, [Idle EXCEPT !.pc = "list", !.op = "rotate", !.user = u,
                                                !.key = k, !.version = v, !.hik = h])
      BY <3>1 DEF Lesser, Enrolled, Updating, Idle
    <3> QED BY <3>2, <3>3
  <2>9. CASE SyncKeys(d, t)
    <3>1. q.pc = "idle"
      BY <2>9 DEF SyncKeys, At
    <3>2. Lesser(q, [Idle EXCEPT !.pc = "fetch", !.op = "sync", !.device = daemon[d].device])
      BY <3>1 DEF Lesser, Enrolled, Updating, Idle
    <3> QED BY <2>9, <3>2 DEF SyncKeys
  <2>10. CASE StartNetSync(d, t)
    <3>1. q.pc = "idle"
      BY <2>10 DEF StartNetSync, At
    <3>2. Lesser(q, [Idle EXCEPT !.pc = "nk", !.op = "netsync", !.user = daemon[d].user,
                                 !.hik = daemon[d].hik])
      BY <3>1 DEF Lesser, Enrolled, Updating, Idle
    <3> QED BY <2>10, <3>2 DEF StartNetSync
  <2>11. CASE ReadVersion(d, t)
    <3>1. q.pc = "version" /\ q.op = "rewrap"
      BY <2>11 DEF ReadVersion, At, TaskOK, LocalsOK
    <3>2. Lesser(q, [q EXCEPT !.pc = "pnk", !.version = daemon[d].version,
                              !.pub = None, !.device = None])
      BY <3>1 DEF Lesser, Enrolled, Updating, Task
    <3> QED BY <2>11, <3>2 DEF ReadVersion
  <2>12. CASE ReadPnk(d, t)
    <3>1. q.pc = "pnk" /\ q.op = "rewrap" /\ ~Updating(q)
      BY <2>12 DEF ReadPnk, At, TaskOK, LocalsOK, Updating
    <3>2. CASE Finish(d, t)
      BY <2>1, <3>1, <3>2
    <3>3. Lesser(q, [q EXCEPT !.pc = "list", !.key = daemon[d].pnk])
      BY <3>1 DEF Lesser, Enrolled, Updating, Task
    <3> QED BY <2>12, <3>2, <3>3 DEF ReadPnk
  <2>13. CASE AbandonRotation(d, t) \/ AdoptRotation(d, t) \/ AdoptSync(d, t)
              \/ RewrapDone(d, t) \/ NetSyncDone(d, t)
    BY <2>1, <2>13 DEF AbandonRotation, AdoptRotation, AdoptSync, RewrapDone, NetSyncDone,
                       At, Updating
  <2>14. CASE PushNetworkKey(d, t)
    BY <2>14 DEF PushNetworkKey, Lesser
  <2> QED BY <2>2, <2>3, <2>4, <2>5, <2>6, <2>7, <2>8, <2>9, <2>10, <2>11, <2>12, <2>13, <2>14
          DEF Unseen
<1> QED BY <1>2, <1>3, <1>4, <1>5, <1>6, <1>1 DEF Quiet, Lesser

LEMMA NextRows == Inv /\ RowsInv /\ [Next]_vars => RowsInv'
<1> SUFFICES ASSUME Inv, RowsInv, [Next]_vars PROVE RowsInv'
  OBVIOUS
<1>1. CASE UNCHANGED vars
  BY <1>1 DEF vars, RowsInv, Own, Held, HeldBy, Apart, Distinct, Alone, Named, Follows,
              UpToDate, Mine, Registering, LoggingIn
<1>2. ASSUME NEW d \in Devices, NEW t \in Tasks, TaskStep(d, t) PROVE RowsInv'
  <2>1. OthersSame(d) /\ Own(d)
    BY <1>2, StaysAtHome DEF RowsInv
  <2>2. CASE RegisterWrite(d, t) \/ UpdateDeviceHik(d, t) \/ Logout(d, t)
    BY <2>1, <2>2, RegisterWriteOwn, UpdateDeviceHikOwn, LogoutOwn, OwnStep
  <2>3. rows' = rows => OwnRowsOnly(d)
    BY DEF OwnRowsOnly
  <2>4. CASE Unseen(d, t)
    <3>1. Quiet(d)
      BY <2>4, UnseenQuiet
    <3>2. rows' = rows
      BY <3>1 DEF Quiet
    <3> QED BY <2>1, <2>3, <3>1, <3>2, QuietStep, OwnStep
  <2>5. CASE \E u \in Users : Login(d, t, u)
    <3>1. rows' = rows
      BY <2>5 DEF Login
    <3> QED BY <2>1, <2>3, <2>5, <3>1, LoginOwn, OwnStep
  <2>6. CASE ExportHik(d, t) \/ RegisterCheck(d, t) \/ AdoptLogin(d, t)
    <3>1. rows' = rows
      BY <2>6 DEF ExportHik, RegisterCheck, AdoptLogin
    <3> QED BY <2>1, <2>3, <2>6, <3>1, ExportHikOwn, RegisterCheckOwn, AdoptLoginOwn, OwnStep
  <2>7. CASE RotateHik(d, t) \/ RotateIdentity(d, t) \/ ExportNewHik(d, t) \/ ReadDeviceId(d, t)
    <3>1. rows' = rows
      BY <2>7 DEF RotateHik, RotateIdentity, ExportNewHik, ReadDeviceId
    <3> QED BY <2>1, <2>3, <2>7, <3>1, RotateHikOwn, RotateIdentityOwn, ExportNewHikOwn,
               ReadDeviceIdOwn, OwnStep
  <2> QED BY <1>2, <2>2, <2>4, <2>5, <2>6, <2>7 DEF TaskStep, Unseen
<1>3. ASSUME NEW d \in Devices, Restart(d) PROVE RowsInv'
  <2>1. OwnRowsOnly(d)
    BY <1>3 DEF Restart, OwnRowsOnly
  <2>2. OthersSame(d)
    BY <1>3 DEF Restart, OthersSame, Inv, TypeOK
  <2> QED BY <1>3, <2>1, <2>2, RestartOwn, OwnStep DEF RowsInv
<1> QED BY <1>1, <1>2, <1>3 DEF Next

LEMMA InitRows == Init => RowsInv
  BY DEF Init, Started, Idle, RowsInv, Own, Held, HeldBy, Apart, Distinct, Alone, Named, Follows,
         Mine, Registering, Enrolled

LEMMA RowsInvariance == Spec => []RowsInv
  BY InitRows, NextRows, Invariance, PTL DEF Spec

(* Registration is idempotent, for any number of machines and of requests  *)
(* at once: whatever call fails or answer is lost and wherever a daemon    *)
(* dies, two rows carry one HIK only if registrations, or a registration   *)
(* and a RotateHik, have met on its machine.                               *)
THEOREM RegistersOnce == Spec => []OneRowPerHik
<1>1. Inv /\ RowsInv => OneRowPerHik
  <2> SUFFICES ASSUME Inv, RowsInv, NEW i \in RowIds, NEW j \in RowIds,
                      i # j, rows[i] # None, rows[j] # None, rows[i].hik = rows[j].hik,
                      "overlap" \notin mishap[rows[i].hik.dev]
               PROVE  FALSE
    BY DEF OneRowPerHik
  <2>1. PICK d \in Devices : d = rows[i].hik.dev
    BY DEF Inv, TypeOK, DeviceRow, Hik
  <2>2. Distinct(d) /\ i \in Mine(d) /\ j \in Mine(d)
    BY <2>1 DEF RowsInv, Own, Apart, Mine
  <2> QED BY <2>2 DEF Distinct
<1> QED BY <1>1, Invariance, RowsInvariance, PTL

(* The row of a registered daemon names its identity and is active, with   *)
(* any requests at once, failing calls and restarts: while a RotateHik is  *)
(* before its PATCH, after a PATCH that failed, after a logout in the      *)
(* middle of a login and after a registration met another or a RotateHik   *)
(* the theorem says nothing.                                               *)
THEOREM RowFollows == Spec => []RowFollowsIdentity
<1>1. Inv /\ RowsInv => RowFollowsIdentity
  <2> SUFFICES ASSUME Inv, RowsInv, NEW d \in Devices, daemon[d].device # None,
                      mishap[d] \cap {"overlap", "logout", "unpatched"} = {},
                      \A t \in Tasks : ~Registering(d, t) \/ LoggingIn(d, t)
               PROVE  rows[daemon[d].device].hik = daemon[d].hik /\ rows[daemon[d].device].active
    BY DEF RowFollowsIdentity
  <2>1. ASSUME NEW t \in Tasks PROVE ~Updating(task[d][t])
    <3>1. PICK q \in Task : q = task[d][t] /\ TaskOK(d, q)
      BY Current
    <3> QED BY <3>1 DEF Registering, LoggingIn, Updating, TaskOK, LocalsOK
  <2> QED BY <2>1 DEF RowsInv, Own, Follows, UpToDate
<1> QED BY <1>1, Invariance, RowsInvariance, PTL
=============================================================================
