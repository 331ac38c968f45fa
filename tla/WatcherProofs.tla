---------------------------- MODULE WatcherProofs ----------------------------
(***************************************************************************)
(* Proofs about Watcher, for any paths, contents, keys and clients: no     *)
(* saved content is lost, entries name the right key, no mark is left      *)
(* behind, and what the daemon removed is listed.                          *)
(***************************************************************************)
EXTENDS Watcher, TLAPS, FiniteSetTheorems, SequenceTheorems

PastReading == {"open", "fill", "rename", "remove"}
Writing == {"fill", "rename", "remove", "commit"}
Marked == {"read", "open", "fill", "rename", "remove", "commit", "fail"}

(* What a task has in hand.                                                *)
LocalsOK(r) ==
  /\ r.pc \in Marked \cup {"queue", "mark"} => r.path \in Paths
  /\ r.pc \in Writing \cup {"open"} => r.content \in Contents

(* A path holds what the user last left there or nothing, and a task that  *)
(* will remove the file there has read just that.                          *)
OwedOK ==
  /\ \A p \in Paths : owed[p] # None => plain[p] \in {None, owed[p]}
  /\ \A t \in Tasks : task[t].pc \in PastReading => owed[task[t].path] \in {None, task[t].content}

(* Contents that are not overlapped have one task at work on them.         *)
AloneOK ==
  \A t, u \in Tasks :
    (/\ t # u /\ task[t].content = task[u].content
     /\ task[t].pc \in Writing /\ task[u].pc \in Writing) => task[t].content \in overlapped

(* The files of such a task are what it has made of them.                  *)
FilesOK ==
  \A t \in Tasks :
    LET r == task[t]
    IN r.content \notin overlapped =>
         /\ r.pc = "fill" => r.handle = "tmp"
         /\ r.pc = "rename" => tmp[r.content] = r.key
         /\ r.pc \in {"remove", "commit"} => enc[r.content] \in {None, r.key}
         /\ (r.pc = "remove" /\ owed[r.path] = r.content) => enc[r.content] # None

(* TagMatchesKey for the manifest m.                                       *)
TagsOK(m) ==
  \A c \in Contents :
    (/\ m[c] # None /\ Whole(c)
     /\ c \notin overlapped \cup unrecorded
     /\ \A t \in Tasks : Renamed(t) => task[t].content # c)
    => IF m[c].network = None THEN enc[c] \in PnkKeys ELSE enc[c] = m[c].network

(* All but the types and the marks.                                        *)
CoreOK ==
  /\ \A t \in Tasks : LocalsOK(task[t])
  /\ OwedOK /\ AloneOK /\ FilesOK
  /\ TagsOK(manifest) /\ TagsOK(saved)
  /\ NothingLost /\ RemovedIsListed

(* The inductive invariant.                                                *)
Inv == TypeOK /\ CoreOK /\ MarkHasTask

-----------------------------------------------------------------------------
(* Types.                                                                  *)

LEMMA IdleIsTask ==
  ASSUME NEW rest \in Seq(Paths)
  PROVE  /\ Idle(rest) \in Task
         /\ Idle(rest).pc = "idle" /\ Idle(rest).todo = rest
  BY DEF Idle, Task, PCs

LEMMA TaskTyped ==
  ASSUME TypeOK, NEW t \in Tasks, NEW r \in Task, Become(t, r),
         r.pc \in Encrypting => r.key \in Keys
  PROVE  /\ task' \in [Tasks -> Task]
         /\ \A u \in Tasks : task'[u].pc \in Encrypting => task'[u].key \in Keys
         /\ task'[t] = r
         /\ \A u \in Tasks \ {t} : task'[u] = task[u]
  BY DEF TypeOK, Become

LEMMA OutsideTyped ==
  ASSUME TypeOK, Outside
  PROVE  outside' \in 0..MaxOutside
  BY BoundsAssumption DEF TypeOK, Outside

LEMMA SaveTyped ==
  ASSUME TypeOK, NEW m \in Manifest, SaveManifest(m)
  PROVE  /\ manifest' = m /\ saved' \in {m, saved, NoEntries}
         /\ manifest' \in Manifest /\ saved' \in Manifest
         /\ outside' \in 0..MaxOutside
<1>1. NoEntries \in Manifest
  BY DEF NoEntries, Manifest
<1>2. saved \in Manifest /\ outside \in 0..MaxOutside
  BY DEF TypeOK
<1>3. CASE saved' = m /\ UNCHANGED outside
  BY <1>2, <1>3 DEF SaveManifest
<1>4. CASE saved' \in {saved, NoEntries} /\ Outside
  BY <1>1, <1>2, <1>4, OutsideTyped DEF SaveManifest
<1> QED  BY <1>3, <1>4 DEF SaveManifest

-----------------------------------------------------------------------------
(* The steps that several actions share.                                   *)

(* A step of one task that is not, and comes not to be, between its read   *)
(* and its entry, except that it may give up before its rename.            *)
LEMMA QuietStep ==
  ASSUME Inv, NEW t \in Tasks, NEW r \in Task, Become(t, r), LocalsOK(r),
         r.pc \notin Writing \cup {"open"}, task[t].pc \notin {"remove", "commit"},
         UNCHANGED <<disk, owed, overlapped, unrecorded, manifest>>
  PROVE  CoreOK'
<1> USE DEF Inv, CoreOK
<1>1. /\ task'[t] = r /\ \A u \in Tasks \ {t} : task'[u] = task[u]
      /\ UNCHANGED <<plain, tmp, enc, saved, owed, overlapped, unrecorded, manifest>>
  BY DEF Become, TypeOK, disk
<1>2. \A u \in Tasks : task'[u].pc \in Writing \cup {"open"} => task'[u] = task[u]
  BY <1>1
<1>3. \A u \in Tasks : Renamed(u) <=> (task'[u] = task[u] /\ task'[u].pc \in {"remove", "commit"})
  BY <1>1 DEF Renamed, Writing
<1>4. (\A u \in Tasks : LocalsOK(task[u]))'
  BY <1>1
<1>5. OwedOK'
  BY <1>1, <1>2 DEF OwedOK, PastReading, Writing
<1>6. AloneOK'
  BY <1>1, <1>2 DEF AloneOK
<1>7. FilesOK'
  BY <1>1, <1>2 DEF FilesOK, Writing
<1>8. TagsOK(manifest)' /\ TagsOK(saved)'
  BY <1>1, <1>3 DEF TagsOK, Whole, Renamed
<1>9. NothingLost'
  BY <1>1 DEF NothingLost, Whole
<1>10. RemovedIsListed'
  BY <1>1, <1>3 DEF RemovedIsListed, At, Renamed
<1> QED  BY <1>4, <1>5, <1>6, <1>7, <1>8, <1>9, <1>10

(* A step of one task that marks at most the file it will unmark, and does *)
(* not forget one.                                                         *)
LEMMA MarkStep ==
  ASSUME Inv, NEW t \in Tasks, NEW r \in Task, Become(t, r),
         \A p \in inFlight' : p \in inFlight \/ (r.pc \in Marked /\ r.path = p),
         (task[t].pc \in Marked /\ task[t].path \in inFlight')
            => r.pc \in Marked /\ r.path = task[t].path
  PROVE  MarkHasTask'
<1>1. task'[t] = r /\ \A u \in Tasks \ {t} : task'[u] = task[u]
  BY DEF Inv, TypeOK, Become
<1> SUFFICES ASSUME NEW p \in inFlight'
             PROVE  \E u \in Tasks : task'[u].path = p /\ task'[u].pc \in Marked
  BY DEF MarkHasTask, Marked
<1>2. CASE r.pc \in Marked /\ r.path = p
  BY <1>1, <1>2
<1>3. CASE p \in inFlight
  <2>1. PICK u \in Tasks : task[u].path = p /\ task[u].pc \in Marked
    BY <1>3 DEF Inv, MarkHasTask, Marked
  <2> QED  BY <1>1, <2>1
<1> QED  BY <1>2, <1>3

(* All that an action made of such a step has to show.                     *)
LEMMA QuietInv ==
  ASSUME Inv, NEW t \in Tasks, NEW r \in Task, Become(t, r), LocalsOK(r),
         r.pc \in Encrypting => r.key \in Keys,
         r.pc \notin Writing \cup {"open"}, task[t].pc \notin {"remove", "commit"},
         UNCHANGED <<disk, owed, overlapped, unrecorded, manifest>>,
         events' \in Seq(Event), pnk' \in PnkKeys \cup {None}, pending' \in Seq(Paths),
         outside' \in 0..MaxOutside,
         inFlight' \subseteq Paths,
         \A p \in inFlight' : p \in inFlight \/ (r.pc \in Marked /\ r.path = p),
         (task[t].pc \in Marked /\ task[t].path \in inFlight')
            => r.pc \in Marked /\ r.path = task[t].path
  PROVE  Inv'
<1>1. CoreOK'
  BY QuietStep
<1>2. MarkHasTask'
  BY MarkStep
<1>3. TypeOK'
  <2>1. TypeOK
    BY DEF Inv
  <2>2. /\ task' \in [Tasks -> Task]
        /\ \A u \in Tasks : task'[u].pc \in Encrypting => task'[u].key \in Keys
    BY <2>1, TaskTyped
  <2> QED  BY <2>1, <2>2 DEF TypeOK, disk
<1> QED  BY <1>1, <1>2, <1>3 DEF Inv

LEMMA TaskFields ==
  ASSUME Inv, NEW t \in Tasks
  PROVE  /\ task[t] \in Task /\ task[t].todo \in Seq(Paths)
         /\ LocalsOK(task[t])
         /\ task[t].pc \in Encrypting => task[t].key \in Keys
  BY DEF Inv, TypeOK, CoreOK, Task

LEMMA BaseTypes ==
  ASSUME Inv
  PROVE  /\ events \in Seq(Event) /\ pnk \in PnkKeys \cup {None} /\ pending \in Seq(Paths)
         /\ outside \in 0..MaxOutside /\ inFlight \subseteq Paths
         /\ FileTask \in Tasks /\ Clients \subseteq Tasks
  BY DEF Inv, TypeOK, Tasks

(* The sequences that list a set of paths are finite.                      *)
LEMMA ScanTyped ==
  ASSUME NEW S \in SUBSET Paths, NEW found \in SetToSeqs(S)
  PROVE  found \in Seq(Paths)
<1>1. Cardinality(S) \in Nat
  BY PathsAssumption, FS_Subset, FS_CardinalityType
<1>2. found \in [1..Cardinality(S) -> S]
  BY DEF SetToSeqs
<1>3. found \in [1..Cardinality(S) -> Paths]
  BY <1>2
<1> QED  BY <1>1, <1>3, IsASeq

LEMMA AppendPath ==
  ASSUME NEW q \in Seq(Paths), NEW p \in Paths
  PROVE  Append(q, p) \in Seq(Paths)
  OBVIOUS

LEMMA StartupScanInv ==
  ASSUME Inv, StartupScan
  PROVE  Inv'
<1> DEFINE r == [task[FileTask] EXCEPT !.pc = "idle"]
<1> USE TaskFields, BaseTypes
<1>1. r \in Task /\ r.pc = "idle" /\ Become(FileTask, r)
  BY DEF StartupScan, Goto, Task, PCs
<1>2. pending' \in Seq(Paths)
  <2>1. PICK found \in SetToSeqs({p \in Paths : plain[p] # None}) : pending' = pending \o found
    BY DEF StartupScan
  <2>2. found \in Seq(Paths)
    BY ScanTyped
  <2> QED  BY <2>1, <2>2
<1>3. task[FileTask].pc = "scan"
  BY DEF StartupScan, At
<1>4. UNCHANGED <<disk, owed, overlapped, unrecorded, outside, manifest, events, pnk, inFlight>>
  BY DEF StartupScan, ghosts
<1> HIDE DEF r
<1>5. LocalsOK(r) /\ r.pc \notin Encrypting /\ r.pc \notin Writing \cup {"open"}
  BY <1>1 DEF LocalsOK, Marked, Writing, Encrypting
<1> QED  BY <1>1, <1>2, <1>3, <1>4, <1>5, QuietInv DEF Marked

(* Steps to idle, with rest to do.                                         *)
LEMMA IdleInv ==
  ASSUME Inv, NEW t \in Tasks, NEW rest \in Seq(Paths), Become(t, Idle(rest)),
         task[t].pc \notin Marked \/ (task[t].pc = "fail" /\ inFlight' = inFlight \ {task[t].path}),
         inFlight' \subseteq inFlight,
         UNCHANGED <<disk, ghosts, events, manifest>> \/
           (UNCHANGED <<disk, ghosts, manifest>> /\ events' \in Seq(Event)),
         pnk' \in PnkKeys \cup {None}, pending' \in Seq(Paths)
  PROVE  Inv'
<1> USE BaseTypes
<1>1. /\ Idle(rest) \in Task /\ LocalsOK(Idle(rest)) /\ Idle(rest).pc \notin Encrypting
      /\ Idle(rest).pc \notin Writing \cup {"open"}
  BY IdleIsTask DEF LocalsOK, Marked, Writing, Encrypting
<1>2. UNCHANGED <<disk, owed, overlapped, unrecorded, outside, manifest>> /\ events' \in Seq(Event)
  BY DEF ghosts
<1>3. task[t].pc \notin {"remove", "commit"}
  BY DEF Marked
<1>4. (task[t].pc \in Marked /\ task[t].path \in inFlight') => FALSE
  OBVIOUS
<1> QED  BY <1>1, <1>2, <1>3, <1>4, QuietInv

LEMMA HandleFileInv ==
  ASSUME Inv, Free(FileTask), NEW e \in Event, events' \in Seq(Event), HandleFile(e)
  PROVE  Inv'
<1> USE BaseTypes
<1>1. PICK changed : Become(FileTask, Idle(IF changed THEN <<e.path>> ELSE <<>>))
  BY DEF HandleFile
<1>2. e.path \in Paths
  BY DEF HandleFile, Event
<1>3. (IF changed THEN <<e.path>> ELSE <<>>) \in Seq(Paths)
  BY <1>2
<1>4. task[FileTask].pc = "idle"
  BY DEF Free, Idle
<1>5. UNCHANGED <<disk, ghosts, pnk, pending, inFlight, manifest>>
  BY DEF HandleFile
<1> QED  BY <1>1, <1>3, <1>4, <1>5, IdleInv DEF Marked

LEMMA EncryptFileInv ==
  ASSUME Inv, NEW t \in Clients, NEW p \in Paths, EncryptFile(t, p)
  PROVE  Inv'
<1> USE BaseTypes
<1>1. Become(t, Idle(<<p>>)) /\ <<p>> \in Seq(Paths)
  BY DEF EncryptFile
<1>2. task[t].pc = "idle"
  BY DEF EncryptFile, Free, Idle
<1>3. UNCHANGED <<disk, ghosts, events, pnk, pending, inFlight, manifest>>
  BY DEF EncryptFile
<1> QED  BY <1>1, <1>2, <1>3, IdleInv DEF Marked

LEMMA EncryptFileToNetworkInv ==
  ASSUME Inv, NEW t \in Clients, NEW p \in Paths, NEW n \in Networks, EncryptFileToNetwork(t, p, n)
  PROVE  Inv'
<1> DEFINE r == [pc |-> "read", todo |-> <<>>, path |-> p, key |-> n, content |-> None,
                 handle |-> "none"]
<1> USE BaseTypes
<1>1. r \in Task /\ r.pc = "read" /\ r.path = p /\ r.key = n /\ Become(t, r)
  BY DEF EncryptFileToNetwork, Task, PCs, Keys
<1>2. task[t].pc = "idle"
  BY DEF EncryptFileToNetwork, Free, Idle
<1>3. /\ UNCHANGED <<disk, owed, overlapped, unrecorded, outside, events, pnk, pending, manifest>>
      /\ inFlight' = inFlight \cup {p}
  BY DEF EncryptFileToNetwork, ghosts
<1> HIDE DEF r
<1>4. LocalsOK(r) /\ r.key \in Keys /\ r.pc \notin Writing \cup {"open"} /\ r.pc \in Marked
  BY <1>1 DEF LocalsOK, Marked, Writing, Keys
<1> QED  BY <1>1, <1>2, <1>3, <1>4, QuietInv DEF Marked

LEMMA LoginInv ==
  ASSUME Inv, NEW t \in Clients, NEW k \in PnkKeys, Login(t, k)
  PROVE  Inv'
<1> DEFINE r == [task[t] EXCEPT !.pc = "drain"]
<1> USE BaseTypes, TaskFields
<1>1. r \in Task /\ r.pc = "drain" /\ Become(t, r)
  BY DEF Login, Goto, Task, PCs
<1>2. task[t].pc = "idle"
  BY DEF Login, Free, Idle
<1>3. /\ UNCHANGED <<disk, owed, overlapped, unrecorded, outside, events, pending, inFlight, manifest>>
      /\ pnk' = k
  BY DEF Login, ghosts
<1> HIDE DEF r
<1>4. LocalsOK(r) /\ r.pc \notin Encrypting /\ r.pc \notin Writing \cup {"open"}
  BY <1>1 DEF LocalsOK, Marked, Writing, Encrypting
<1> QED  BY <1>1, <1>2, <1>3, <1>4, QuietInv DEF Marked

LEMMA DrainPendingInv ==
  ASSUME Inv, NEW t \in Clients, DrainPending(t)
  PROVE  Inv'
<1> USE BaseTypes
<1>1. Become(t, Idle(pending)) /\ pending' = <<>>
  BY DEF DrainPending
<1>2. task[t].pc = "drain"
  BY DEF DrainPending, At
<1>3. UNCHANGED <<disk, ghosts, events, pnk, inFlight, manifest>>
  BY DEF DrainPending
<1> QED  BY <1>1, <1>2, <1>3, IdleInv DEF Marked

-----------------------------------------------------------------------------
(* encrypt_file_from_watcher and do_encrypt up to the .tmp file.           *)

LEMMA NextPath ==
  ASSUME Inv, NEW t \in Tasks, task[t].todo # <<>>
  PROVE  Head(task[t].todo) \in Paths /\ Tail(task[t].todo) \in Seq(Paths)
  BY TaskFields

LEMMA CheckInv ==
  ASSUME Inv, NEW t \in Tasks, Check(t)
  PROVE  Inv'
<1> DEFINE p == Head(task[t].todo)
           rest == Tail(task[t].todo)
           queued == [Idle(rest) EXCEPT !.pc = "queue", !.path = p]
           marking == [Idle(rest) EXCEPT !.pc = "mark", !.path = p, !.key = pnk]
<1> USE BaseTypes
<1>1. p \in Paths /\ rest \in Seq(Paths)
  BY NextPath DEF Check
<1>2. /\ task[t].pc = "idle"
      /\ UNCHANGED <<disk, ghosts, events, pnk, pending, inFlight, manifest>>
  BY DEF Check, At
<1>3. \/ Become(t, Idle(rest)) \/ Become(t, queued) \/ (pnk # None /\ Become(t, marking))
  BY DEF Check
<1>4. Idle(rest) \in Task
  BY <1>1, IdleIsTask
<1>5. CASE Become(t, Idle(rest))
  BY <1>1, <1>2, <1>5, IdleInv DEF Marked
<1>6. CASE Become(t, queued)
  <2>1. queued \in Task /\ queued.pc = "queue" /\ queued.path = p
    BY <1>1, <1>4 DEF Task, PCs
  <2> HIDE DEF queued
  <2>2. LocalsOK(queued) /\ queued.pc \notin Encrypting /\ queued.pc \notin Writing \cup {"open"}
    BY <1>1, <2>1 DEF LocalsOK, Writing, Encrypting
  <2> QED  BY <1>2, <1>6, <2>1, <2>2, QuietInv DEF Marked, ghosts
<1>7. CASE pnk # None /\ Become(t, marking)
  <2>1. marking \in Task /\ marking.pc = "mark" /\ marking.path = p /\ marking.key = pnk
    BY <1>1, <1>4, <1>7 DEF Task, PCs, Keys
  <2> HIDE DEF marking
  <2>2. LocalsOK(marking) /\ marking.key \in Keys /\ marking.pc \notin Writing \cup {"open"}
    BY <1>1, <1>7, <2>1 DEF LocalsOK, Writing, Keys
  <2> QED  BY <1>2, <1>7, <2>1, <2>2, QuietInv DEF Marked, ghosts
<1> QED  BY <1>3, <1>5, <1>6, <1>7

LEMMA QueueInv ==
  ASSUME Inv, NEW t \in Tasks, Queue(t)
  PROVE  Inv'
<1> USE BaseTypes, TaskFields
<1>1. task[t].pc = "queue" /\ Become(t, Idle(task[t].todo)) /\ task[t].path \in Paths
  BY DEF Queue, At, LocalsOK
<1>2. pending' \in Seq(Paths)
  BY <1>1, AppendPath DEF Queue
<1>3. UNCHANGED <<disk, ghosts, events, pnk, inFlight, manifest>>
  BY DEF Queue
<1> QED  BY <1>1, <1>2, <1>3, IdleInv DEF Marked

LEMMA MarkInv ==
  ASSUME Inv, NEW t \in Tasks, Mark(t)
  PROVE  Inv'
<1> DEFINE r == [task[t] EXCEPT !.pc = "read"]
<1> USE BaseTypes, TaskFields
<1>1. task[t].pc = "mark" /\ Become(t, r)
  BY DEF Mark, At, Goto
<1>2. task[t].path \in Paths /\ task[t].key \in Keys
  BY <1>1 DEF LocalsOK, Encrypting
<1>3. r \in Task /\ r.pc = "read" /\ r.path = task[t].path /\ r.key = task[t].key
  BY DEF Task, PCs
<1>4. /\ UNCHANGED <<disk, owed, overlapped, unrecorded, outside, events, pnk, pending, manifest>>
      /\ inFlight' = inFlight \cup {task[t].path}
  BY DEF Mark, ghosts
<1> HIDE DEF r
<1>5. LocalsOK(r) /\ r.pc \notin Writing \cup {"open"}
  BY <1>2, <1>3 DEF LocalsOK, Writing
<1> QED  BY <1>1, <1>2, <1>3, <1>4, <1>5, QuietInv DEF Marked

LEMMA GiveUpTyped ==
  ASSUME Inv, NEW t \in Tasks, GiveUp(t), task[t].pc \in Marked
  PROVE  \E r \in Task : /\ Become(t, r) /\ LocalsOK(r)
                         /\ r.pc = "fail" /\ r.path = task[t].path /\ r.path \in Paths
<1> DEFINE r == [Idle(task[t].todo) EXCEPT !.pc = "fail", !.path = task[t].path]
<1>1. task[t].path \in Paths /\ Idle(task[t].todo) \in Task
  BY TaskFields, IdleIsTask DEF LocalsOK
<1>2. r \in Task /\ r.pc = "fail" /\ r.path = task[t].path
  BY <1>1 DEF Task, PCs
<1>3. Become(t, r)
  BY DEF GiveUp
<1> HIDE DEF r
<1> QED  BY <1>1, <1>2, <1>3 DEF LocalsOK, Writing

(* A task that gives up before its rename.                                 *)
LEMMA GiveUpInv ==
  ASSUME Inv, NEW t \in Tasks, GiveUp(t), task[t].pc \in {"read", "open", "fill", "rename"},
         UNCHANGED <<disk, owed, overlapped, unrecorded, events, pnk, pending, inFlight, manifest>>,
         outside' \in 0..MaxOutside
  PROVE  Inv'
<1> USE BaseTypes
<1>1. PICK r \in Task : /\ Become(t, r) /\ LocalsOK(r)
                        /\ r.pc = "fail" /\ r.path = task[t].path /\ r.path \in Paths
  BY GiveUpTyped DEF Marked
<1>2. r.pc \notin Encrypting /\ r.pc \notin Writing \cup {"open"} /\ r.pc \in Marked
  BY <1>1 DEF Encrypting, Writing, Marked
<1> QED  BY <1>1, <1>2, QuietInv

LEMMA FailInv ==
  ASSUME Inv, NEW t \in Tasks, Fail(t)
  PROVE  Inv'
<1> USE BaseTypes, TaskFields
<1>1. task[t].pc = "fail" /\ Become(t, Idle(task[t].todo)) /\ inFlight' = inFlight \ {task[t].path}
  BY DEF Fail, At
<1>2. UNCHANGED <<disk, ghosts, events, pnk, pending, manifest>>
  BY DEF Fail
<1> QED  BY <1>1, <1>2, IdleInv

LEMMA SetPnkInv ==
  ASSUME Inv, SetPnk
  PROVE  Inv'
<1>1. TypeOK'
  BY DEF Inv, SetPnk, TypeOK, disk, ghosts
<1>2. MarkHasTask'
  BY DEF Inv, SetPnk, MarkHasTask
<1>3. CoreOK'
  BY DEF Inv, SetPnk, CoreOK, disk, ghosts, OwedOK, AloneOK, FilesOK, TagsOK, NothingLost,
         RemovedIsListed, Whole, Renamed, At
<1> QED  BY <1>1, <1>2, <1>3 DEF Inv

-----------------------------------------------------------------------------
(* From the read to the entry.                                             *)

LEMMA NoneIsNoData == None \notin Keys /\ None \notin Contents /\ None \notin Networks
  BY NoneAssumption DEF Keys

LEMMA ReadFileInv ==
  ASSUME Inv, NEW t \in Tasks, ReadFile(t)
  PROVE  Inv'
<1> DEFINE p == task[t].path
           r == [task[t] EXCEPT !.pc = "open", !.content = plain[p]]
<1> USE BaseTypes, TaskFields
<1>1. task[t].pc = "read" /\ p \in Paths /\ task[t].key \in Keys
  BY DEF ReadFile, At, LocalsOK, Marked, Encrypting
<1>2. UNCHANGED <<disk, ghosts, events, pnk, pending, inFlight, manifest>>
  BY DEF ReadFile
<1>3. CASE GiveUp(t)
  BY <1>1, <1>2, <1>3, GiveUpInv DEF ghosts
<1>4. CASE plain[p] # None /\ Become(t, r)
  <2>1. plain[p] \in Contents
    BY <1>1, <1>4 DEF Inv, TypeOK
  <2>2. /\ r \in Task /\ r.pc = "open" /\ r.content = plain[p]
        /\ r.path = p /\ r.key = task[t].key
    BY <2>1 DEF Task, PCs
  <2> HIDE DEF r
  <2>3. /\ task' \in [Tasks -> Task]
        /\ \A u \in Tasks : task'[u].pc \in Encrypting => task'[u].key \in Keys
        /\ task'[t] = r
        /\ \A u \in Tasks \ {t} : task'[u] = task[u]
    BY <1>1, <1>4, <2>2, TaskTyped DEF Inv
  <2>4. TypeOK'
    BY <1>2, <2>3 DEF Inv, TypeOK, disk, ghosts
  <2>5. MarkHasTask'
    BY <1>1, <1>2, <1>4, <2>2, MarkStep DEF Marked
  <2>6. CoreOK'
    <3> USE DEF Inv, CoreOK
    <3>1. /\ UNCHANGED <<plain, tmp, enc, saved, owed, overlapped, unrecorded, manifest>>
          /\ \A u \in Tasks : task'[u].pc \in Writing => task'[u] = task[u]
          /\ \A u \in Tasks : task[u].pc \in Writing => task'[u] = task[u]
      BY <1>1, <1>2, <2>2, <2>3 DEF disk, ghosts, Writing
    <3>2. (\A u \in Tasks : LocalsOK(task[u]))'
      BY <1>1, <2>1, <2>2, <2>3 DEF LocalsOK, Writing
    <3>3. OwedOK'
      <4>1. owed[p] \in {None, plain[p]}
        BY <1>1, <1>4 DEF OwedOK
      <4> QED  BY <2>2, <2>3, <3>1, <4>1 DEF OwedOK
    <3>4. AloneOK'
      BY <3>1 DEF AloneOK
    <3>5. FilesOK'
      BY <3>1 DEF FilesOK, Writing
    <3>6. TagsOK(manifest)' /\ TagsOK(saved)'
      BY <3>1 DEF TagsOK, Whole, Renamed, Writing
    <3>7. NothingLost'
      BY <3>1 DEF NothingLost, Whole
    <3>8. RemovedIsListed'
      BY <3>1 DEF RemovedIsListed, At, Writing
    <3> QED  BY <3>2, <3>3, <3>4, <3>5, <3>6, <3>7, <3>8
  <2> QED  BY <2>4, <2>5, <2>6 DEF Inv
<1> QED  BY <1>3, <1>4 DEF ReadFile

LEMMA OpenTmpInv ==
  ASSUME Inv, NEW t \in Tasks, OpenTmp(t)
  PROVE  Inv'
<1> DEFINE c == task[t].content
           r == [task[t] EXCEPT !.pc = "fill", !.handle = "tmp"]
<1> USE BaseTypes, TaskFields
<1>1. task[t].pc = "open" /\ task[t].path \in Paths /\ c \in Contents /\ task[t].key \in Keys
  BY DEF OpenTmp, At, LocalsOK, Marked, Encrypting
<1>2. /\ tmp' = [tmp EXCEPT ![c] = Torn]
      /\ overlapped' \in {overlapped, overlapped \cup {c}}
      /\ \A u \in Tasks \ {t} :
           (task[u].content = c /\ task[u].pc \in Writing) => c \in overlapped'
      /\ UNCHANGED <<plain, enc, saved, owed, unrecorded, outside, events, pnk, pending,
                     inFlight, manifest>>
  BY DEF OpenTmp, Writing
<1>3. r \in Task /\ Become(t, r)
  BY DEF OpenTmp, Task, PCs
<1>4. /\ r.pc = "fill" /\ r.content = c /\ r.path = task[t].path
      /\ r.key = task[t].key /\ r.handle = "tmp"
  BY DEF Task
<1> HIDE DEF r
<1>5. /\ task' \in [Tasks -> Task]
      /\ \A u \in Tasks : task'[u].pc \in Encrypting => task'[u].key \in Keys
      /\ task'[t] = r
      /\ \A u \in Tasks \ {t} : task'[u] = task[u]
  BY <1>1, <1>3, <1>4, TaskTyped DEF Inv
<1>6. TypeOK'
  <2>1. tmp' \in [Contents -> File]
    BY <1>2 DEF Inv, TypeOK, File
  <2> QED  BY <1>1, <1>2, <1>5, <2>1 DEF Inv, TypeOK
<1>7. MarkHasTask'
  BY <1>1, <1>2, <1>3, <1>4, MarkStep DEF Marked
<1>8. CoreOK'
  <2> USE DEF Inv, CoreOK
  <2>1. (\A u \in Tasks : LocalsOK(task[u]))'
    BY <1>1, <1>4, <1>5 DEF LocalsOK
  <2>2. OwedOK'
    BY <1>1, <1>2, <1>4, <1>5 DEF OwedOK, PastReading
  <2>3. AloneOK'
    BY <1>2, <1>4, <1>5 DEF AloneOK
  <2>4. FilesOK'
    <3> SUFFICES ASSUME NEW u \in Tasks, task'[u].content \notin overlapped', task'[u].pc \in Writing
                 PROVE  /\ task'[u].pc = "fill" => task'[u].handle = "tmp"
                        /\ task'[u].pc = "rename" => tmp'[task'[u].content] = task'[u].key
                        /\ task'[u].pc \in {"remove", "commit"}
                             => enc'[task'[u].content] \in {None, task'[u].key}
                        /\ (task'[u].pc = "remove" /\ owed'[task'[u].path] = task'[u].content)
                             => enc'[task'[u].content] # None
      BY DEF FilesOK, Writing
    <3>1. CASE u = t
      BY <1>4, <1>5, <3>1
    <3>2. CASE u # t
      <4>1. task'[u] = task[u] /\ task[u].content # c /\ task[u].content \in Contents
        BY <1>2, <1>5, <3>2 DEF LocalsOK
      <4>2. tmp'[task[u].content] = tmp[task[u].content]
        BY <1>2, <4>1 DEF TypeOK
      <4>3. task[u].content \notin overlapped
        BY <1>2, <4>1
      <4> QED  BY <1>2, <4>1, <4>2, <4>3 DEF FilesOK
    <3> QED  BY <3>1, <3>2
  <2>5. /\ \A u \in Tasks : task'[u].pc \in {"remove", "commit"} => task'[u] = task[u]
        /\ \A u \in Tasks : task[u].pc \in {"remove", "commit"} => task'[u] = task[u]
        /\ overlapped \subseteq overlapped'
    BY <1>1, <1>2, <1>4, <1>5
  <2>6. TagsOK(manifest)' /\ TagsOK(saved)'
    BY <1>2, <2>5 DEF TagsOK, Whole, Renamed
  <2>7. NothingLost'
    BY <1>2, <2>5 DEF NothingLost, Whole
  <2>8. RemovedIsListed'
    BY <1>2, <2>5 DEF RemovedIsListed, At
  <2> QED  BY <2>1, <2>2, <2>3, <2>4, <2>6, <2>7, <2>8
<1> QED  BY <1>6, <1>7, <1>8 DEF Inv

(* While t writes a content that is not overlapped, no other task does.    *)
LEMMA Alone ==
  ASSUME Inv, NEW t \in Tasks, task[t].pc \in Writing,
         NEW u \in Tasks, u # t, task[u].pc \in Writing, task[u].content \notin overlapped
  PROVE  task[u].content # task[t].content /\ task[u].content \in Contents
  BY DEF Inv, CoreOK, AloneOK, LocalsOK

LEMMA FillTmpInv ==
  ASSUME Inv, NEW t \in Tasks, FillTmp(t)
  PROVE  Inv'
<1> DEFINE c == task[t].content
           key == task[t].key
           r == [task[t] EXCEPT !.pc = "rename", !.handle = "none"]
<1> USE BaseTypes, TaskFields
<1>1. /\ task[t].pc = "fill" /\ task[t].path \in Paths /\ c \in Contents /\ key \in Keys
  BY DEF FillTmp, At, LocalsOK, Marked, Writing, Encrypting
<1>2. /\ tmp' = IF task[t].handle = "tmp" THEN [tmp EXCEPT ![c] = key] ELSE tmp
      /\ enc' = IF task[t].handle = "enc" THEN [enc EXCEPT ![c] = key] ELSE enc
      /\ UNCHANGED <<plain, saved, owed, overlapped, unrecorded, outside, events, pnk, pending,
                     inFlight, manifest>>
  BY DEF FillTmp, ghosts
<1>3. r \in Task /\ Become(t, r)
  BY DEF FillTmp, Task, PCs
<1>4. /\ r.pc = "rename" /\ r.content = c /\ r.path = task[t].path /\ r.key = key
  BY DEF Task
<1> HIDE DEF r
<1>5. /\ task' \in [Tasks -> Task]
      /\ \A u \in Tasks : task'[u].pc \in Encrypting => task'[u].key \in Keys
      /\ task'[t] = r
      /\ \A u \in Tasks \ {t} : task'[u] = task[u]
  BY <1>1, <1>3, <1>4, TaskTyped DEF Inv
<1>6. tmp' \in [Contents -> File] /\ enc' \in [Contents -> File]
  BY <1>1, <1>2 DEF Inv, TypeOK, File
<1>7. TypeOK'
  BY <1>2, <1>5, <1>6 DEF Inv, TypeOK
<1>8. MarkHasTask'
  BY <1>1, <1>2, <1>3, <1>4, MarkStep DEF Marked
<1>9. c \notin overlapped => task[t].handle = "tmp" /\ tmp'[c] = key /\ enc' = enc
  BY <1>1, <1>2 DEF Inv, TypeOK, CoreOK, FilesOK
<1>10. \A d \in Contents : /\ d # c => tmp'[d] = tmp[d] /\ enc'[d] = enc[d]
                           /\ enc'[d] \in {enc[d], key}
  BY <1>1, <1>2 DEF Inv, TypeOK
<1>11. CoreOK'
  <2> USE DEF Inv, CoreOK
  <2>1. (\A u \in Tasks : LocalsOK(task[u]))'
    BY <1>1, <1>4, <1>5 DEF LocalsOK
  <2>2. OwedOK'
    BY <1>1, <1>2, <1>4, <1>5 DEF OwedOK, PastReading
  <2>3. AloneOK'
    BY <1>1, <1>2, <1>4, <1>5 DEF AloneOK, Writing
  <2>4. FilesOK'
    <3> SUFFICES ASSUME NEW u \in Tasks, task'[u].content \notin overlapped', task'[u].pc \in Writing
                 PROVE  /\ task'[u].pc = "fill" => task'[u].handle = "tmp"
                        /\ task'[u].pc = "rename" => tmp'[task'[u].content] = task'[u].key
                        /\ task'[u].pc \in {"remove", "commit"}
                             => enc'[task'[u].content] \in {None, task'[u].key}
                        /\ (task'[u].pc = "remove" /\ owed'[task'[u].path] = task'[u].content)
                             => enc'[task'[u].content] # None
      BY DEF FilesOK, Writing
    <3>1. CASE u = t
      BY <1>2, <1>4, <1>5, <1>9, <3>1
    <3>2. CASE u # t
      <4>1. task'[u] = task[u] /\ task[u].content # c /\ task[u].content \in Contents
        BY <1>1, <1>2, <1>5, <3>2, Alone DEF Writing
      <4> QED  BY <1>2, <1>10, <4>1 DEF FilesOK
    <3> QED  BY <3>1, <3>2
  <2>5. /\ \A u \in Tasks : task'[u].pc \in {"remove", "commit"} => task'[u] = task[u]
        /\ \A u \in Tasks : task[u].pc \in {"remove", "commit"} => task'[u] = task[u]
    BY <1>1, <1>4, <1>5
  <2>6. \A d \in Contents : d \notin overlapped => enc'[d] = enc[d]
    BY <1>9, <1>10
  <2>7. TagsOK(manifest)' /\ TagsOK(saved)'
    BY <1>2, <2>5, <2>6 DEF TagsOK, Whole, Renamed
  <2>8. NothingLost'
    BY <1>2, <2>6 DEF NothingLost, Whole, TypeOK
  <2>9. RemovedIsListed'
    BY <1>2, <2>5 DEF RemovedIsListed, At
  <2> QED  BY <2>1, <2>2, <2>3, <2>4, <2>7, <2>8, <2>9
<1> QED  BY <1>7, <1>8, <1>11 DEF Inv

(* FilesOK, task by task.                                                  *)
LEMMA FilesIntro ==
  ASSUME \A u \in Tasks :
           (task'[u].content \notin overlapped' /\ task'[u].pc \in Writing) =>
             /\ task'[u].pc = "fill" => task'[u].handle = "tmp"
             /\ task'[u].pc = "rename" => tmp'[task'[u].content] = task'[u].key
             /\ task'[u].pc \in {"remove", "commit"}
                  => enc'[task'[u].content] \in {None, task'[u].key}
             /\ (task'[u].pc = "remove" /\ owed'[task'[u].path] = task'[u].content)
                  => enc'[task'[u].content] # None
  PROVE  FilesOK'
  BY DEF FilesOK, Writing

LEMMA RenameTyped ==
  ASSUME Inv, NEW u \in Tasks, NEW c \in Contents
  PROVE  /\ AfterRename(u, c) \in Task
         /\ AfterRename(u, c).pc = task[u].pc /\ AfterRename(u, c).path = task[u].path
         /\ AfterRename(u, c).key = task[u].key /\ AfterRename(u, c).content = task[u].content
         /\ task[u].content # c => AfterRename(u, c) = task[u]
<1>1. task[u] \in Task
  BY TaskFields
<1>2. CASE task[u].content # c
  BY <1>1, <1>2 DEF AfterRename
<1>3. CASE task[u].content = c
  <2> DEFINE h == CASE task[u].handle = "tmp" -> "enc" [] task[u].handle = "enc" -> "gone"
                    [] OTHER -> task[u].handle
  <2>1. h \in {"none", "tmp", "enc", "gone"}
    BY <1>1 DEF Task
  <2>2. AfterRename(u, c) = [task[u] EXCEPT !.handle = h]
    BY <1>3 DEF AfterRename
  <2> HIDE DEF h
  <2> QED  BY <1>1, <1>3, <2>1, <2>2 DEF Task
<1> QED  BY <1>2, <1>3

LEMMA PutInPlaceInv ==
  ASSUME Inv, NEW t \in Tasks, task[t].pc = "rename", PutInPlace(t),
         UNCHANGED <<plain, saved, ghosts, events, pnk, pending, inFlight, manifest>>
  PROVE  Inv'
<1> DEFINE c == task[t].content
           r == [task[t] EXCEPT !.pc = "remove"]
<1> USE BaseTypes, TaskFields
<1>1. /\ task[t].path \in Paths /\ c \in Contents /\ task[t].key \in Keys
  BY DEF LocalsOK, Marked, Writing, Encrypting
<1>2. /\ enc' = [enc EXCEPT ![c] = tmp[c]] /\ tmp' = [tmp EXCEPT ![c] = None]
      /\ task' = [u \in Tasks |-> IF u = t THEN r ELSE AfterRename(u, c)]
  BY DEF PutInPlace
<1>3. UNCHANGED <<plain, saved, owed, overlapped, unrecorded, outside, events, pnk, pending,
                  inFlight, manifest>>
  BY DEF ghosts
<1>4. /\ r \in Task /\ r.pc = "remove" /\ r.content = c /\ r.path = task[t].path
      /\ r.key = task[t].key
  BY DEF Task, PCs
<1> HIDE DEF r
<1>5. /\ task' \in [Tasks -> Task] /\ task'[t] = r
      /\ \A u \in Tasks \ {t} :
           /\ task'[u].pc = task[u].pc /\ task'[u].path = task[u].path
           /\ task'[u].key = task[u].key /\ task'[u].content = task[u].content
           /\ task[u].content # c => task'[u] = task[u]
  BY <1>1, <1>2, <1>4, RenameTyped
<1>6. TypeOK'
  <2>1. tmp' \in [Contents -> File] /\ enc' \in [Contents -> File]
    BY <1>1, <1>2 DEF Inv, TypeOK, File
  <2>2. \A u \in Tasks : task'[u].pc \in Encrypting => task'[u].key \in Keys
    BY <1>1, <1>4, <1>5
  <2> QED  BY <1>3, <1>5, <2>1, <2>2 DEF Inv, TypeOK
<1>7. MarkHasTask'
  <2>1. \A u \in Tasks : task[u].pc \in Marked
                         => task'[u].pc \in Marked /\ task'[u].path = task[u].path
    BY <1>4, <1>5 DEF Marked
  <2> QED  BY <1>3, <2>1 DEF Inv, MarkHasTask, Marked
<1>8. CoreOK'
  <2> USE DEF Inv, CoreOK
  <2>1. (\A u \in Tasks : LocalsOK(task[u]))'
    BY <1>1, <1>4, <1>5 DEF LocalsOK
  <2>2. OwedOK'
    BY <1>1, <1>3, <1>4, <1>5 DEF OwedOK, PastReading
  <2>3. AloneOK'
    BY <1>1, <1>3, <1>4, <1>5 DEF AloneOK, Writing
  <2>4. c \notin overlapped => enc'[c] = task[t].key
    BY <1>1, <1>2 DEF FilesOK, TypeOK
  <2>5. \A d \in Contents \ {c} : tmp'[d] = tmp[d] /\ enc'[d] = enc[d]
    BY <1>1, <1>2 DEF TypeOK
  <2>6. FilesOK'
    <3>1. ASSUME NEW u \in Tasks, u # t, task'[u].content \notin overlapped', task'[u].pc \in Writing
          PROVE  /\ task'[u] = task[u] /\ tmp'[task[u].content] = tmp[task[u].content]
                 /\ enc'[task[u].content] = enc[task[u].content]
                 /\ task[u].content \notin overlapped /\ task[u].pc \in Writing
      BY <1>3, <1>5, <2>5, <3>1, Alone DEF Writing
    <3>2. \A u \in Tasks \ {t} :
           (task'[u].content \notin overlapped' /\ task'[u].pc \in Writing) =>
             /\ task'[u].pc = "fill" => task'[u].handle = "tmp"
             /\ task'[u].pc = "rename" => tmp'[task'[u].content] = task'[u].key
             /\ task'[u].pc \in {"remove", "commit"}
                  => enc'[task'[u].content] \in {None, task'[u].key}
             /\ (task'[u].pc = "remove" /\ owed'[task'[u].path] = task'[u].content)
                  => enc'[task'[u].content] # None
      BY <1>3, <3>1 DEF FilesOK
    <3>3. task'[t].content \notin overlapped' => enc'[c] = task'[t].key /\ enc'[c] # None
      BY <1>1, <1>3, <1>4, <1>5, <2>4, NoneIsNoData
    <3> QED  BY <1>4, <1>5, <3>2, <3>3, FilesIntro
  <2>7. TagsOK(manifest)' /\ TagsOK(saved)'
    <3>1. \A d \in Contents \ {c} :
            (\A u \in Tasks : Renamed(u)' => task'[u].content # d)
              <=> (\A u \in Tasks : Renamed(u) => task[u].content # d)
      BY <1>4, <1>5 DEF Renamed
    <3>2. Renamed(t)' /\ task'[t].content = c
      BY <1>4, <1>5 DEF Renamed
    <3> QED  BY <1>3, <2>5, <3>1, <3>2 DEF TagsOK, Whole
  <2>8. NothingLost'
    BY <1>1, <1>3, <2>4, <2>5 DEF NothingLost, Whole, TypeOK
  <2>9. RemovedIsListed'
    BY <1>3, <1>4, <1>5 DEF RemovedIsListed, At
  <2> QED  BY <2>1, <2>2, <2>3, <2>6, <2>7, <2>8, <2>9
<1> QED  BY <1>6, <1>7, <1>8 DEF Inv

LEMMA RenameTmpInv ==
  ASSUME Inv, NEW t \in Tasks, RenameTmp(t)
  PROVE  Inv'
<1> USE BaseTypes
<1>1. /\ task[t].pc = "rename"
      /\ UNCHANGED <<plain, saved, ghosts, events, pnk, pending, inFlight, manifest>>
  BY DEF RenameTmp, At
<1>2. CASE PutInPlace(t)
  BY <1>1, <1>2, PutInPlaceInv
<1>3. CASE GiveUp(t) /\ UNCHANGED <<tmp, enc>>
  BY <1>1, <1>3, GiveUpInv DEF disk, ghosts
<1> QED  BY <1>2, <1>3 DEF RenameTmp

(* A task that gives up after its rename: its entry will be missing.       *)
LEMMA GiveUpLateInv ==
  ASSUME Inv, NEW t \in Tasks, GiveUp(t), task[t].pc = "remove",
         unrecorded' = unrecorded \cup {task[t].content},
         UNCHANGED <<disk, owed, overlapped, events, pnk, pending, inFlight, manifest>>,
         outside' \in 0..MaxOutside
  PROVE  Inv'
<1> USE BaseTypes
<1>1. PICK r \in Task : /\ Become(t, r) /\ LocalsOK(r)
                        /\ r.pc = "fail" /\ r.path = task[t].path /\ r.path \in Paths
  BY GiveUpTyped DEF Marked
<1>2. task[t].content \in Contents
  BY TaskFields DEF LocalsOK, Writing
<1>3. /\ task' \in [Tasks -> Task]
      /\ \A u \in Tasks : task'[u].pc \in Encrypting => task'[u].key \in Keys
      /\ task'[t] = r
      /\ \A u \in Tasks \ {t} : task'[u] = task[u]
  BY <1>1, TaskTyped DEF Inv, Encrypting
<1>4. TypeOK'
  BY <1>2, <1>3 DEF Inv, TypeOK, disk
<1>5. MarkHasTask'
  BY <1>1, MarkStep DEF Marked
<1>6. CoreOK'
  <2> USE DEF Inv, CoreOK
  <2>1. /\ UNCHANGED <<plain, tmp, enc, saved, owed, overlapped, manifest>>
        /\ \A u \in Tasks : task'[u].pc \in Writing => u # t /\ task'[u] = task[u]
        /\ \A u \in Tasks : task'[u].pc \in PastReading => u # t /\ task'[u] = task[u]
    BY <1>1, <1>3 DEF disk, Writing, PastReading
  <2>2. (\A u \in Tasks : LocalsOK(task[u]))'
    BY <1>1, <1>3
  <2>3. OwedOK'
    BY <2>1 DEF OwedOK
  <2>4. AloneOK'
    BY <2>1 DEF AloneOK
  <2>5. FilesOK'
    BY <2>1 DEF FilesOK, Writing
  <2>6. TagsOK(manifest)' /\ TagsOK(saved)'
    BY <1>1, <1>3, <2>1 DEF TagsOK, Whole, Renamed
  <2>7. NothingLost'
    BY <2>1 DEF NothingLost, Whole
  <2>8. RemovedIsListed'
    BY <1>1, <1>3, <2>1 DEF RemovedIsListed, At
  <2> QED  BY <2>2, <2>3, <2>4, <2>5, <2>6, <2>7, <2>8
<1> QED  BY <1>4, <1>5, <1>6 DEF Inv

LEMMA IoErrorInv ==
  ASSUME Inv, NEW t \in Tasks, IoError(t)
  PROVE  Inv'
<1>1. /\ GiveUp(t) /\ outside' \in 0..MaxOutside
      /\ task[t].pc \in {"read", "open", "fill", "rename", "remove"}
      /\ UNCHANGED <<disk, owed, overlapped, events, pnk, pending, inFlight, manifest>>
  BY OutsideTyped DEF IoError, Inv
<1>2. CASE task[t].pc = "remove"
  <2>1. unrecorded' = unrecorded \cup {task[t].content}
    BY <1>2 DEF IoError, At
  <2> QED  BY <1>1, <1>2, <2>1, GiveUpLateInv
<1>3. CASE task[t].pc # "remove"
  <2>1. UNCHANGED unrecorded
    BY <1>3 DEF IoError, At
  <2> QED  BY <1>1, <1>3, <2>1, GiveUpInv
<1> QED  BY <1>2, <1>3

LEMMA RemovePlainInv ==
  ASSUME Inv, NEW t \in Tasks, RemovePlain(t)
  PROVE  Inv'
<1> DEFINE p == task[t].path
           c == task[t].content
           r == [task[t] EXCEPT !.pc = "commit"]
           event == [kind |-> "removed", path |-> p]
<1> USE BaseTypes, TaskFields
<1>1. task[t].pc = "remove" /\ p \in Paths /\ c \in Contents /\ task[t].key \in Keys
  BY DEF RemovePlain, At, LocalsOK, Marked, Writing, Encrypting
<1>2. UNCHANGED <<tmp, enc, saved, owed, overlapped, outside, pnk, pending, inFlight, manifest>>
  BY DEF RemovePlain
<1>3. CASE plain[p] = None
  <2>1. GiveUp(t) /\ unrecorded' = unrecorded \cup {c} /\ UNCHANGED <<plain, events>>
    BY <1>3 DEF RemovePlain
  <2> QED  BY <1>1, <1>2, <2>1, GiveUpLateInv DEF disk
<1>4. CASE plain[p] # None
  <2>1. /\ Become(t, r) /\ plain' = [plain EXCEPT ![p] = None]
        /\ events' = Append(events, event) /\ UNCHANGED unrecorded
    BY <1>4 DEF RemovePlain, Goto
  <2>2. /\ r \in Task /\ r.pc = "commit" /\ r.content = c /\ r.path = p /\ r.key = task[t].key
    BY DEF Task, PCs
  <2> HIDE DEF r
  <2>3. /\ task' \in [Tasks -> Task]
        /\ \A u \in Tasks : task'[u].pc \in Encrypting => task'[u].key \in Keys
        /\ task'[t] = r
        /\ \A u \in Tasks \ {t} : task'[u] = task[u]
    BY <1>1, <2>1, <2>2, TaskTyped DEF Inv
  <2>4. TypeOK'
    <3>1. event \in Event
      BY <1>1 DEF Event
    <3>2. events' \in Seq(Event)
      BY <2>1, <3>1
    <3>3. plain' \in [Paths -> Contents \cup {None}]
      BY <2>1 DEF Inv, TypeOK
    <3> QED  BY <1>2, <2>1, <2>3, <3>2, <3>3 DEF Inv, TypeOK
  <2>5. MarkHasTask'
    BY <1>1, <1>2, <2>1, <2>2, MarkStep DEF Marked
  <2>6. CoreOK'
    <3> USE DEF Inv, CoreOK
    <3>1. plain'[p] = None /\ \A q \in Paths \ {p} : plain'[q] = plain[q]
      BY <1>1, <2>1 DEF TypeOK
    <3>2. (\A u \in Tasks : LocalsOK(task[u]))'
      BY <1>1, <2>2, <2>3 DEF LocalsOK
    <3>3. OwedOK'
      BY <1>1, <1>2, <2>2, <2>3, <3>1 DEF OwedOK, PastReading
    <3>4. AloneOK'
      BY <1>1, <1>2, <2>2, <2>3 DEF AloneOK, Writing
    <3>5. FilesOK'
      BY <1>1, <1>2, <2>2, <2>3 DEF FilesOK
    <3>6. \A u \in Tasks : (Renamed(u)' <=> Renamed(u)) /\ task'[u].content = task[u].content
      BY <1>1, <2>2, <2>3 DEF Renamed
    <3>7. TagsOK(manifest)' /\ TagsOK(saved)'
      BY <1>2, <2>1, <3>6 DEF TagsOK, Whole
    <3>8. NothingLost'
      <4>1. owed[p] \in {None, c}
        BY <1>1 DEF OwedOK, PastReading
      <4>2. (owed[p] = c /\ c \notin overlapped) => Whole(c)
        BY <1>1 DEF FilesOK, Whole
      <4> QED  BY <1>2, <3>1, <4>1, <4>2 DEF NothingLost, Whole
    <3>9. RemovedIsListed'
      <4>1. owed[p] \in {None, c}
        BY <1>1 DEF OwedOK, PastReading
      <4>2. At(t, "commit")' /\ task'[t].content = c
        BY <2>2, <2>3 DEF At
      <4>3. \A u \in Tasks : At(u, "commit") => At(u, "commit")' /\ task'[u].content = task[u].content
        BY <1>1, <2>3 DEF At
      <4> QED  BY <1>2, <2>1, <3>1, <4>1, <4>2, <4>3 DEF RemovedIsListed
    <3> QED  BY <3>2, <3>3, <3>4, <3>5, <3>7, <3>8, <3>9
  <2> QED  BY <2>4, <2>5, <2>6 DEF Inv
<1> QED  BY <1>3, <1>4

LEMMA CommitInv ==
  ASSUME Inv, NEW t \in Tasks, Commit(t)
  PROVE  Inv'
<1> DEFINE p == task[t].path
           c == task[t].content
           key == task[t].key
           entry == [path |-> p, network |-> IF key \in Networks THEN key ELSE None]
           m == [manifest EXCEPT ![c] = entry]
           r == Idle(task[t].todo)
<1> USE BaseTypes, TaskFields
<1>1. task[t].pc = "commit" /\ p \in Paths /\ c \in Contents /\ key \in Keys
  BY DEF Commit, At, LocalsOK, Marked, Writing, Encrypting
<1>2. /\ inFlight' = inFlight \ {p} /\ SaveManifest(m) /\ Become(t, r)
      /\ unrecorded' = IF saved' = manifest' THEN unrecorded \ {c} ELSE unrecorded \cup {c}
      /\ UNCHANGED <<plain, tmp, enc, owed, overlapped, events, pnk, pending>>
  BY DEF Commit
<1>3. entry \in Entry /\ entry # None
  BY <1>1, EntryAssumption DEF Entry
<1>4. m \in Manifest /\ m[c] = entry /\ \A d \in Contents \ {c} : m[d] = manifest[d]
  BY <1>1, <1>3 DEF Inv, TypeOK, Manifest
<1>5. /\ manifest' = m /\ saved' \in {m, saved, NoEntries}
      /\ manifest' \in Manifest /\ saved' \in Manifest /\ outside' \in 0..MaxOutside
  BY <1>2, <1>4, SaveTyped DEF Inv
<1>6. r \in Task /\ r.pc = "idle"
  BY IdleIsTask
<1>7. /\ task' \in [Tasks -> Task]
      /\ \A u \in Tasks : task'[u].pc \in Encrypting => task'[u].key \in Keys
      /\ task'[t] = r
      /\ \A u \in Tasks \ {t} : task'[u] = task[u]
  BY <1>2, <1>6, TaskTyped DEF Inv, Encrypting
<1>8. TypeOK'
  BY <1>1, <1>2, <1>5, <1>7 DEF Inv, TypeOK
<1>9. MarkHasTask'
  BY <1>2, <1>6, MarkStep
<1>10. CoreOK'
  <2> USE DEF Inv, CoreOK
  <2>1. \A u \in Tasks : task'[u].pc \in Writing \cup {"open"} => u # t /\ task'[u] = task[u]
    BY <1>6, <1>7 DEF Writing
  <2>2. (\A u \in Tasks : LocalsOK(task[u]))'
    BY <1>6, <1>7 DEF LocalsOK, Marked, Writing
  <2>3. OwedOK'
    BY <1>2, <2>1 DEF OwedOK, PastReading, Writing
  <2>4. AloneOK'
    BY <1>2, <2>1 DEF AloneOK
  <2>5. FilesOK'
    BY <1>2, <2>1 DEF FilesOK, Writing
  <2>6. \A d \in Contents \ {c} :
          /\ d \in unrecorded' <=> d \in unrecorded
          /\ (\A u \in Tasks : Renamed(u)' => task'[u].content # d)
               <=> (\A u \in Tasks : Renamed(u) => task[u].content # d)
    BY <1>2, <1>6, <1>7 DEF Renamed
  <2>7. (c \notin overlapped /\ Whole(c))
          => IF m[c].network = None THEN enc[c] \in PnkKeys ELSE enc[c] = m[c].network
    <3>1. (c \notin overlapped /\ Whole(c)) => enc[c] = key
      BY <1>1, NoneIsNoData DEF FilesOK, Whole
    <3>2. m[c].network = IF key \in Networks THEN key ELSE None
      BY <1>4
    <3>3. key \in PnkKeys \/ (key \in Networks /\ key # None)
      BY <1>1, NoneIsNoData DEF Keys
    <3> QED  BY <3>1, <3>2, <3>3, KeysAssumption
  <2>8. TagsOK(manifest)'
    <3>1. ASSUME NEW d \in Contents, d # c,
                 manifest'[d] # None, Whole(d)', d \notin overlapped' \cup unrecorded',
                 \A u \in Tasks : Renamed(u)' => task'[u].content # d
          PROVE  IF manifest'[d].network = None THEN enc'[d] \in PnkKeys
                                                ELSE enc'[d] = manifest'[d].network
      BY <1>2, <1>4, <1>5, <2>6, <3>1 DEF TagsOK, Whole
    <3> QED  BY <1>2, <1>5, <2>7, <3>1 DEF TagsOK, Whole
  <2>9. TagsOK(saved)'
    <3>1. ASSUME NEW d \in Contents, d # c,
                 saved'[d] # None, Whole(d)', d \notin overlapped' \cup unrecorded',
                 \A u \in Tasks : Renamed(u)' => task'[u].content # d
          PROVE  IF saved'[d].network = None THEN enc'[d] \in PnkKeys
                                             ELSE enc'[d] = saved'[d].network
      <4>1. saved'[d] = manifest[d] \/ saved'[d] = saved[d]
        BY <1>4, <1>5, <3>1 DEF NoEntries
      <4> QED  BY <1>2, <2>6, <3>1, <4>1 DEF TagsOK, Whole
    <3>2. c \notin unrecorded' => saved' = m
      BY <1>2, <1>5
    <3> QED  BY <1>2, <2>7, <3>1, <3>2 DEF TagsOK, Whole
  <2>10. NothingLost'
    BY <1>2 DEF NothingLost, Whole
  <2>11. RemovedIsListed'
    <3>1. \A d \in Contents \ {c} :
            (\E u \in Tasks : At(u, "commit")' /\ task'[u].content = d)
              <=> (\E u \in Tasks : At(u, "commit") /\ task[u].content = d)
      BY <1>6, <1>7 DEF At
    <3>2. manifest'[c] # None /\ \A d \in Contents \ {c} : manifest'[d] = manifest[d]
      BY <1>3, <1>4, <1>5
    <3>3. owed \in [Paths -> Contents \cup {None}]
      BY DEF TypeOK
    <3> QED  BY <1>2, <2>6, <3>1, <3>2, <3>3 DEF RemovedIsListed
  <2> QED  BY <2>2, <2>3, <2>4, <2>5, <2>8, <2>9, <2>10, <2>11
<1> QED  BY <1>8, <1>9, <1>10 DEF Inv

LEMMA EncryptInv ==
  ASSUME Inv, NEW t \in Tasks, Encrypt(t)
  PROVE  Inv'
  BY CheckInv, QueueInv, MarkInv, IoErrorInv, ReadFileInv, OpenTmpInv, FillTmpInv,
     RenameTmpInv, RemovePlainInv, CommitInv, FailInv DEF Encrypt

-----------------------------------------------------------------------------
(* Events of removals.                                                     *)

(* The manifest changes at most by losing the entry of content d, and the  *)
(* tasks do not.                                                           *)
LEMMA HandleRemoveInv ==
  ASSUME Inv, NEW e \in Event, events' \in Seq(Event), HandleRemove(e)
  PROVE  Inv'
<1> USE BaseTypes
<1>1. UNCHANGED <<plain, tmp, enc, owed, overlapped, pnk, pending, task>>
  BY DEF HandleRemove
<1>2. PICK m \in Manifest :
        /\ SaveManifest(m)
        /\ \A d \in Contents : m[d] \in {manifest[d], None}
        /\ \A d \in Contents : (m[d] = None /\ manifest[d] # None /\ enc[d] # None)
                                 => d \in unrecorded'
  <2>1. CASE e.kind = "removed"
    BY <2>1 DEF HandleRemove, Inv, TypeOK
  <2>2. CASE e.kind = "removed_enc"
    <3> DEFINE m == [manifest EXCEPT ![e.content] = None]
    <3>1. e.content \in Contents
      BY <2>2 DEF Event
    <3>2. /\ m \in Manifest
          /\ \A d \in Contents : m[d] \in {manifest[d], None}
          /\ \A d \in Contents : d # e.content => m[d] = manifest[d]
      BY <3>1 DEF Inv, TypeOK, Manifest
    <3>3. SaveManifest(m) /\ (enc[e.content] # None => e.content \in unrecorded')
      BY <2>2 DEF HandleRemove
    <3> HIDE DEF m
    <3> QED  BY <3>2, <3>3
  <2> QED  BY <2>1, <2>2 DEF HandleRemove
<1>3. /\ inFlight' \subseteq inFlight
      /\ unrecorded \subseteq unrecorded' /\ unrecorded' \subseteq Contents
  BY DEF HandleRemove, Event, Inv, TypeOK
<1>4. /\ manifest' = m /\ saved' \in {m, saved, NoEntries}
      /\ manifest' \in Manifest /\ saved' \in Manifest /\ outside' \in 0..MaxOutside
  BY <1>2, SaveTyped DEF Inv
<1>5. TypeOK'
  BY <1>1, <1>3, <1>4 DEF Inv, TypeOK
<1>6. MarkHasTask'
  BY <1>1, <1>3 DEF Inv, MarkHasTask
<1>7. CoreOK'
  <2> USE DEF Inv, CoreOK
  <2>1. (\A u \in Tasks : LocalsOK(task[u]))' /\ OwedOK' /\ AloneOK' /\ FilesOK'
    BY <1>1 DEF OwedOK, AloneOK, FilesOK
  <2>2. NothingLost'
    BY <1>1 DEF NothingLost, Whole
  <2>3. \A d \in Contents : /\ manifest'[d] \in {manifest[d], None}
                            /\ saved'[d] \in {manifest[d], saved[d], None}
    BY <1>2, <1>4 DEF NoEntries
  <2>4. TagsOK(manifest)' /\ TagsOK(saved)'
    BY <1>1, <1>3, <2>3 DEF TagsOK, Whole, Renamed
  <2>5. RemovedIsListed'
    <3> SUFFICES ASSUME NEW q \in Paths, owed[q] # None, plain[q] = None,
                        owed[q] \notin overlapped \cup unrecorded',
                        ~\E u \in Tasks : At(u, "commit") /\ task[u].content = owed[q]
                 PROVE  manifest'[owed[q]] # None
      BY <1>1 DEF RemovedIsListed, At
    <3>1. manifest[owed[q]] # None
      BY <1>3 DEF RemovedIsListed
    <3>2. owed[q] \in Contents /\ enc[owed[q]] # None
      BY NoneIsNoData DEF NothingLost, Whole, TypeOK
    <3> QED  BY <1>2, <1>4, <3>1, <3>2
  <2> QED  BY <2>1, <2>2, <2>4, <2>5
<1> QED  BY <1>5, <1>6, <1>7 DEF Inv

LEMMA HandleEventInv ==
  ASSUME Inv, HandleEvent
  PROVE  Inv'
<1>1. Head(events) \in Event /\ events' \in Seq(Event) /\ Free(FileTask)
  BY BaseTypes DEF HandleEvent
<1> QED  BY <1>1, HandleFileInv, HandleRemoveInv DEF HandleEvent

-----------------------------------------------------------------------------
(* The user and the crash.                                                 *)

LEMMA UserSaveInv ==
  ASSUME Inv, NEW p \in Paths, NEW c \in Contents, UserSave(p, c)
  PROVE  Inv'
<1> DEFINE event == [kind |-> IF plain[p] = None THEN "created" ELSE "modified", path |-> p]
<1> USE BaseTypes
<1>1. /\ plain' = [plain EXCEPT ![p] = c]
      /\ owed' = [owed EXCEPT ![p] = IF PastRead(p) THEN None ELSE c]
      /\ events' = Append(events, event)
      /\ UNCHANGED <<tmp, enc, saved, overlapped, unrecorded, pnk, pending, inFlight, manifest, task>>
      /\ outside' \in 0..MaxOutside
  BY OutsideTyped DEF UserSave, Inv
<1>2. /\ plain' \in [Paths -> Contents \cup {None}] /\ owed' \in [Paths -> Contents \cup {None}]
      /\ plain'[p] = c /\ owed'[p] \in {None, c} /\ (PastRead(p) => owed'[p] = None)
      /\ \A q \in Paths \ {p} : plain'[q] = plain[q] /\ owed'[q] = owed[q]
  BY <1>1 DEF Inv, TypeOK
<1>3. TypeOK'
  <2>1. event \in Event
    BY DEF Event
  <2>2. events' \in Seq(Event)
    BY <1>1, <2>1
  <2> QED  BY <1>1, <1>2, <2>2 DEF Inv, TypeOK
<1>4. MarkHasTask'
  BY <1>1 DEF Inv, MarkHasTask
<1>5. CoreOK'
  <2> USE DEF Inv, CoreOK
  <2>1. \A u \in Tasks : task[u].pc \in PastReading
                           => \/ task[u].path = p /\ owed'[p] = None
                              \/ task[u].path \in Paths \ {p}
    BY <1>2 DEF PastRead, PastReading, LocalsOK, Marked
  <2>2. (\A u \in Tasks : LocalsOK(task[u]))' /\ AloneOK'
    BY <1>1 DEF AloneOK
  <2>3. OwedOK'
    BY <1>1, <1>2, <2>1 DEF OwedOK
  <2>4. FilesOK'
    <3>1. \A u \in Tasks : (task[u].pc = "remove" /\ owed'[task[u].path] = task[u].content)
                             => owed[task[u].path] = task[u].content
      BY <1>2, <2>1, NoneIsNoData DEF PastReading, LocalsOK, Writing
    <3> QED  BY <1>1, <3>1 DEF FilesOK
  <2>5. TagsOK(manifest)' /\ TagsOK(saved)'
    BY <1>1 DEF TagsOK, Whole, Renamed
  <2>6. NothingLost'
    BY <1>1, <1>2 DEF NothingLost, Whole
  <2>7. RemovedIsListed'
    BY <1>1, <1>2, NoneIsNoData DEF RemovedIsListed, At
  <2> QED  BY <2>2, <2>3, <2>4, <2>5, <2>6, <2>7
<1> QED  BY <1>3, <1>4, <1>5 DEF Inv

LEMMA UserDeleteInv ==
  ASSUME Inv, NEW p \in Paths, UserDelete(p)
  PROVE  Inv'
<1> DEFINE event == [kind |-> "removed", path |-> p]
<1> USE BaseTypes
<1>1. /\ plain' = [plain EXCEPT ![p] = None] /\ owed' = [owed EXCEPT ![p] = None]
      /\ events' = Append(events, event)
      /\ UNCHANGED <<tmp, enc, saved, overlapped, unrecorded, pnk, pending, inFlight, manifest, task>>
      /\ outside' \in 0..MaxOutside
  BY OutsideTyped DEF UserDelete, Inv
<1>2. /\ plain' \in [Paths -> Contents \cup {None}] /\ owed' \in [Paths -> Contents \cup {None}]
      /\ plain'[p] = None /\ owed'[p] = None
      /\ \A q \in Paths \ {p} : plain'[q] = plain[q] /\ owed'[q] = owed[q]
  BY <1>1 DEF Inv, TypeOK
<1>3. TypeOK'
  <2>1. event \in Event
    BY DEF Event
  <2>2. events' \in Seq(Event)
    BY <1>1, <2>1
  <2> QED  BY <1>1, <1>2, <2>2 DEF Inv, TypeOK
<1>4. MarkHasTask'
  BY <1>1 DEF Inv, MarkHasTask
<1>5. CoreOK'
  <2> USE DEF Inv, CoreOK
  <2>1. (\A u \in Tasks : LocalsOK(task[u]))' /\ AloneOK'
    BY <1>1 DEF AloneOK
  <2>2. OwedOK'
    <3>1. \A u \in Tasks : task[u].pc \in PastReading => task[u].path \in Paths
      BY DEF PastReading, LocalsOK, Marked
    <3> QED  BY <1>1, <1>2, <3>1 DEF OwedOK
  <2>3. FilesOK'
    <3>1. \A u \in Tasks : (task[u].pc = "remove" /\ owed'[task[u].path] = task[u].content)
                             => owed[task[u].path] = task[u].content
      BY <1>2, NoneIsNoData DEF LocalsOK, Writing, Marked
    <3> QED  BY <1>1, <3>1 DEF FilesOK
  <2>4. TagsOK(manifest)' /\ TagsOK(saved)'
    BY <1>1 DEF TagsOK, Whole, Renamed
  <2>5. NothingLost'
    BY <1>1, <1>2 DEF NothingLost, Whole
  <2>6. RemovedIsListed'
    BY <1>1, <1>2 DEF RemovedIsListed, At
  <2> QED  BY <2>1, <2>2, <2>3, <2>4, <2>5, <2>6
<1> QED  BY <1>3, <1>4, <1>5 DEF Inv

LEMMA DeleteTyped ==
  ASSUME Inv, NEW u \in Tasks, NEW c \in Contents
  PROVE  /\ AfterDelete(u, c) \in Task
         /\ AfterDelete(u, c).pc = task[u].pc /\ AfterDelete(u, c).path = task[u].path
         /\ AfterDelete(u, c).key = task[u].key /\ AfterDelete(u, c).content = task[u].content
         /\ task[u].handle = "tmp" => AfterDelete(u, c).handle = "tmp"
<1>1. task[u] \in Task
  BY TaskFields
<1>2. CASE task[u].content # c \/ task[u].handle # "enc"
  BY <1>1, <1>2 DEF AfterDelete
<1>3. CASE task[u].content = c /\ task[u].handle = "enc"
  <2>1. AfterDelete(u, c) = [task[u] EXCEPT !.handle = "gone"]
    BY <1>3 DEF AfterDelete
  <2> QED  BY <1>1, <1>3, <2>1 DEF Task
<1> QED  BY <1>2, <1>3

LEMMA UserDeleteEncInv ==
  ASSUME Inv, NEW c \in Contents, UserDeleteEnc(c)
  PROVE  Inv'
<1> DEFINE event == [kind |-> "removed_enc", content |-> c]
<1> USE BaseTypes
<1>1. /\ enc' = [enc EXCEPT ![c] = None]
      /\ task' = [u \in Tasks |-> AfterDelete(u, c)]
      /\ owed' = [p \in Paths |-> IF owed[p] = c THEN None ELSE owed[p]]
      /\ events' = Append(events, event)
      /\ UNCHANGED <<plain, tmp, saved, overlapped, unrecorded, pnk, pending, inFlight, manifest>>
      /\ outside' \in 0..MaxOutside
  BY OutsideTyped DEF UserDeleteEnc, Inv
<1>2. /\ task' \in [Tasks -> Task]
      /\ \A u \in Tasks :
           /\ task'[u].pc = task[u].pc /\ task'[u].path = task[u].path
           /\ task'[u].key = task[u].key /\ task'[u].content = task[u].content
           /\ task[u].handle = "tmp" => task'[u].handle = "tmp"
  BY <1>1, DeleteTyped
<1>3. /\ enc' \in [Contents -> File] /\ enc'[c] = None
      /\ \A d \in Contents \ {c} : enc'[d] = enc[d]
  BY <1>1 DEF Inv, TypeOK, File
<1>4. /\ owed' \in [Paths -> Contents \cup {None}]
      /\ \A p \in Paths : /\ owed'[p] \in {None, owed[p]} /\ owed'[p] # c
  BY <1>1, NoneIsNoData DEF Inv, TypeOK
<1>5. TypeOK'
  <2>1. event \in Event
    BY DEF Event
  <2>2. events' \in Seq(Event)
    BY <1>1, <2>1
  <2> QED  BY <1>1, <1>2, <1>3, <1>4, <2>2 DEF Inv, TypeOK
<1>6. MarkHasTask'
  BY <1>1, <1>2 DEF Inv, MarkHasTask
<1>7. CoreOK'
  <2> USE DEF Inv, CoreOK
  <2>1. (\A u \in Tasks : LocalsOK(task[u]))'
    BY <1>2 DEF LocalsOK
  <2>2. OwedOK'
    <3>1. \A u \in Tasks : task[u].pc \in PastReading => task[u].path \in Paths
      BY DEF PastReading, LocalsOK, Marked
    <3> QED  BY <1>1, <1>2, <1>4, <3>1 DEF OwedOK
  <2>3. AloneOK'
    BY <1>1, <1>2 DEF AloneOK
  <2>4. FilesOK'
    <3>1. \A u \in Tasks : task[u].pc \in Writing
                             => task[u].content \in Contents /\ task[u].path \in Paths
      BY DEF LocalsOK, Writing, Marked
    <3> SUFFICES ASSUME NEW u \in Tasks, task[u].pc \in Writing,
                        task[u].content \notin overlapped
                 PROVE  /\ task[u].pc = "fill" => task'[u].handle = "tmp"
                        /\ task[u].pc = "rename" => tmp[task[u].content] = task[u].key
                        /\ task[u].pc \in {"remove", "commit"}
                             => enc'[task[u].content] \in {None, task[u].key}
                        /\ (task[u].pc = "remove" /\ owed'[task[u].path] = task[u].content)
                             => enc'[task[u].content] # None
      <4> SUFFICES \A u \in Tasks :
             (task'[u].content \notin overlapped' /\ task'[u].pc \in Writing) =>
               /\ task'[u].pc = "fill" => task'[u].handle = "tmp"
               /\ task'[u].pc = "rename" => tmp'[task'[u].content] = task'[u].key
               /\ task'[u].pc \in {"remove", "commit"}
                    => enc'[task'[u].content] \in {None, task'[u].key}
               /\ (task'[u].pc = "remove" /\ owed'[task'[u].path] = task'[u].content)
                    => enc'[task'[u].content] # None
        BY FilesIntro
      <4>1. tmp' = tmp /\ overlapped' = overlapped
        BY <1>1
      <4> QED  BY <1>2, <4>1
    <3>2. /\ task[u].pc = "fill" => task[u].handle = "tmp"
          /\ task[u].pc = "rename" => tmp[task[u].content] = task[u].key
          /\ task[u].pc \in {"remove", "commit"} => enc[task[u].content] \in {None, task[u].key}
          /\ (task[u].pc = "remove" /\ owed[task[u].path] = task[u].content)
               => enc[task[u].content] # None
      BY DEF FilesOK
    <3>3. enc'[task[u].content] \in {None, enc[task[u].content]}
      BY <1>3, <3>1
    <3>4. owed'[task[u].path] = task[u].content
            => /\ owed[task[u].path] = task[u].content
               /\ enc'[task[u].content] = enc[task[u].content]
      BY <1>3, <1>4, <3>1, NoneIsNoData
    <3> QED  BY <1>2, <3>2, <3>3, <3>4
  <2>5. TagsOK(manifest)' /\ TagsOK(saved)'
    <3>1. \A d \in Contents : Whole(d)' => Whole(d) /\ enc'[d] = enc[d]
      BY <1>3, NoneIsNoData DEF Whole
    <3>2. \A d : (\A u \in Tasks : Renamed(u)' => task'[u].content # d)
                   <=> (\A u \in Tasks : Renamed(u) => task[u].content # d)
      BY <1>2 DEF Renamed
    <3>3. UNCHANGED <<manifest, saved, overlapped, unrecorded>>
      BY <1>1
    <3> QED  BY <3>1, <3>2, <3>3 DEF TagsOK
  <2>6. NothingLost'
    BY <1>1, <1>3, <1>4 DEF NothingLost, Whole
  <2>7. RemovedIsListed'
    <3>1. \A d : (\E u \in Tasks : At(u, "commit")' /\ task'[u].content = d)
                   <=> (\E u \in Tasks : At(u, "commit") /\ task[u].content = d)
      BY <1>2 DEF At
    <3>2. \A p \in Paths : owed'[p] # None => owed'[p] = owed[p]
      BY <1>4
    <3>3. UNCHANGED <<plain, manifest, overlapped, unrecorded>>
      BY <1>1
    <3> SUFFICES ASSUME NEW p \in Paths, owed'[p] # None, plain'[p] = None,
                        owed'[p] \notin overlapped' \cup unrecorded',
                        ~\E u \in Tasks : At(u, "commit")' /\ task'[u].content = owed'[p]
                 PROVE  manifest'[owed'[p]] # None
      BY DEF RemovedIsListed
    <3>4. owed'[p] = owed[p]
      BY <3>2
    <3>5. ~\E u \in Tasks : At(u, "commit") /\ task[u].content = owed[p]
      BY <3>1, <3>4
    <3> QED  BY <3>3, <3>4, <3>5 DEF RemovedIsListed
  <2> QED  BY <2>1, <2>2, <2>3, <2>4, <2>5, <2>6, <2>7
<1> QED  BY <1>5, <1>6, <1>7 DEF Inv

LEMMA BootTyped ==
  /\ Boot \in [Tasks -> Task]
  /\ \A t \in Tasks : Boot[t].pc \in {"scan", "idle"}
<1>0. <<>> \in Seq(Paths)
  OBVIOUS
<1>1. Idle(<<>>) \in Task /\ Idle(<<>>).pc = "idle"
  BY <1>0, IdleIsTask
<1>2. [Idle(<<>>) EXCEPT !.pc = "scan"] \in Task /\ [Idle(<<>>) EXCEPT !.pc = "scan"].pc = "scan"
  BY <1>1 DEF Task, PCs
<1> QED  BY <1>1, <1>2 DEF Boot

LEMMA RestartInv ==
  ASSUME Inv, Restart
  PROVE  Inv'
<1> DEFINE cut == {task[t].content : t \in {u \in Tasks : Renamed(u)}}
           unlisted == {c \in Contents : enc[c] # None /\ saved[c] = None}
<1>1. /\ events' = <<>> /\ pnk' = None /\ pending' = <<>> /\ inFlight' = {}
      /\ manifest' = saved /\ task' = Boot
      /\ unrecorded' = unrecorded \cup cut \cup unlisted
      /\ UNCHANGED <<plain, tmp, enc, saved, owed, overlapped>>
      /\ outside' \in 0..MaxOutside
  BY OutsideTyped DEF Restart, Inv, disk
<1>2. cut \subseteq Contents
  BY TaskFields DEF Renamed, LocalsOK, Writing
<1>3. \A t \in Tasks : task'[t].pc \in {"scan", "idle"}
  BY <1>1, BootTyped
<1>4. TypeOK'
  <2>1. \A t \in Tasks : task'[t].pc \in Encrypting => task'[t].key \in Keys
    BY <1>3 DEF Encrypting
  <2>2. unrecorded' \subseteq Contents
    BY <1>1, <1>2 DEF Inv, TypeOK
  <2> QED  BY <1>1, <2>1, <2>2, BootTyped DEF Inv, TypeOK
<1>5. MarkHasTask'
  BY <1>1 DEF MarkHasTask
<1>6. CoreOK'
  <2> USE DEF Inv, CoreOK
  <2>1. (\A t \in Tasks : LocalsOK(task[t]))'
    BY <1>3 DEF LocalsOK, Marked, Writing
  <2>2. OwedOK'
    BY <1>1, <1>3 DEF OwedOK, PastReading
  <2>3. AloneOK' /\ FilesOK'
    BY <1>3 DEF AloneOK, FilesOK, Writing
  <2>4. TagsOK(saved)' /\ TagsOK(manifest)'
    <3>1. \A d \in Contents : d \notin unrecorded'
                                => \A t \in Tasks : Renamed(t) => task[t].content # d
      BY <1>1
    <3> QED  BY <1>1, <3>1 DEF TagsOK, Whole
  <2>5. NothingLost'
    BY <1>1 DEF NothingLost, Whole
  <2>6. RemovedIsListed'
    <3> SUFFICES ASSUME NEW p \in Paths, owed[p] # None, plain[p] = None,
                        owed[p] \notin overlapped \cup unrecorded'
                 PROVE  saved[owed[p]] # None
      BY <1>1 DEF RemovedIsListed
    <3>1. owed[p] \in Contents /\ enc[owed[p]] # None
      BY NoneIsNoData DEF NothingLost, Whole, TypeOK
    <3> QED  BY <1>1, <3>1
  <2> QED  BY <2>1, <2>2, <2>3, <2>4, <2>5, <2>6
<1> QED  BY <1>4, <1>5, <1>6 DEF Inv

-----------------------------------------------------------------------------
LEMMA InitInv ==
  ASSUME Init
  PROVE  Inv
<1>1. \A t \in Tasks : task[t].pc \in {"scan", "idle"}
  BY BootTyped DEF Init
<1>2. TypeOK
  <2>1. \A t \in Tasks : task[t].pc \in Encrypting => task[t].key \in Keys
    BY <1>1 DEF Encrypting
  <2> QED  BY <2>1, BootTyped, BoundsAssumption DEF Init, TypeOK, File, Manifest, NoEntries
<1>3. MarkHasTask
  BY DEF Init, MarkHasTask
<1>4. CoreOK
  <2>1. \A t \in Tasks : LocalsOK(task[t])
    BY <1>1 DEF LocalsOK, Marked, Writing
  <2>2. OwedOK /\ AloneOK /\ FilesOK
    BY <1>1 DEF Init, OwedOK, PastReading, AloneOK, FilesOK, Writing
  <2>3. TagsOK(manifest) /\ TagsOK(saved)
    BY DEF Init, TagsOK, NoEntries
  <2>4. NothingLost /\ RemovedIsListed
    BY DEF Init, NothingLost, RemovedIsListed
  <2> QED  BY <2>1, <2>2, <2>3, <2>4 DEF CoreOK
<1> QED  BY <1>2, <1>3, <1>4 DEF Inv

LEMMA NextInv ==
  ASSUME Inv, [Next]_vars
  PROVE  Inv'
<1>1. CASE UNCHANGED vars
  <2>1. TypeOK' /\ MarkHasTask'
    BY <1>1 DEF Inv, vars, TypeOK, MarkHasTask
  <2>2. CoreOK'
    BY <1>1 DEF Inv, vars, CoreOK, OwedOK, AloneOK, FilesOK, TagsOK, NothingLost,
                RemovedIsListed, Whole, Renamed, At
  <2> QED  BY <2>1, <2>2 DEF Inv
<1>2. CASE Next
  BY <1>2, StartupScanInv, HandleEventInv, EncryptFileInv, EncryptFileToNetworkInv, LoginInv,
     DrainPendingInv, EncryptInv, SetPnkInv, UserSaveInv, UserDeleteInv, UserDeleteEncInv,
     RestartInv DEF Next
<1> QED  BY <1>1, <1>2

(* The inductive invariant, for any number of paths, contents and clients: *)
(* what a task between its read and its entry may rely on (watcher.rs:150  *)
(* to 245).                                                                *)
THEOREM Invariance == Spec => []Inv
<1>1. Init => Inv
  BY InitInv
<1>2. Inv /\ [Next]_vars => Inv'
  BY NextInv
<1> QED  BY <1>1, <1>2, PTL DEF Spec

(* Type correctness for any constants.                                     *)
THEOREM TypeCorrect == Spec => []TypeOK
<1>1. Inv => TypeOK
  BY DEF Inv
<1> QED  BY <1>1, Invariance, PTL

(* What the user last left at a path is there still, as plaintext or as a  *)
(* whole ciphertext: do_encrypt removes the plaintext last.                *)
THEOREM KeepsContents == Spec => []NothingLost
<1>1. Inv => NothingLost
  BY DEF Inv, CoreOK
<1> QED  BY <1>1, Invariance, PTL

(* An entry names the kind of key its file is encrypted under.             *)
THEOREM TagsMatch == Spec => []TagMatchesKey
<1>1. Inv => TagMatchesKey
  BY DEF Inv, CoreOK, TagsOK, TagMatchesKey
<1> QED  BY <1>1, Invariance, PTL

(* Every mark in in_flight has a task that takes it away.                  *)
THEOREM MarksHaveTasks == Spec => []MarkHasTask
<1>1. Inv => MarkHasTask
  BY DEF Inv
<1> QED  BY <1>1, Invariance, PTL

(* What the daemon has removed the manifest shows.                         *)
THEOREM ListsRemoved == Spec => []RemovedIsListed
<1>1. Inv => RemovedIsListed
  BY DEF Inv, CoreOK
<1> QED  BY <1>1, Invariance, PTL
=============================================================================
