------------------------------- MODULE Watcher -------------------------------
(***************************************************************************)
(* Encryption of the files dropped into ~/Hashnet/encrypted: the watcher   *)
(* task and its event queue, the queue of files that wait for a PNK, the   *)
(* EncryptFile and EncryptFileToNetwork requests, the .tmp and .enc files  *)
(* of do_encrypt and the manifest.                                         *)
(*                                                                         *)
(* One directory.  A file's ciphertext is named after the hash of its      *)
(* content, so tmp, enc and manifest are indexed by the content.  A write  *)
(* goes to the file that was opened, also when it has been renamed since:  *)
(* a task's handle follows it.  How the PNK comes to be set is PnkSession; *)
(* a network's key is taken to be in the Credential Manager.               *)
(***************************************************************************)
EXTENDS Naturals, Sequences, SequencesExt

CONSTANTS
  Paths,      \* plaintext paths in the directory
  Contents,   \* file contents, standing for their SHA-256 too
  PnkKeys,    \* values of the PNK
  Networks,   \* networks whose key (NK) this daemon has, standing for that key
  Clients,    \* IPC connections
  FileTask,   \* the task that watcher::start spawns
  None,
  Torn,       \* a file that has been opened for writing and not filled
  MaxOutside, \* bound: the user's actions, failed system calls and crashes
  MaxPending  \* bound: length of pending_encrypt when a file joins it

ASSUME NoneAssumption == {None, Torn} \cap (Paths \cup Contents \cup PnkKeys \cup Networks) = {}
ASSUME TaskAssumption == FileTask \notin Clients
ASSUME KeysAssumption == PnkKeys \cap Networks = {}
ASSUME PathsAssumption == IsFiniteSet(Paths)
ASSUME BoundsAssumption == {MaxOutside, MaxPending} \subseteq Nat

Tasks == Clients \cup {FileTask}
Keys == PnkKeys \cup Networks

VARIABLES
  plain,       \* plain[p]: content of the plaintext file at p
  tmp, enc,    \* tmp[c], enc[c]: the key .<hash>.tmp, <hash>.enc is encrypted under
  events,      \* the channel from the file system watcher
  pnk,         \* DaemonState.pnk
  pending,     \* DaemonState.pending_encrypt
  inFlight,    \* DaemonState.in_flight
  manifest,    \* DaemonState.manifest
  saved,       \* .hashnet/manifest.json
  task,        \* task[t]: program counter and locals
  owed,        \* ghost: what the user last left at p and never touched again
  overlapped,  \* ghost: contents that two encryptions were at work on at once
  unrecorded,  \* ghost: contents whose last .enc file the manifest may not show
  outside      \* ghost: how many of the things MaxOutside counts there have been

disk == <<plain, tmp, enc, saved>>
ghosts == <<owed, overlapped, unrecorded, outside>>
vars == <<plain, tmp, enc, events, pnk, pending, inFlight, manifest, saved, task,
          owed, overlapped, unrecorded, outside>>

File == Keys \cup {Torn, None}
Entry == [path : Paths, network : Networks \cup {None}]
ASSUME EntryAssumption == None \notin Entry
Manifest == [Contents -> Entry \cup {None}]
NoEntries == [c \in Contents |-> None]

Event == [kind : {"created", "modified", "removed"}, path : Paths]
           \cup [kind : {"removed_enc"}, content : Contents]

PCs == {"scan", "idle", "drain", "queue", "mark", "read", "open", "fill",
        "rename", "remove", "commit", "fail"}

Encrypting == {"mark", "read", "open", "fill", "rename", "remove", "commit"}

Task == [pc : PCs, todo : Seq(Paths), path : Paths \cup {None}, key : Keys \cup {None},
         content : Contents \cup {None}, handle : {"none", "tmp", "enc", "gone"}]

Idle(rest) == [pc |-> "idle", todo |-> rest, path |-> None, key |-> None,
               content |-> None, handle |-> "none"]

TypeOK ==
  /\ plain \in [Paths -> Contents \cup {None}]
  /\ tmp \in [Contents -> File] /\ enc \in [Contents -> File]
  /\ events \in Seq(Event)
  /\ pnk \in PnkKeys \cup {None}
  /\ pending \in Seq(Paths)
  /\ inFlight \subseteq Paths
  /\ manifest \in Manifest /\ saved \in Manifest
  /\ task \in [Tasks -> Task]
  /\ \A t \in Tasks : task[t].pc \in Encrypting => task[t].key \in Keys
  /\ owed \in [Paths -> Contents \cup {None}]
  /\ overlapped \subseteq Contents /\ unrecorded \subseteq Contents
  /\ outside \in 0..MaxOutside

Boot == [t \in Tasks |-> IF t = FileTask THEN [Idle(<<>>) EXCEPT !.pc = "scan"] ELSE Idle(<<>>)]

Init ==
  /\ plain = [p \in Paths |-> None]
  /\ tmp = [c \in Contents |-> None]
  /\ enc = [c \in Contents |-> None]
  /\ events = <<>>
  /\ pnk = None
  /\ pending = <<>>
  /\ inFlight = {}
  /\ manifest = NoEntries
  /\ saved = NoEntries
  /\ task = Boot
  /\ owed = [p \in Paths |-> None]
  /\ overlapped = {}
  /\ unrecorded = {}
  /\ outside = 0

At(t, pc) == task[t].pc = pc
Become(t, record) == task' = [task EXCEPT ![t] = record]
Goto(t, pc) == Become(t, [task[t] EXCEPT !.pc = pc])
Free(t) == task[t] = Idle(<<>>)

(* After its rename, an encryption has put a file in place that the        *)
(* manifest does not show yet.                                             *)
Renamed(t) == task[t].pc \in {"remove", "commit"}

Outside == outside < MaxOutside /\ outside' = outside + 1

(* save_manifest, whose errors are ignored: a failed write leaves the old  *)
(* file, or a truncated one, which load_manifest takes for an empty one.   *)
SaveManifest(m) ==
  /\ manifest' = m
  /\ \/ saved' = m /\ UNCHANGED outside
     \/ saved' \in {saved, NoEntries} /\ Outside

-----------------------------------------------------------------------------
(* What the watcher task does between encryptions.                         *)

(* The plaintext files that are there at start-up join pending_encrypt.    *)
StartupScan ==
  /\ At(FileTask, "scan")
  /\ \E found \in SetToSeqs({p \in Paths : plain[p] # None}) : pending' = pending \o found
  /\ Goto(FileTask, "idle")
  /\ UNCHANGED <<disk, ghosts, events, pnk, inFlight, manifest>>

(* file_hash_changed looks at whichever entry for p the map yields first.  *)
HashChanged(p) ==
  LET stored == {c \in Contents : manifest[c] # None /\ manifest[c].path = p}
  IN  {plain[p] # None /\ (stored = {} \/ h # plain[p]) :
         h \in IF stored = {} THEN {None} ELSE stored}

(* A new file, or one with a new name, is encrypted; a modified one is if  *)
(* its hash is new.                                                        *)
HandleFile(event) ==
  /\ event.kind \in {"created", "modified"}
  /\ \E changed \in IF event.kind = "modified" THEN HashChanged(event.path) ELSE {TRUE} :
       Become(FileTask, Idle(IF changed THEN <<event.path>> ELSE <<>>))
  /\ UNCHANGED <<disk, ghosts, pnk, pending, inFlight, manifest>>

(* Mutant: drops the entry of the plaintext as well.                       *)
HandleRemoveByPath(event) ==
  /\ event.kind = "removed"
  /\ inFlight' = inFlight \ {event.path}
  /\ SaveManifest([c \in Contents |->
       IF manifest[c] # None /\ manifest[c].path = event.path THEN None ELSE manifest[c]])
  /\ UNCHANGED <<plain, tmp, enc, owed, overlapped, unrecorded, pnk, pending, task>>

(* The entries are keyed by .enc file: only the removal of one drops any.  *)
(* If that is handled late, the .enc file may be a new one by now.         *)
HandleRemove(event) ==
  /\ \/ /\ event.kind = "removed"
        /\ inFlight' = inFlight \ {event.path}
        /\ SaveManifest(manifest)
        /\ UNCHANGED unrecorded
     \/ /\ event.kind = "removed_enc"
        /\ SaveManifest([manifest EXCEPT ![event.content] = None])
        /\ unrecorded' = IF enc[event.content] = None THEN unrecorded
                                                     ELSE unrecorded \cup {event.content}
        /\ UNCHANGED inFlight
  /\ UNCHANGED <<plain, tmp, enc, owed, overlapped, pnk, pending, task>>

HandleEvent ==
  /\ Free(FileTask)
  /\ events # <<>>
  /\ events' = Tail(events)
  /\ HandleFile(Head(events)) \/ HandleRemove(Head(events))

-----------------------------------------------------------------------------
(* Requests.  A client names any path: there need not be a file.           *)

EncryptFile(t, p) ==
  /\ t \in Clients /\ Free(t)
  /\ Become(t, Idle(<<p>>))
  /\ UNCHANGED <<disk, ghosts, events, pnk, pending, inFlight, manifest>>

(* Tests and sets the mark under one lock, unlike Check and Mark.          *)
EncryptFileToNetwork(t, p, n) ==
  /\ t \in Clients /\ Free(t)
  /\ p \notin inFlight
  /\ inFlight' = inFlight \cup {p}
  /\ Become(t, [pc |-> "read", todo |-> <<>>, path |-> p, key |-> n, content |-> None,
                handle |-> "none"])
  /\ UNCHANGED <<disk, ghosts, events, pnk, pending, manifest>>

(* The end of a login: the PNK is set, then what was waiting is encrypted. *)
Login(t, k) ==
  /\ t \in Clients /\ Free(t)
  /\ pnk' = k
  /\ Goto(t, "drain")
  /\ UNCHANGED <<disk, ghosts, events, pending, inFlight, manifest>>

DrainPending(t) ==
  /\ At(t, "drain")
  /\ Become(t, Idle(pending))
  /\ pending' = <<>>
  /\ UNCHANGED <<disk, ghosts, events, pnk, inFlight, manifest>>

(* SyncKeys and the rotations set the PNK and drain nothing; Logout.       *)
SetPnk ==
  /\ pnk' \in PnkKeys \cup {None}
  /\ UNCHANGED <<disk, ghosts, events, pending, inFlight, manifest, task>>

-----------------------------------------------------------------------------
(* encrypt_file_from_watcher and do_encrypt.                               *)

(* Mutant: does not wait for a PNK.                                        *)
CheckWithoutPnk(t) ==
  /\ At(t, "idle") /\ task[t].todo # <<>>
  /\ LET p == Head(task[t].todo)
         rest == Idle(Tail(task[t].todo))
     IN Become(t, IF p \in inFlight THEN rest
                  ELSE [rest EXCEPT !.pc = "mark", !.path = p, !.key = pnk])
  /\ UNCHANGED <<disk, ghosts, events, pnk, pending, inFlight, manifest>>

(* First under the read lock: in_flight and the PNK.                       *)
Check(t) ==
  /\ At(t, "idle") /\ task[t].todo # <<>>
  /\ LET p == Head(task[t].todo)
         rest == Idle(Tail(task[t].todo))
     IN Become(t, IF p \in inFlight THEN rest
                  ELSE IF pnk = None THEN [rest EXCEPT !.pc = "queue", !.path = p]
                  ELSE [rest EXCEPT !.pc = "mark", !.path = p, !.key = pnk])
  /\ UNCHANGED <<disk, ghosts, events, pnk, pending, inFlight, manifest>>

Queue(t) ==
  /\ At(t, "queue")
  /\ Len(pending) < MaxPending
  /\ pending' = Append(pending, task[t].path)
  /\ Become(t, Idle(task[t].todo))
  /\ UNCHANGED <<disk, ghosts, events, pnk, inFlight, manifest>>

Mark(t) ==
  /\ At(t, "mark")
  /\ inFlight' = inFlight \cup {task[t].path}
  /\ Goto(t, "read")
  /\ UNCHANGED <<disk, ghosts, events, pnk, pending, manifest>>

GiveUp(t) == Become(t, [Idle(task[t].todo) EXCEPT !.pc = "fail", !.path = task[t].path])

(* Any file system call of do_encrypt may fail.                            *)
IoError(t) ==
  /\ Outside
  /\ task[t].pc \in {"read", "open", "fill", "rename", "remove"}
  /\ GiveUp(t)
  /\ unrecorded' = IF At(t, "remove") THEN unrecorded \cup {task[t].content} ELSE unrecorded
  /\ UNCHANGED <<disk, owed, overlapped, events, pnk, pending, inFlight, manifest>>

ReadFile(t) ==
  /\ At(t, "read")
  /\ LET content == plain[task[t].path]
     IN IF content = None
          THEN GiveUp(t)
          ELSE Become(t, [task[t] EXCEPT !.pc = "open", !.content = content])
  /\ UNCHANGED <<disk, ghosts, events, pnk, pending, inFlight, manifest>>

(* fs::write first creates or truncates the file, ...                      *)
OpenTmp(t) ==
  /\ At(t, "open")
  /\ LET c == task[t].content
     IN /\ tmp' = [tmp EXCEPT ![c] = Torn]
        /\ overlapped' =
             IF \E u \in Tasks \ {t} : /\ task[u].content = c
                                       /\ task[u].pc \in {"fill", "rename", "remove", "commit"}
               THEN overlapped \cup {c}
               ELSE overlapped
  /\ Become(t, [task[t] EXCEPT !.pc = "fill", !.handle = "tmp"])
  /\ UNCHANGED <<plain, enc, saved, owed, unrecorded, outside, events, pnk, pending,
                 inFlight, manifest>>

(* ... then fills it, wherever it is by now.                               *)
FillTmp(t) ==
  /\ At(t, "fill")
  /\ LET c == task[t].content
         key == task[t].key
     IN /\ tmp' = IF task[t].handle = "tmp" THEN [tmp EXCEPT ![c] = key] ELSE tmp
        /\ enc' = IF task[t].handle = "enc" THEN [enc EXCEPT ![c] = key] ELSE enc
  /\ Become(t, [task[t] EXCEPT !.pc = "rename", !.handle = "none"])
  /\ UNCHANGED <<plain, saved, ghosts, events, pnk, pending, inFlight, manifest>>

(* Where the handles on c's files are after the .enc file was replaced by  *)
(* the .tmp file, and after it was deleted.                                *)
AfterRename(u, c) ==
  IF task[u].content # c THEN task[u]
  ELSE [task[u] EXCEPT !.handle = CASE @ = "tmp" -> "enc" [] @ = "enc" -> "gone" [] OTHER -> @]

AfterDelete(u, c) ==
  IF task[u].content # c \/ task[u].handle # "enc" THEN task[u]
  ELSE [task[u] EXCEPT !.handle = "gone"]

PutInPlace(t) ==
  LET c == task[t].content
  IN /\ tmp[c] # None
     /\ enc' = [enc EXCEPT ![c] = tmp[c]]
     /\ tmp' = [tmp EXCEPT ![c] = None]
     /\ task' = [u \in Tasks |-> IF u = t THEN [task[t] EXCEPT !.pc = "remove"]
                                          ELSE AfterRename(u, c)]

(* Mutant: ignores an error of the rename.                                 *)
RenameIgnoringErrors(t) ==
  /\ At(t, "rename")
  /\ \/ PutInPlace(t) /\ UNCHANGED outside
     \/ Goto(t, "remove") /\ Outside /\ UNCHANGED <<tmp, enc>>
  /\ UNCHANGED <<plain, saved, owed, overlapped, unrecorded, events, pnk, pending,
                 inFlight, manifest>>

(* The .tmp file is gone if another encryption of this content renamed it. *)
RenameTmp(t) ==
  /\ At(t, "rename")
  /\ \/ PutInPlace(t)
     \/ tmp[task[t].content] = None /\ GiveUp(t) /\ UNCHANGED <<tmp, enc>>
  /\ UNCHANGED <<plain, saved, ghosts, events, pnk, pending, inFlight, manifest>>

(* Removes whatever is at the path by now.                                 *)
RemovePlain(t) ==
  /\ At(t, "remove")
  /\ LET p == task[t].path
     IN IF plain[p] = None
          THEN /\ GiveUp(t)
               /\ unrecorded' = unrecorded \cup {task[t].content}
               /\ UNCHANGED <<plain, events>>
          ELSE /\ Goto(t, "commit")
               /\ plain' = [plain EXCEPT ![p] = None]
               /\ events' = Append(events, [kind |-> "removed", path |-> p])
               /\ UNCHANGED unrecorded
  /\ UNCHANGED <<tmp, enc, saved, owed, overlapped, outside, pnk, pending, inFlight, manifest>>

(* Mutant: every entry says personal, as do_encrypt makes it.              *)
CommitUntagged(t) ==
  /\ At(t, "commit")
  /\ LET c == task[t].content
         entry == [path |-> task[t].path, network |-> None]
     IN /\ inFlight' = inFlight \ {task[t].path}
        /\ SaveManifest([manifest EXCEPT ![c] = entry])
        /\ unrecorded' = IF saved' = manifest' THEN unrecorded \ {c} ELSE unrecorded \cup {c}
  /\ Become(t, Idle(task[t].todo))
  /\ UNCHANGED <<plain, tmp, enc, owed, overlapped, events, pnk, pending>>

Commit(t) ==
  /\ At(t, "commit")
  /\ LET c == task[t].content
         key == task[t].key
         entry == [path |-> task[t].path, network |-> IF key \in Networks THEN key ELSE None]
     IN /\ inFlight' = inFlight \ {task[t].path}
        /\ SaveManifest([manifest EXCEPT ![c] = entry])
        /\ unrecorded' = IF saved' = manifest' THEN unrecorded \ {c} ELSE unrecorded \cup {c}
  /\ Become(t, Idle(task[t].todo))
  /\ UNCHANGED <<plain, tmp, enc, owed, overlapped, events, pnk, pending>>

(* Mutant: the error path leaves the mark.                                 *)
FailMarked(t) ==
  /\ At(t, "fail")
  /\ Become(t, Idle(task[t].todo))
  /\ UNCHANGED <<disk, ghosts, events, pnk, pending, inFlight, manifest>>

Fail(t) ==
  /\ At(t, "fail")
  /\ inFlight' = inFlight \ {task[t].path}
  /\ Become(t, Idle(task[t].todo))
  /\ UNCHANGED <<disk, ghosts, events, pnk, pending, manifest>>

Encrypt(t) ==
  \/ Check(t) \/ Queue(t) \/ Mark(t) \/ IoError(t) \/ ReadFile(t) \/ OpenTmp(t) \/ FillTmp(t)
  \/ RenameTmp(t) \/ RemovePlain(t) \/ Commit(t) \/ Fail(t)

-----------------------------------------------------------------------------
(* The user's hands in the directory, and a crash of the daemon.           *)

(* An encryption of p that has read the file will remove what is there by  *)
(* then: it owes nothing for what the user saves over it meanwhile.        *)
PastRead(p) ==
  \E t \in Tasks : task[t].path = p /\ task[t].pc \in {"open", "fill", "rename", "remove"}

UserSave(p, c) ==
  /\ Outside
  /\ plain' = [plain EXCEPT ![p] = c]
  /\ owed' = [owed EXCEPT ![p] = IF PastRead(p) THEN None ELSE c]
  /\ events' = Append(events, [kind |-> IF plain[p] = None THEN "created" ELSE "modified",
                               path |-> p])
  /\ UNCHANGED <<tmp, enc, saved, overlapped, unrecorded, pnk, pending, inFlight, manifest, task>>

UserDelete(p) ==
  /\ Outside
  /\ plain[p] # None
  /\ plain' = [plain EXCEPT ![p] = None]
  /\ owed' = [owed EXCEPT ![p] = None]
  /\ events' = Append(events, [kind |-> "removed", path |-> p])
  /\ UNCHANGED <<tmp, enc, saved, overlapped, unrecorded, pnk, pending, inFlight, manifest, task>>

UserDeleteEnc(c) ==
  /\ Outside
  /\ enc[c] # None
  /\ enc' = [enc EXCEPT ![c] = None]
  /\ task' = [u \in Tasks |-> AfterDelete(u, c)]
  /\ owed' = [p \in Paths |-> IF owed[p] = c THEN None ELSE owed[p]]
  /\ events' = Append(events, [kind |-> "removed_enc", content |-> c])
  /\ UNCHANGED <<plain, tmp, saved, overlapped, unrecorded, pnk, pending, inFlight, manifest>>

(* The disk survives.                                                      *)
Restart ==
  /\ Outside
  /\ events' = <<>> /\ pnk' = None /\ pending' = <<>> /\ inFlight' = {}
  /\ manifest' = saved
  /\ task' = Boot
  /\ unrecorded' = unrecorded \cup {task[t].content : t \in {u \in Tasks : Renamed(u)}}
                               \cup {c \in Contents : enc[c] # None /\ saved[c] = None}
  /\ UNCHANGED <<disk, owed, overlapped>>

Next ==
  \/ StartupScan
  \/ HandleEvent
  \/ \E t \in Clients :
       \/ \E p \in Paths : EncryptFile(t, p) \/ \E n \in Networks : EncryptFileToNetwork(t, p, n)
       \/ \E k \in PnkKeys : Login(t, k)
       \/ DrainPending(t)
  \/ \E t \in Tasks : Encrypt(t)
  \/ SetPnk
  \/ \E p \in Paths :
       \/ \E c \in Contents : UserSave(p, c)
       \/ UserDelete(p)
  \/ \E c \in Contents : UserDeleteEnc(c)
  \/ Restart

Spec == Init /\ [][Next]_vars

-----------------------------------------------------------------------------
(* Properties.                                                             *)

Whole(c) == enc[c] \in Keys

(* watcher.rs does "read, encrypt, atomic write, delete plaintext": what   *)
(* the user last left at a path is there still, as plaintext or as a whole *)
(* .enc file, whatever fails and whenever the daemon dies, unless two      *)
(* encryptions of one content ran into each other's .tmp file.             *)
NothingLost ==
  \A p \in Paths :
    owed[p] # None /\ owed[p] \notin overlapped => plain[p] = owed[p] \/ Whole(owed[p])

(* OpenFile takes the key from the entry's network_id: unless an           *)
(* encryption of this content overlapped another or ended between its      *)
(* rename and its entry, the entry names the kind of key the file has.     *)
TagMatchesKey ==
  \A c \in Contents :
    /\ manifest[c] # None /\ Whole(c)
    /\ c \notin overlapped \cup unrecorded
    /\ ~\E t \in Tasks : Renamed(t) /\ task[t].content = c
    => IF manifest[c].network = None THEN enc[c] \in PnkKeys
                                     ELSE enc[c] = manifest[c].network

(* A file marked in flight has a task that will take the mark away: a mark *)
(* left behind would keep the file from ever being encrypted.              *)
MarkHasTask ==
  \A p \in inFlight :
    \E t \in Tasks : /\ task[t].path = p
                     /\ task[t].pc \in {"read", "open", "fill", "rename", "remove", "commit", "fail"}

(* A file that the daemon has removed is one the manifest shows: neither   *)
(* the Remove event of its own removal nor a later file at the same path   *)
(* takes the entry away.  Left out are contents whose entry a crash, a     *)
(* failed save or a late event has cost (unrecorded).                      *)
RemovedIsListed ==
  \A p \in Paths :
    LET c == owed[p]
    IN (/\ c # None /\ plain[p] = None
        /\ c \notin overlapped \cup unrecorded
        /\ ~\E t \in Tasks : At(t, "commit") /\ task[t].content = c)
       => manifest[c] # None
=============================================================================
