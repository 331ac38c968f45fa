------------------------------- MODULE Server -------------------------------
(***************************************************************************)
(* The daemon as a server: its accept loop on the named pipe, a task for   *)
(* each connection, the background loops, the RwLock around DaemonState    *)
(* that all of them use, the tray's commands with their retries, and the   *)
(* stop flag of the service control handler.                               *)
(*                                                                         *)
(* What the requests do is in the other modules.  Here a request is the    *)
(* order in which it takes the lock and calls the broker.                  *)
(***************************************************************************)
EXTENDS Naturals, Sequences, FiniteSets

CONSTANTS
  Commands,     \* tray commands that can be under way at a time
  Loops,        \* background loops of run_daemon
  Asks,         \* Asks[c]: what c may ask for ("Probe": it only opens the pipe)
  None,
  MaxTries,     \* attempts of open_pipe_with_retry
  MaxHung,      \* bound: broker calls that are never answered
  PipeFaults    \* may connect and create fail?

Tasks == Commands \cup Loops

RequestNames ==
  {"Probe", "GetStatus", "AcceptInvite", "GetFiles", "GetFilesInNetwork", "OpenFile",
   "GetNetworkDevices", "GetConnections", "Logout", "ListNetworks", "SyncNetworks",
   "SyncKeys", "RotatePnk", "RotateHik", "Login", "StartOAuthFlow", "EncryptFile",
   "EncryptFileToNetwork"}

ASSUME TasksAssumption == Commands \cap Loops = {} /\ {None, "none", "free"} \cap Tasks = {}
ASSUME NamesAssumption ==
  Asks \in [Commands -> SUBSET RequestNames] /\ Loops \subseteq {"heartbeat", "rotation", "netsync"}
ASSUME BoundsAssumption == MaxTries \in Nat \ {0} /\ MaxHung \in Nat /\ PipeFaults \in BOOLEAN

-----------------------------------------------------------------------------
(* How a request uses the lock.  read, write: a guard that is dropped      *)
(* before the next await.  share, own: a guard that is kept until release. *)
(* call: one or more broker calls.  may: a place where it may return.      *)
(* Sections that the code may leave out are always there.                  *)

GetStatusPlan == <<"read">>                        \* AcceptInvite, GetFiles and OpenFile too
DirectoryPlan == <<"share", "may", "call", "release">>
LogoutPlan == <<"own", "call", "release">>
NetworksPlan == <<"read", "may", "call">>
SyncKeysPlan == <<"read", "may", "call", "may", "read", "may", "write">>
RotatePnkPlan == <<"read", "may", "call", "may", "write">>
LoginPlan == <<"write", "read", "call", "read", "call", "write", "write">>
StartOAuthFlowPlan == <<"write", "may", "read", "call", "may", "write">>
EncryptPlan == <<"read", "may", "write", "may", "write">>
EncryptToNetworkPlan == <<"may", "write", "may", "write">>

(* Mutant: asks for the lock again under the guard of the row update.      *)
RotateHikNested ==
  <<"read", "may", "write", "may", "read", "share", "read", "call", "may", "release",
    "read", "read", "call">>

(* The guard of the condition that reads device_id lives on across         *)
(* update_device_hik.                                                      *)
RotateHikPlan ==
  <<"read", "may", "write", "may", "read", "share", "call", "may", "release",
    "read", "read", "call">>

Plan(req) ==
  CASE req \in {"GetStatus", "AcceptInvite", "GetFiles", "GetFilesInNetwork", "OpenFile"}
         -> GetStatusPlan
    [] req \in {"GetNetworkDevices", "GetConnections"} -> DirectoryPlan
    [] req = "Logout" -> LogoutPlan
    [] req \in {"ListNetworks", "SyncNetworks"} -> NetworksPlan
    [] req = "SyncKeys" -> SyncKeysPlan
    [] req = "RotatePnk" -> RotatePnkPlan
    [] req = "RotateHik" -> RotateHikPlan
    [] req = "Login" -> LoginPlan
    [] req = "StartOAuthFlow" -> StartOAuthFlowPlan
    [] req = "EncryptFile" -> EncryptPlan
    [] req = "EncryptFileToNetwork" -> EncryptToNetworkPlan
    [] req = "Probe" -> <<>>

(* Heartbeat, rotation and network sync, each run after its sleep.         *)
LoopPlan(l) ==
  CASE l \in {"heartbeat", "netsync"} -> NetworksPlan
    [] l = "rotation" -> RotatePnkPlan

-----------------------------------------------------------------------------
VARIABLES
  accept,    \* where run_daemon's accept loop is; "down": there is no process
  stop,      \* the STOP flag
  instance,  \* the pending pipe instance: "none", "free" or the command it is open to
  cmd,       \* cmd[c]: both ends of a command's connection
  pos,       \* pos[t]: where a task is in its plan; 0: it runs none
  queue,     \* the tasks that wait for the lock, in order
  readers,   \* the tasks that keep a read guard
  writer,    \* the task that keeps the write guard
  hung,      \* the tasks whose broker call is never answered
  late       \* history: connections taken since the stop was asked for, up to 2

lock == <<queue, readers, writer>>
vars == <<accept, stop, instance, cmd, pos, lock, hung, late>>

Command == [req : RequestNames \cup {None}, client : {"off", "trying", "sent"}, tries : 0..(MaxTries - 1),
            server : {"none", "reading", "working"}]

Idle == [req |-> None, client |-> "off", tries |-> 0, server |-> "none"]

TypeOK ==
  /\ accept \in {"down", "check", "connect", "create"}
  /\ stop \in BOOLEAN
  /\ instance \in {"none", "free"} \cup Commands
  /\ cmd \in [Commands -> Command]
  /\ pos \in [Tasks -> Nat]
  /\ queue \in Seq(Tasks)
  /\ readers \subseteq Tasks /\ writer \in Tasks \cup {None}
  /\ hung \subseteq Tasks
  /\ late \in 0..2

Init ==
  /\ accept = "down" /\ stop = FALSE /\ instance = "none"
  /\ cmd = [c \in Commands |-> Idle]
  /\ pos = [t \in Tasks |-> 0]
  /\ queue = <<>> /\ readers = {} /\ writer = None
  /\ hung = {} /\ late = 0

Set(c, field, value) == cmd' = [cmd EXCEPT ![c][field] = value]
End(c) == cmd' = [cmd EXCEPT ![c] = Idle]

-----------------------------------------------------------------------------
(* run_daemon: start, accept loop, and end.                                *)

(* A first instance; the tray or the service manager starts the process.   *)
Boot ==
  /\ accept = "down"
  /\ accept' = "check" /\ instance' = "free" /\ stop' = FALSE /\ late' = 0
  /\ UNCHANGED <<cmd, pos, lock, hung>>

(* The runtime is dropped, and with it every task at its await; the        *)
(* clients are disconnected.                                               *)
Exit ==
  /\ accept' = "down" /\ instance' = "none"
  /\ cmd' = [c \in Commands |-> [cmd[c] EXCEPT !.server = "none"]]
  /\ pos' = [t \in Tasks |-> 0]
  /\ queue' = <<>> /\ readers' = {} /\ writer' = None
  /\ hung' = {}

(* Mutant: does not look at the flag.                                      *)
CheckNothing ==
  /\ accept = "check"
  /\ accept' = "connect"
  /\ UNCHANGED <<stop, instance, cmd, pos, lock, hung, late>>

CheckStop ==
  /\ accept = "check"
  /\ \/ stop /\ Exit
     \/ /\ ~stop /\ accept' = "connect"
        /\ UNCHANGED <<instance, cmd, pos, lock, hung>>
  /\ UNCHANGED <<stop, late>>

(* server.connect() waits for a client, and for nothing else.  An error    *)
(* of connect or of create ends the daemon.                                *)
Connect ==
  /\ accept = "connect" /\ instance \in Commands
  /\ \/ /\ accept' = "create"
        /\ late' = IF stop /\ late < 2 THEN late + 1 ELSE late
        /\ UNCHANGED <<instance, cmd, pos, lock, hung>>
     \/ PipeFaults /\ Exit /\ UNCHANGED late
  /\ UNCHANGED stop

(* Mutant: goes back to waiting without looking at the flag.               *)
CreateAndConnect ==
  /\ accept = "create"
  /\ accept' = "connect" /\ instance' = "free" /\ Set(instance, "server", "reading")
  /\ UNCHANGED <<stop, pos, lock, hung, late>>

(* The next instance first, then a task for the connection.  In between    *)
(* there is no instance to open.                                           *)
CreateNext ==
  /\ accept = "create"
  /\ \/ /\ accept' = "check" /\ instance' = "free"
        /\ Set(instance, "server", "reading")
        /\ UNCHANGED <<pos, lock, hung>>
     \/ PipeFaults /\ Exit
  /\ UNCHANGED <<stop, late>>

(* The service control handler only sets the flag.                         *)
RequestStop ==
  /\ accept # "down" /\ ~stop
  /\ stop' = TRUE
  /\ UNCHANGED <<accept, instance, cmd, pos, lock, hung, late>>

-----------------------------------------------------------------------------
(* The tray: send_ipc_command_inner and open_pipe_with_retry.              *)

Start(c, req) ==
  /\ cmd[c].client = "off" /\ cmd[c].server = "none" /\ instance # c
  /\ cmd' = [cmd EXCEPT ![c] = [req |-> req, client |-> "trying", tries |-> 0,
                                server |-> "none"]]
  /\ UNCHANGED <<accept, stop, instance, pos, lock, hung, late>>

Open(c) ==
  /\ cmd[c].client = "trying" /\ instance = "free"
  /\ instance' = c /\ cmd' = [cmd EXCEPT ![c].client = "sent", ![c].tries = 0]
  /\ UNCHANGED <<accept, stop, pos, lock, hung, late>>

(* Mutant: one attempt too many.                                           *)
OpenFailsOnceMore(c) ==
  /\ cmd[c].client = "trying" /\ instance # "free"
  /\ IF cmd[c].tries < MaxTries THEN Set(c, "tries", cmd[c].tries + 1)
                                ELSE End(c)
  /\ UNCHANGED <<accept, stop, instance, pos, lock, hung, late>>

OpenFails(c) ==
  /\ cmd[c].client = "trying" /\ instance # "free"
  /\ IF cmd[c].tries + 1 < MaxTries THEN Set(c, "tries", cmd[c].tries + 1)
                                    ELSE End(c)
  /\ UNCHANGED <<accept, stop, instance, pos, lock, hung, late>>

(* The other end is gone: the read returns nothing.                        *)
Disconnected(c) ==
  /\ cmd[c].client = "sent" /\ cmd[c].server = "none" /\ instance # c
  /\ End(c)
  /\ UNCHANGED <<accept, stop, instance, pos, lock, hung, late>>

(* The tray ends, or ensure_daemon_running has seen that the pipe exists.  *)
HangUp(c) ==
  /\ cmd[c].client = "sent"
  /\ Set(c, "client", "off")
  /\ UNCHANGED <<accept, stop, instance, pos, lock, hung, late>>

-----------------------------------------------------------------------------
(* handle_client, and the tasks.                                           *)

(* A line, or the end of the pipe if the client closed it without one.     *)
ReadRequest(c) ==
  /\ cmd[c].server = "reading"
  /\ \/ /\ cmd[c].req # "Probe"
        /\ Set(c, "server", "working") /\ pos' = [pos EXCEPT ![c] = 1]
     \/ /\ cmd[c].client = "off"
        /\ End(c) /\ UNCHANGED pos
  /\ UNCHANGED <<accept, stop, instance, lock, hung, late>>

PlanOf(t) == IF t \in Commands THEN Plan(cmd[t].req) ELSE LoopPlan(t)
Done(t) == pos[t] > Len(PlanOf(t))
At(t, ops) == pos[t] > 0 /\ ~Done(t) /\ PlanOf(t)[pos[t]] \in ops
AtLock(t) == At(t, {"read", "write", "share", "own"})
Advance(t) == pos' = [pos EXCEPT ![t] = @ + 1]

(* The client reads one response and closes, which ends the handler too.   *)
Reply(c) ==
  /\ cmd[c].server = "working" /\ Done(c)
  /\ End(c)
  /\ pos' = [pos EXCEPT ![c] = 0]
  /\ UNCHANGED <<accept, stop, instance, lock, hung, late>>

(* A loop looks at the flag after its sleep, and then runs once.           *)
Wake(l) ==
  /\ accept # "down" /\ pos[l] = 0 /\ ~stop
  /\ Advance(l)
  /\ UNCHANGED <<accept, stop, instance, cmd, lock, hung, late>>

Sleep(l) ==
  /\ pos[l] > 0 /\ Done(l)
  /\ pos' = [pos EXCEPT ![l] = 0]
  /\ UNCHANGED <<accept, stop, instance, cmd, lock, hung, late>>

(* tokio's RwLock serves its waiters in order.  A guard that is dropped    *)
(* before the next await is taken and dropped in one step.                 *)
MayHave(t) == writer = None /\ (At(t, {"write", "own"}) => readers = {})

Acquire(t) ==
  /\ MayHave(t)
  /\ readers' = IF At(t, {"share"}) THEN readers \cup {t} ELSE readers
  /\ writer' = IF At(t, {"own"}) THEN t ELSE writer
  /\ Advance(t)

AskForLock(t) ==
  /\ AtLock(t) /\ \A i \in DOMAIN queue : queue[i] # t
  /\ \/ queue = <<>> /\ Acquire(t) /\ UNCHANGED queue
     \/ /\ queue # <<>> \/ ~MayHave(t)
        /\ queue' = Append(queue, t) /\ UNCHANGED <<pos, readers, writer>>
  /\ UNCHANGED <<accept, stop, instance, cmd, hung, late>>

GetLock(t) ==
  /\ AtLock(t) /\ queue # <<>> /\ Head(queue) = t
  /\ Acquire(t) /\ queue' = Tail(queue)
  /\ UNCHANGED <<accept, stop, instance, cmd, hung, late>>

DropGuard(t) ==
  /\ readers' = readers \ {t}
  /\ writer' = IF writer = t THEN None ELSE writer
  /\ UNCHANGED queue

Release(t) ==
  /\ At(t, {"release"})
  /\ DropGuard(t) /\ Advance(t)
  /\ UNCHANGED <<accept, stop, instance, cmd, hung, late>>

(* A return drops whatever guard there is.                                 *)
MayReturn(t) ==
  /\ At(t, {"may"})
  /\ \/ Advance(t) /\ UNCHANGED lock
     \/ pos' = [pos EXCEPT ![t] = Len(PlanOf(t)) + 1] /\ DropGuard(t)
  /\ UNCHANGED <<accept, stop, instance, cmd, hung, late>>

(* SupabaseClient sets no timeout: a call can wait for ever.               *)
Call(t) ==
  /\ At(t, {"call"}) /\ t \notin hung
  /\ \/ Advance(t) /\ UNCHANGED hung
     \/ Cardinality(hung) < MaxHung /\ hung' = hung \cup {t} /\ UNCHANGED pos
  /\ UNCHANGED <<accept, stop, instance, cmd, lock, late>>

AcceptStep == CheckStop \/ Connect \/ CreateNext
ClientStep(c) == Open(c) \/ OpenFails(c) \/ Disconnected(c)
TaskStep(t) ==
  \/ t \in Commands /\ (ReadRequest(t) \/ Reply(t))
  \/ t \in Loops /\ Sleep(t)
  \/ AskForLock(t) \/ GetLock(t) \/ Release(t) \/ MayReturn(t) \/ Call(t)

Next ==
  \/ Boot \/ AcceptStep \/ RequestStop
  \/ \E c \in Commands :
       (\E req \in Asks[c] : Start(c, req)) \/ ClientStep(c) \/ HangUp(c)
  \/ \E l \in Loops : Wake(l)
  \/ \E t \in Tasks : TaskStep(t)

(* The runtime runs every task that is ready and the tray's own code goes  *)
(* on.  Nobody has to send a request, start a daemon or stop one.          *)
FairSpec ==
  /\ Init /\ [][Next]_vars
  /\ WF_vars(AcceptStep)
  /\ \A c \in Commands : WF_vars(ClientStep(c) \/ (cmd[c].req = "Probe" /\ HangUp(c)))
  /\ \A t \in Tasks : WF_vars(TaskStep(t))

(* An open popover asks for the status every four seconds.                 *)
PollingSpec == FairSpec /\ WF_vars(\E c \in Commands : "GetStatus" \in Asks[c] /\ Start(c, "GetStatus"))

-----------------------------------------------------------------------------
(* Properties.                                                             *)

(* A call that is made under a guard, by Logout, by the two directory      *)
(* queries or for RotateHik's row update, is never answered.               *)
Frozen == \E t \in hung : t \in readers \/ t = writer

(* Every command comes back, however the handlers and loops compete for    *)
(* the lock and whether or not the daemon ends meanwhile; a call that is   *)
(* never answered costs the command that made it and nobody else, unless   *)
(* it was made under a guard.                                              *)
CommandsEnd ==
  \A c \in Commands :
    (cmd[c].client # "off") ~> (cmd[c].client = "off" \/ c \in hung \/ Frozen)

(* A stop comes through, as long as somebody uses the tray: the next       *)
(* connection wakes the accept loop and the loop then ends.                *)
StopEnds == stop ~> (accept = "down" \/ Frozen)

(* A daemon that was told to stop takes one more connection at most.       *)
AtMostOneMore == late <= 1

(* No task asks for the lock while it keeps a guard: it would wait for     *)
(* itself as soon as a writer, of any other task, has asked in between.    *)
NoGuardWaits == \A t \in readers \cup {writer} : t \in Tasks => ~AtLock(t)

(* service.rs:79 says the daemon runs "until the service-control handler   *)
(* flips the stop flag": a stop that is asked for comes through.           *)
ServiceStops == stop ~> accept = "down"
=============================================================================
