---------------------------- MODULE ServerProofs ----------------------------
(***************************************************************************)
(* Proofs about Server, for any commands, loops and requests.              *)
(***************************************************************************)
EXTENDS Server, TLAPS

(* A handler runs only for a connection, a command that still looks for an *)
(* instance has none, and a request is there until both ends are done.     *)
ConnectionOK ==
  \A c \in Commands :
    /\ pos[c] > 0 => cmd[c].server = "working"
    /\ cmd[c].client = "trying" => instance # c /\ cmd[c].server = "none"
    /\ cmd[c].server # "none" => instance # c
    /\ cmd[c].client # "off" \/ cmd[c].server # "none" \/ instance = c
         => cmd[c].req \in RequestNames

(* A connection taken after the stop was asked for brings the loop back to *)
(* its check of the flag.                                                  *)
LateOK ==
  late > 0 => late = 1 /\ stop /\ accept \in {"down", "check", "create"}

(* Between connect and create the instance is a command's.                 *)
CreateOK == accept = "create" => instance \in Commands

IInv == TypeOK /\ ConnectionOK /\ LateOK /\ CreateOK

-----------------------------------------------------------------------------
Ops == {"read", "write", "share", "own", "call", "may", "release"}

LEMMA PlansAreSeqs ==
  /\ GetStatusPlan \in Seq(Ops) /\ DirectoryPlan \in Seq(Ops)
  /\ LogoutPlan \in Seq(Ops) /\ NetworksPlan \in Seq(Ops)
  /\ SyncKeysPlan \in Seq(Ops) /\ RotatePnkPlan \in Seq(Ops)
  /\ LoginPlan \in Seq(Ops) /\ StartOAuthFlowPlan \in Seq(Ops)
  /\ EncryptPlan \in Seq(Ops) /\ EncryptToNetworkPlan \in Seq(Ops)
  /\ RotateHikPlan \in Seq(Ops) /\ <<>> \in Seq(Ops)
<1>1. GetStatusPlan \in Seq(Ops)
  BY DEF GetStatusPlan, Ops
<1>2. DirectoryPlan \in Seq(Ops)
  BY DEF DirectoryPlan, Ops
<1>3. LogoutPlan \in Seq(Ops)
  BY DEF LogoutPlan, Ops
<1>4. NetworksPlan \in Seq(Ops)
  BY DEF NetworksPlan, Ops
<1>5. SyncKeysPlan \in Seq(Ops)
  BY DEF SyncKeysPlan, Ops
<1>6. RotatePnkPlan \in Seq(Ops)
  BY DEF RotatePnkPlan, Ops
<1>7. LoginPlan \in Seq(Ops)
  BY DEF LoginPlan, Ops
<1>8. StartOAuthFlowPlan \in Seq(Ops)
  BY DEF StartOAuthFlowPlan, Ops
<1>9. EncryptPlan \in Seq(Ops)
  BY DEF EncryptPlan, Ops
<1>10. EncryptToNetworkPlan \in Seq(Ops)
  BY DEF EncryptToNetworkPlan, Ops
<1>11. RotateHikPlan \in Seq(Ops)
  BY DEF RotateHikPlan, Ops
<1> QED BY <1>1, <1>2, <1>3, <1>4, <1>5, <1>6,
           <1>7, <1>8, <1>9, <1>10, <1>11

LEMMA PlanIsSeq ==
  ASSUME NEW req \in RequestNames
  PROVE  Plan(req) \in Seq(Ops)
<1>1. CASE req \in {"GetStatus", "AcceptInvite", "GetFiles", "GetFilesInNetwork", "OpenFile"}
  BY <1>1, PlansAreSeqs DEF Plan
<1>2. CASE req \in {"GetNetworkDevices", "GetConnections", "ListNetworks", "SyncNetworks"}
  BY <1>2, PlansAreSeqs DEF Plan
<1>3. CASE req \in {"Logout", "SyncKeys", "RotatePnk", "RotateHik"}
  BY <1>3, PlansAreSeqs DEF Plan
<1>4. CASE req \in {"Login", "StartOAuthFlow", "EncryptFile", "EncryptFileToNetwork", "Probe"}
  BY <1>4, PlansAreSeqs DEF Plan
<1> QED BY <1>1, <1>2, <1>3, <1>4 DEF RequestNames

LEMMA LoopPlanIsSeq ==
  ASSUME NEW l \in Loops
  PROVE  LoopPlan(l) \in Seq(Ops)
  BY NamesAssumption, PlansAreSeqs DEF LoopPlan

(* A task that is somewhere in its plan has one.                           *)
LEMMA PlanLength ==
  ASSUME IInv, NEW t \in Tasks, pos[t] > 0
  PROVE  Len(PlanOf(t)) \in Nat
<1>1. CASE t \in Commands
  <2>1. cmd[t].req \in RequestNames
    BY <1>1 DEF IInv, ConnectionOK
  <2> QED BY <1>1, <2>1, PlanIsSeq DEF PlanOf
<1>2. CASE t \in Loops
  BY <1>2, LoopPlanIsSeq DEF PlanOf
<1> QED BY <1>1, <1>2 DEF Tasks

LEMMA TasksFacts == Commands \subseteq Tasks /\ Loops \subseteq Tasks /\ "free" \notin Tasks /\ "none" \notin Tasks
  BY TasksAssumption DEF Tasks

LEMMA LoopIsNoCommand ==
  ASSUME NEW c \in Commands, NEW l \in Loops
  PROVE  c # l
  BY TasksAssumption

LEMMA IdleIsCommand == Idle \in Command
  BY BoundsAssumption DEF Idle, Command

LEMMA EndTypes ==
  ASSUME IInv, NEW c \in Commands, End(c)
  PROVE  cmd' \in [Commands -> Command]
  BY IdleIsCommand DEF IInv, TypeOK, End

LEMMA InitInv == Init => IInv
<1> SUFFICES ASSUME Init PROVE IInv
  OBVIOUS
<1>1. cmd \in [Commands -> Command]
  BY IdleIsCommand DEF Init
<1>2. TypeOK
  <2>1. stop \in BOOLEAN /\ late \in 0..2
    <3>1. stop \in BOOLEAN
      BY Zenon DEF Init
    <3>2. late \in 0..2
      BY SMT DEF Init
    <3> QED BY <3>1, <3>2
  <2>2. pos \in [Tasks -> Nat] /\ queue \in Seq(Tasks)
    BY DEF Init
  <2> QED BY <1>1, <2>1, <2>2 DEF Init, TypeOK
<1>3. ConnectionOK
  BY TasksFacts DEF Init, ConnectionOK, Idle
<1> QED BY <1>2, <1>3 DEF Init, IInv, LateOK, CreateOK

-----------------------------------------------------------------------------
(* The accept loop and the stop flag.                                      *)

LEMMA BootPreserves == IInv /\ Boot => IInv'
<1> SUFFICES ASSUME IInv, Boot PROVE IInv'
  OBVIOUS
<1>1. TypeOK'
  <2>1. stop' \in BOOLEAN /\ late' \in 0..2
    <3>1. stop' \in BOOLEAN
      BY Zenon DEF Boot
    <3>2. late' \in 0..2
      BY SMT DEF Boot
    <3> QED BY <3>1, <3>2
  <2> QED BY <2>1 DEF IInv, TypeOK, Boot, lock
<1>2. ConnectionOK'
  BY TasksFacts DEF IInv, ConnectionOK, Boot, lock
<1> QED BY <1>1, <1>2 DEF IInv, LateOK, CreateOK, Boot

LEMMA ExitPreserves ==
  ASSUME IInv, Exit, UNCHANGED <<stop, late>>
  PROVE  IInv'
<1>1. cmd' \in [Commands -> Command]
  BY DEF IInv, TypeOK, Exit, Command
<1>2. TypeOK'
  BY <1>1 DEF IInv, TypeOK, Exit
<1>3. \A c \in Commands : cmd'[c].server = "none" /\ cmd'[c].req = cmd[c].req
                            /\ cmd'[c].client = cmd[c].client
  BY DEF IInv, TypeOK, Exit, Command
<1>4. ConnectionOK'
  BY <1>3, TasksFacts DEF IInv, ConnectionOK, Exit
<1>5. LateOK' /\ CreateOK'
  BY DEF IInv, LateOK, CreateOK, Exit
<1> QED BY <1>2, <1>4, <1>5 DEF IInv

LEMMA CheckStopPreserves == IInv /\ CheckStop => IInv'
<1> SUFFICES ASSUME IInv, CheckStop PROVE IInv'
  OBVIOUS
<1>1. CASE Exit
  BY <1>1, ExitPreserves DEF CheckStop
<1>2. CASE ~stop /\ accept' = "connect" /\ UNCHANGED <<instance, cmd, pos, lock, hung>>
  BY <1>2 DEF IInv, TypeOK, ConnectionOK, LateOK, CreateOK, CheckStop, lock
<1> QED BY <1>1, <1>2 DEF CheckStop

LEMMA ConnectPreserves == IInv /\ Connect => IInv'
<1> SUFFICES ASSUME IInv, Connect PROVE IInv'
  OBVIOUS
<1>1. CASE Exit /\ UNCHANGED late
  BY <1>1, ExitPreserves DEF Connect
<1>2. CASE /\ accept' = "create"
           /\ late' = IF stop /\ late < 2 THEN late + 1 ELSE late
           /\ UNCHANGED <<instance, cmd, pos, lock, hung>>
  BY <1>2 DEF IInv, TypeOK, ConnectionOK, LateOK, CreateOK, Connect, lock
<1> QED BY <1>1, <1>2 DEF Connect

LEMMA CreateNextPreserves == IInv /\ CreateNext => IInv'
<1> SUFFICES ASSUME IInv, CreateNext PROVE IInv'
  OBVIOUS
<1>1. CASE Exit
  BY <1>1, ExitPreserves DEF CreateNext
<1>2. CASE /\ accept' = "check" /\ instance' = "free"
           /\ Set(instance, "server", "reading")
           /\ UNCHANGED <<pos, lock, hung>>
  <2>1. TypeOK'
    BY <1>2 DEF IInv, TypeOK, CreateOK, CreateNext, Set, lock, Command
  <2>2. ConnectionOK'
    BY <1>2, TasksFacts DEF IInv, TypeOK, ConnectionOK, CreateOK, CreateNext, Set, Command
  <2>3. LateOK' /\ CreateOK'
    BY <1>2 DEF IInv, LateOK, CreateOK, CreateNext
  <2> QED BY <2>1, <2>2, <2>3 DEF IInv
<1> QED BY <1>1, <1>2 DEF CreateNext

LEMMA RequestStopPreserves == IInv /\ RequestStop => IInv'
  BY DEF IInv, TypeOK, ConnectionOK, LateOK, CreateOK, RequestStop, lock

-----------------------------------------------------------------------------
(* The commands.                                                           *)

LEMMA StartPreserves ==
  ASSUME IInv, NEW c \in Commands, NEW req \in Asks[c], Start(c, req)
  PROVE  IInv'
<1>1. req \in RequestNames
  BY NamesAssumption
<1>2. cmd' \in [Commands -> Command]
  BY <1>1, BoundsAssumption DEF IInv, TypeOK, Start, Command
<1>3. TypeOK'
  BY <1>2 DEF IInv, TypeOK, Start, lock
<1>4. ConnectionOK'
  BY <1>1, TasksFacts DEF IInv, TypeOK, ConnectionOK, Start, lock, Command
<1> QED BY <1>3, <1>4 DEF IInv, LateOK, CreateOK, Start

LEMMA OpenPreserves ==
  ASSUME IInv, NEW c \in Commands, Open(c)
  PROVE  IInv'
<1>1. cmd' \in [Commands -> Command]
  <2>1. cmd[c] \in Command /\ 0 \in 0..(MaxTries - 1)
    BY BoundsAssumption DEF IInv, TypeOK
  <2>2. [cmd[c] EXCEPT !.client = "sent", !.tries = 0] \in Command
    BY <2>1 DEF Command
  <2>3. cmd' = [cmd EXCEPT ![c] = [cmd[c] EXCEPT !.client = "sent", !.tries = 0]]
    BY DEF IInv, TypeOK, Open
  <2> QED BY <2>2, <2>3 DEF IInv, TypeOK
<1>2. TypeOK'
  BY <1>1 DEF IInv, TypeOK, Open, lock
<1>3. ConnectionOK'
  BY TasksFacts DEF IInv, TypeOK, ConnectionOK, Open, lock, Command
<1> QED BY <1>2, <1>3 DEF IInv, LateOK, CreateOK, Open

LEMMA OpenFailsPreserves ==
  ASSUME IInv, NEW c \in Commands, OpenFails(c)
  PROVE  IInv'
<1>1. cmd' \in [Commands -> Command]
  <2>1. CASE cmd[c].tries + 1 < MaxTries
    <3>1. cmd[c] \in Command /\ cmd[c].tries \in 0..(MaxTries - 1)
      BY DEF IInv, TypeOK, Command
    <3>2. cmd[c].tries + 1 \in 0..(MaxTries - 1)
      BY <2>1, <3>1, BoundsAssumption
    <3>3. [cmd[c] EXCEPT !.tries = cmd[c].tries + 1] \in Command
      BY <3>1, <3>2 DEF Command
    <3>4. cmd' = [cmd EXCEPT ![c] = [cmd[c] EXCEPT !.tries = cmd[c].tries + 1]]
      BY <2>1 DEF OpenFails, Set
    <3> QED BY <3>3, <3>4 DEF IInv, TypeOK
  <2>2. CASE ~(cmd[c].tries + 1 < MaxTries)
    BY <2>2, EndTypes DEF OpenFails
  <2> QED BY <2>1, <2>2
<1>2. TypeOK'
  BY <1>1 DEF IInv, TypeOK, OpenFails, lock
<1>3. ConnectionOK'
  <2>1. CASE Set(c, "tries", cmd[c].tries + 1)
    BY <2>1 DEF IInv, TypeOK, ConnectionOK, OpenFails, Set, lock, Command
  <2>2. CASE End(c)
    BY <2>2, TasksFacts DEF IInv, TypeOK, ConnectionOK, OpenFails, End, Idle, lock
  <2> QED BY <2>1, <2>2 DEF OpenFails
<1> QED BY <1>2, <1>3 DEF IInv, LateOK, CreateOK, OpenFails

LEMMA DisconnectedPreserves ==
  ASSUME IInv, NEW c \in Commands, Disconnected(c)
  PROVE  IInv'
<1>1. cmd' \in [Commands -> Command]
  BY EndTypes DEF Disconnected
<1>2. TypeOK'
  BY <1>1 DEF IInv, TypeOK, Disconnected, lock
<1>3. ConnectionOK'
  BY TasksFacts DEF IInv, TypeOK, ConnectionOK, Disconnected, End, Idle, lock, Command
<1> QED BY <1>2, <1>3 DEF IInv, LateOK, CreateOK, Disconnected

LEMMA HangUpPreserves ==
  ASSUME IInv, NEW c \in Commands, HangUp(c)
  PROVE  IInv'
<1>1. cmd' \in [Commands -> Command]
  BY DEF IInv, TypeOK, HangUp, Set, Command
<1>2. TypeOK'
  BY <1>1 DEF IInv, TypeOK, HangUp, lock
<1>3. ConnectionOK'
  BY TasksFacts DEF IInv, TypeOK, ConnectionOK, HangUp, Set, lock, Command
<1> QED BY <1>2, <1>3 DEF IInv, LateOK, CreateOK, HangUp

-----------------------------------------------------------------------------
(* The tasks.                                                              *)

LEMMA ReadRequestPreserves ==
  ASSUME IInv, NEW c \in Commands, ReadRequest(c)
  PROVE  IInv'
<1>1. cmd' \in [Commands -> Command]
  <2>1. CASE End(c)
    BY <2>1, EndTypes
  <2>2. CASE Set(c, "server", "working")
    BY <2>2 DEF IInv, TypeOK, Set, Command
  <2> QED BY <2>1, <2>2 DEF ReadRequest
<1>2. pos' \in [Tasks -> Nat]
  BY DEF IInv, TypeOK, ReadRequest
<1>3. TypeOK'
  BY <1>1, <1>2 DEF IInv, TypeOK, ReadRequest, lock
<1>4. ConnectionOK'
  <2>1. CASE Set(c, "server", "working") /\ pos' = [pos EXCEPT ![c] = 1]
    BY <2>1, TasksFacts DEF IInv, TypeOK, ConnectionOK, ReadRequest, Set, Command
  <2>2. CASE End(c) /\ UNCHANGED pos
    BY <2>2, TasksFacts DEF IInv, TypeOK, ConnectionOK, ReadRequest, End, Idle
  <2> QED BY <2>1, <2>2 DEF ReadRequest
<1> QED BY <1>3, <1>4 DEF IInv, LateOK, CreateOK, ReadRequest

LEMMA ReplyPreserves ==
  ASSUME IInv, NEW c \in Commands, Reply(c)
  PROVE  IInv'
<1>1. cmd' \in [Commands -> Command]
  BY EndTypes DEF Reply
<1>2. pos' \in [Tasks -> Nat]
  BY DEF IInv, TypeOK, Reply
<1>3. TypeOK'
  BY <1>1, <1>2 DEF IInv, TypeOK, Reply, lock
<1>4. ConnectionOK'
  BY TasksFacts DEF IInv, TypeOK, ConnectionOK, Reply, End, Idle
<1> QED BY <1>3, <1>4 DEF IInv, LateOK, CreateOK, Reply

LEMMA WakePreserves ==
  ASSUME IInv, NEW l \in Loops, Wake(l)
  PROVE  IInv'
<1>1. TypeOK'
  BY TasksFacts DEF IInv, TypeOK, Wake, Advance, lock
<1>2. \A c \in Commands : pos'[c] = pos[c]
  BY TasksFacts, LoopIsNoCommand DEF IInv, TypeOK, Wake, Advance
<1>3. ConnectionOK'
  BY <1>2 DEF IInv, ConnectionOK, Wake, lock
<1> QED BY <1>1, <1>3 DEF IInv, LateOK, CreateOK, Wake

LEMMA SleepPreserves ==
  ASSUME IInv, NEW l \in Loops, Sleep(l)
  PROVE  IInv'
<1>1. TypeOK'
  BY TasksFacts DEF IInv, TypeOK, Sleep, lock
<1>2. \A c \in Commands : pos'[c] = pos[c]
  BY TasksFacts, LoopIsNoCommand DEF IInv, TypeOK, Sleep
<1>3. ConnectionOK'
  BY <1>2 DEF IInv, ConnectionOK, Sleep, lock
<1> QED BY <1>1, <1>3 DEF IInv, LateOK, CreateOK, Sleep

(* A task moves on in its plan, or to its end.                             *)
LEMMA PlanStep ==
  ASSUME IInv, NEW t \in Tasks, pos[t] > 0, NEW n \in Nat,
         pos' = pos \/ pos' = [pos EXCEPT ![t] = n],
         UNCHANGED <<accept, stop, instance, cmd, late>>
  PROVE  /\ pos' \in [Tasks -> Nat]
         /\ ConnectionOK' /\ LateOK' /\ CreateOK'
<1>1. pos' \in [Tasks -> Nat]
  BY DEF IInv, TypeOK
<1>2. ConnectionOK'
  BY DEF IInv, TypeOK, ConnectionOK, Tasks
<1> QED BY <1>1, <1>2 DEF IInv, LateOK, CreateOK

LEMMA AskForLockPreserves ==
  ASSUME IInv, NEW t \in Tasks, AskForLock(t)
  PROVE  IInv'
<1>1. pos[t] > 0 /\ pos[t] + 1 \in Nat
  BY DEF IInv, TypeOK, AskForLock, AtLock, At
<1>2. pos' = pos \/ pos' = [pos EXCEPT ![t] = pos[t] + 1]
  BY DEF AskForLock, Acquire, Advance
<1>3. /\ pos' \in [Tasks -> Nat]
      /\ ConnectionOK' /\ LateOK' /\ CreateOK'
  BY <1>1, <1>2, PlanStep DEF AskForLock
<1>4. queue' \in Seq(Tasks) /\ readers' \subseteq Tasks /\ writer' \in Tasks \cup {None}
  <2>1. queue' \in Seq(Tasks)
    BY DEF IInv, TypeOK, AskForLock
  <2>2. readers' \subseteq Tasks /\ writer' \in Tasks \cup {None}
    BY DEF IInv, TypeOK, AskForLock, Acquire
  <2> QED BY <2>1, <2>2
<1> QED BY <1>3, <1>4 DEF IInv, TypeOK, AskForLock

LEMMA GetLockPreserves ==
  ASSUME IInv, NEW t \in Tasks, GetLock(t)
  PROVE  IInv'
<1>1. pos[t] > 0 /\ pos[t] + 1 \in Nat
  BY DEF IInv, TypeOK, GetLock, AtLock, At
<1>2. pos' = [pos EXCEPT ![t] = pos[t] + 1]
  BY DEF GetLock, Acquire, Advance
<1>3. /\ pos' \in [Tasks -> Nat]
      /\ ConnectionOK' /\ LateOK' /\ CreateOK'
  BY <1>1, <1>2, PlanStep DEF GetLock
<1>4. queue' \in Seq(Tasks) /\ readers' \subseteq Tasks /\ writer' \in Tasks \cup {None}
  BY DEF IInv, TypeOK, GetLock, Acquire
<1> QED BY <1>3, <1>4 DEF IInv, TypeOK, GetLock

LEMMA ReleasePreserves ==
  ASSUME IInv, NEW t \in Tasks, Release(t)
  PROVE  IInv'
<1>1. pos[t] > 0 /\ pos[t] + 1 \in Nat
  BY DEF IInv, TypeOK, Release, At
<1>2. /\ pos' \in [Tasks -> Nat]
      /\ ConnectionOK' /\ LateOK' /\ CreateOK'
  BY <1>1, PlanStep DEF Release, Advance
<1> QED BY <1>2 DEF IInv, TypeOK, Release, DropGuard

LEMMA MayReturnPreserves ==
  ASSUME IInv, NEW t \in Tasks, MayReturn(t)
  PROVE  IInv'
<1>1. pos[t] > 0 /\ pos[t] + 1 \in Nat
  BY DEF IInv, TypeOK, MayReturn, At
<1>2. Len(PlanOf(t)) + 1 \in Nat
  BY <1>1, PlanLength
<1>3. /\ pos' \in [Tasks -> Nat]
      /\ ConnectionOK' /\ LateOK' /\ CreateOK'
  BY <1>1, <1>2, PlanStep DEF MayReturn, Advance
<1> QED BY <1>3 DEF IInv, TypeOK, MayReturn, DropGuard, lock

LEMMA CallPreserves ==
  ASSUME IInv, NEW t \in Tasks, Call(t)
  PROVE  IInv'
<1>1. pos[t] > 0 /\ pos[t] + 1 \in Nat
  BY DEF IInv, TypeOK, Call, At
<1>2. /\ pos' \in [Tasks -> Nat]
      /\ ConnectionOK' /\ LateOK' /\ CreateOK'
  BY <1>1, PlanStep DEF Call, Advance
<1> QED BY <1>2 DEF IInv, TypeOK, Call, lock

-----------------------------------------------------------------------------
LEMMA TaskPreserves ==
  ASSUME IInv, NEW t \in Tasks, TaskStep(t)
  PROVE  IInv'
<1>1. CASE t \in Commands /\ (ReadRequest(t) \/ Reply(t))
  BY <1>1, ReadRequestPreserves, ReplyPreserves
<1>2. CASE t \in Loops /\ Sleep(t)
  BY <1>2, SleepPreserves
<1>3. CASE AskForLock(t) \/ GetLock(t) \/ Release(t)
  BY <1>3, AskForLockPreserves, GetLockPreserves, ReleasePreserves
<1>4. CASE MayReturn(t) \/ Call(t)
  BY <1>4, MayReturnPreserves, CallPreserves
<1> QED BY <1>1, <1>2, <1>3, <1>4 DEF TaskStep

LEMMA StepPreserves == IInv /\ [Next]_vars => IInv'
<1> SUFFICES ASSUME IInv, [Next]_vars PROVE IInv'
  OBVIOUS
<1>1. CASE Boot \/ AcceptStep \/ RequestStop
  BY <1>1, BootPreserves, CheckStopPreserves, ConnectPreserves, CreateNextPreserves,
     RequestStopPreserves DEF AcceptStep
<1>2. ASSUME NEW c \in Commands,
             (\E req \in Asks[c] : Start(c, req)) \/ ClientStep(c) \/ HangUp(c)
      PROVE  IInv'
  BY <1>2, StartPreserves, OpenPreserves, OpenFailsPreserves, DisconnectedPreserves,
     HangUpPreserves DEF ClientStep
<1>3. ASSUME NEW l \in Loops, Wake(l) PROVE IInv'
  BY <1>3, WakePreserves
<1>4. ASSUME NEW t \in Tasks, TaskStep(t) PROVE IInv'
  BY <1>4, TaskPreserves
<1>5. CASE UNCHANGED vars
  BY <1>5 DEF IInv, TypeOK, ConnectionOK, LateOK, CreateOK, vars, lock
<1> QED BY <1>1, <1>2, <1>3, <1>4, <1>5 DEF Next

(* The invariant that the theorems need: who has the pending instance,     *)
(* and where the accept loop is once a connection came after the stop.     *)
THEOREM Invariance == FairSpec => []IInv
  BY InitInv, StepPreserves, PTL DEF FairSpec

(* The states of run_daemon, of both ends of every connection and of the   *)
(* lock stay in their ranges, for any requests and loops.                  *)
THEOREM TypeCorrect == FairSpec => []TypeOK
  BY Invariance, PTL DEF IInv

(* The accept loop takes at most one connection after the service control  *)
(* handler asked it to stop.                                               *)
THEOREM StopsAfterOne == FairSpec => []AtMostOneMore
<1>1. IInv => AtMostOneMore
  BY DEF IInv, TypeOK, LateOK, AtMostOneMore
<1> QED BY <1>1, Invariance, PTL
-----------------------------------------------------------------------------
(* The guards that are kept: where their tasks can be.                     *)

Sharing(t) ==
  /\ t \in Commands
  /\ \/ cmd[t].req \in {"GetNetworkDevices", "GetConnections"} /\ pos[t] \in 2..4
     \/ cmd[t].req = "RotateHik" /\ pos[t] \in 7..9

Owning(t) == t \in Commands /\ cmd[t].req = "Logout" /\ pos[t] \in 2..3

GuardsOK == (\A t \in readers : Sharing(t)) /\ (writer # None => Owning(writer))

(* The plans whose guards are all dropped before the next await.           *)
Plain(plan) == \A p \in 1..Len(plan) : plan[p] \notin {"share", "own", "release"}

LEMMA PlainPlans ==
  /\ Plain(GetStatusPlan) /\ Plain(NetworksPlan) /\ Plain(SyncKeysPlan)
  /\ Plain(RotatePnkPlan) /\ Plain(LoginPlan) /\ Plain(StartOAuthFlowPlan)
  /\ Plain(EncryptPlan) /\ Plain(EncryptToNetworkPlan) /\ Plain(<<>>)
<1>1. Plain(GetStatusPlan)
  BY DEF Plain, GetStatusPlan
<1>2. Plain(NetworksPlan)
  BY DEF Plain, NetworksPlan
<1>3. Plain(SyncKeysPlan)
  BY DEF Plain, SyncKeysPlan
<1>4. Plain(RotatePnkPlan)
  BY DEF Plain, RotatePnkPlan
<1>5. Plain(LoginPlan)
  BY DEF Plain, LoginPlan
<1>6. Plain(StartOAuthFlowPlan)
  BY DEF Plain, StartOAuthFlowPlan
<1>7. Plain(EncryptPlan)
  BY DEF Plain, EncryptPlan
<1>8. Plain(EncryptToNetworkPlan)
  BY DEF Plain, EncryptToNetworkPlan
<1>9. Plain(<<>>)
  BY DEF Plain
<1> QED BY <1>1, <1>2, <1>3, <1>4, <1>5, <1>6, <1>7, <1>8, <1>9

LEMMA KeepingPlans ==
  /\ \A p \in 1..Len(DirectoryPlan) :
       /\ DirectoryPlan[p] = "share" <=> p = 1
       /\ DirectoryPlan[p] = "release" <=> p = 4
       /\ DirectoryPlan[p] \in {"share", "may", "call", "release"}
  /\ \A p \in 1..Len(LogoutPlan) :
       /\ LogoutPlan[p] = "own" <=> p = 1
       /\ LogoutPlan[p] = "release" <=> p = 3
       /\ LogoutPlan[p] \in {"own", "call", "release"}
  /\ \A p \in 1..Len(RotateHikPlan) :
       /\ RotateHikPlan[p] = "share" <=> p = 6
       /\ RotateHikPlan[p] = "release" <=> p = 9
       /\ p \in 7..9 => RotateHikPlan[p] \in {"call", "may", "release"}
       /\ RotateHikPlan[p] # "own"
  /\ Len(DirectoryPlan) = 4 /\ Len(LogoutPlan) = 3 /\ Len(RotateHikPlan) = 12
<1>1. Len(DirectoryPlan) = 4 /\ Len(LogoutPlan) = 3 /\ Len(RotateHikPlan) = 12
  BY DEF DirectoryPlan, LogoutPlan, RotateHikPlan
<1>2. ASSUME NEW p \in 1..4
      PROVE  /\ DirectoryPlan[p] = "share" <=> p = 1
             /\ DirectoryPlan[p] = "release" <=> p = 4
             /\ DirectoryPlan[p] \in {"share", "may", "call", "release"}
  BY <1>2 DEF DirectoryPlan
<1>3. ASSUME NEW p \in 1..3
      PROVE  /\ LogoutPlan[p] = "own" <=> p = 1
             /\ LogoutPlan[p] = "release" <=> p = 3
             /\ LogoutPlan[p] \in {"own", "call", "release"}
  BY <1>3 DEF LogoutPlan
<1>4. ASSUME NEW p \in 1..12
      PROVE  /\ RotateHikPlan[p] = "share" <=> p = 6
             /\ RotateHikPlan[p] = "release" <=> p = 9
             /\ p \in 7..9 => RotateHikPlan[p] \in {"call", "may", "release"}
             /\ RotateHikPlan[p] # "own"
  BY <1>4 DEF RotateHikPlan
<1> QED BY <1>1, <1>2, <1>3, <1>4

LEMMA PlansByName ==
  /\ Plan("GetNetworkDevices") = DirectoryPlan /\ Plan("GetConnections") = DirectoryPlan
  /\ Plan("Logout") = LogoutPlan /\ Plan("RotateHik") = RotateHikPlan
  /\ \A req \in RequestNames \ {"GetNetworkDevices", "GetConnections", "Logout", "RotateHik"} :
       Plain(Plan(req))
<1>1. /\ Plan("GetNetworkDevices") = DirectoryPlan /\ Plan("GetConnections") = DirectoryPlan
      /\ Plan("Logout") = LogoutPlan /\ Plan("RotateHik") = RotateHikPlan
  BY DEF Plan
<1>2. \A req \in {"GetStatus", "AcceptInvite", "GetFiles", "GetFilesInNetwork", "OpenFile"} :
        Plain(Plan(req))
  BY PlainPlans DEF Plan
<1>3. \A req \in {"ListNetworks", "SyncNetworks", "SyncKeys", "RotatePnk", "Login"} :
        Plain(Plan(req))
  BY PlainPlans DEF Plan
<1>4. \A req \in {"StartOAuthFlow", "EncryptFile", "EncryptFileToNetwork", "Probe"} :
        Plain(Plan(req))
  BY PlainPlans DEF Plan
<1> QED BY <1>1, <1>2, <1>3, <1>4 DEF RequestNames

(* A guard is kept from these places on.                                   *)
LEMMA KeepsGuard ==
  ASSUME IInv, NEW t \in Tasks, At(t, {"share", "own"})
  PROVE  /\ t \in Commands
         /\ \/ /\ cmd[t].req \in {"GetNetworkDevices", "GetConnections"} /\ pos[t] = 1
               /\ At(t, {"share"}) /\ ~At(t, {"own"})
            \/ /\ cmd[t].req = "RotateHik" /\ pos[t] = 6
               /\ At(t, {"share"}) /\ ~At(t, {"own"})
            \/ /\ cmd[t].req = "Logout" /\ pos[t] = 1
               /\ At(t, {"own"}) /\ ~At(t, {"share"})
<1>1. pos[t] \in 1..Len(PlanOf(t)) /\ PlanOf(t)[pos[t]] \in {"share", "own"}
  <2>1. pos[t] > 0 /\ ~Done(t) /\ PlanOf(t)[pos[t]] \in {"share", "own"}
    BY DEF At
  <2>2. pos[t] \in Nat /\ Len(PlanOf(t)) \in Nat
    BY <2>1, PlanLength DEF IInv, TypeOK
  <2> QED BY <2>1, <2>2 DEF Done
<1>2. CASE t \in Loops
  <2>1. Plain(LoopPlan(t))
    BY <1>2, NamesAssumption, PlainPlans DEF LoopPlan
  <2>2. PlanOf(t) = LoopPlan(t)
    BY <1>2, LoopIsNoCommand DEF PlanOf
  <2> QED BY <1>1, <2>1, <2>2 DEF Plain
<1>3. CASE t \in Commands
  <2>1. cmd[t].req \in RequestNames /\ PlanOf(t) = Plan(cmd[t].req)
    BY <1>3 DEF IInv, ConnectionOK, At, PlanOf
  <2>2. CASE cmd[t].req \in {"GetNetworkDevices", "GetConnections"}
    <3>1. PlanOf(t) = DirectoryPlan
      BY <2>1, <2>2, PlansByName
    <3>2. pos[t] = 1 /\ PlanOf(t)[pos[t]] = "share"
      BY <1>1, <3>1, KeepingPlans
    <3> QED BY <1>3, <2>2, <3>2 DEF At
  <2>3. CASE cmd[t].req = "RotateHik"
    <3>1. PlanOf(t) = RotateHikPlan
      BY <2>1, <2>3, PlansByName
    <3>2. pos[t] = 6 /\ PlanOf(t)[pos[t]] = "share"
      BY <1>1, <3>1, KeepingPlans
    <3> QED BY <1>3, <2>3, <3>2 DEF At
  <2>4. CASE cmd[t].req = "Logout"
    <3>1. PlanOf(t) = LogoutPlan
      BY <2>1, <2>4, PlansByName
    <3>2. pos[t] = 1 /\ PlanOf(t)[pos[t]] = "own"
      BY <1>1, <3>1, KeepingPlans
    <3> QED BY <1>3, <2>4, <3>2 DEF At
  <2>5. CASE cmd[t].req \notin {"GetNetworkDevices", "GetConnections", "RotateHik", "Logout"}
    BY <1>1, <2>1, <2>5, PlansByName DEF Plain
  <2> QED BY <2>2, <2>3, <2>4, <2>5
<1> QED BY <1>2, <1>3 DEF Tasks

(* While it keeps the guard a task calls, may return, or lets it go.       *)
LEMMA GuardOps ==
  ASSUME IInv, NEW t \in Tasks, Sharing(t) \/ Owning(t)
  PROVE  /\ ~AtLock(t) /\ ~Done(t)
         /\ ~At(t, {"release"}) => pos[t] \in {2, 3, 7, 8} /\ (Owning(t) => pos[t] = 2)
         /\ At(t, {"release"}) => ~At(t, {"call", "may"})
<1>1. t \in Commands /\ cmd[t].req \in RequestNames
  BY DEF IInv, ConnectionOK, Sharing, Owning, RequestNames
<1>2. PlanOf(t) = Plan(cmd[t].req)
  BY <1>1 DEF PlanOf
<1>3. CASE cmd[t].req \in {"GetNetworkDevices", "GetConnections"} /\ pos[t] \in 2..4
  <2>1. PlanOf(t) = DirectoryPlan
    BY <1>2, <1>3, PlansByName
  <2>2. /\ pos[t] \in 1..Len(PlanOf(t))
        /\ PlanOf(t)[pos[t]] \in {"call", "may", "release"}
        /\ PlanOf(t)[pos[t]] = "release" <=> pos[t] = 4
    BY <1>3, <2>1, KeepingPlans
  <2> QED BY <1>3, <2>2 DEF AtLock, At, Done, Owning
<1>4. CASE cmd[t].req = "RotateHik" /\ pos[t] \in 7..9
  <2>1. PlanOf(t) = RotateHikPlan
    BY <1>2, <1>4, PlansByName
  <2>2. /\ pos[t] \in 1..Len(PlanOf(t))
        /\ PlanOf(t)[pos[t]] \in {"call", "may", "release"}
        /\ PlanOf(t)[pos[t]] = "release" <=> pos[t] = 9
    BY <1>4, <2>1, KeepingPlans
  <2> QED BY <1>4, <2>2 DEF AtLock, At, Done, Owning
<1>5. CASE cmd[t].req = "Logout" /\ pos[t] \in 2..3
  <2>1. PlanOf(t) = LogoutPlan
    BY <1>2, <1>5, PlansByName
  <2>2. /\ pos[t] \in 1..Len(PlanOf(t))
        /\ PlanOf(t)[pos[t]] \in {"call", "may", "release"}
        /\ PlanOf(t)[pos[t]] = "release" <=> pos[t] = 3
    BY <1>5, <2>1, KeepingPlans
  <2> QED BY <1>5, <2>2 DEF AtLock, At, Done, Owning
<1> QED BY <1>3, <1>4, <1>5 DEF Sharing, Owning

(* A step that leaves alone the lock, and the request and place of every   *)
(* task with a guard.                                                      *)
LEMMA OthersMove ==
  ASSUME IInv, GuardsOK, UNCHANGED <<readers, writer>>,
         \A t \in Tasks : Sharing(t) \/ Owning(t) =>
           pos'[t] = pos[t] /\ cmd'[t].req = cmd[t].req
  PROVE  GuardsOK'
<1>1. \A t \in readers : Sharing(t)'
  BY TasksFacts DEF GuardsOK, Sharing
<1>2. writer # None => Owning(writer)'
  BY TasksFacts DEF GuardsOK, Owning
<1> QED BY <1>1, <1>2 DEF GuardsOK

(* A task with a guard is a handler at work.                               *)
LEMMA GuardsWork ==
  ASSUME IInv, NEW t \in Tasks, Sharing(t) \/ Owning(t)
  PROVE  t \in Commands /\ pos[t] > 0 /\ cmd[t].server = "working" /\ ~Done(t)
<1>1. t \in Commands /\ pos[t] > 0
  BY DEF Sharing, Owning
<1> QED BY <1>1, GuardOps DEF IInv, ConnectionOK

LEMMA AcceptGuards ==
  ASSUME IInv, GuardsOK, Boot \/ AcceptStep \/ RequestStop
  PROVE  GuardsOK'
<1>1. CASE Exit
  BY <1>1 DEF Exit, GuardsOK
<1>2. CASE ~Exit
  <2>1. UNCHANGED <<readers, writer, pos>>
    BY <1>2 DEF Boot, AcceptStep, CheckStop, Connect, CreateNext, RequestStop, lock
  <2>2. \A c \in Commands : cmd'[c].req = cmd[c].req
    BY <1>2 DEF IInv, TypeOK, Command, Boot, AcceptStep, CheckStop, Connect, CreateNext,
                RequestStop, Set
  <2> QED BY <2>1, <2>2, OthersMove, GuardsWork
<1> QED BY <1>1, <1>2

LEMMA ClientGuards ==
  ASSUME IInv, GuardsOK, NEW c \in Commands,
         (\E req \in Asks[c] : Start(c, req)) \/ ClientStep(c) \/ HangUp(c)
  PROVE  GuardsOK'
<1>1. UNCHANGED <<readers, writer, pos>>
  BY DEF Start, ClientStep, Open, OpenFails, Disconnected, HangUp, lock
<1>2. \A d \in Commands : d # c => cmd'[d] = cmd[d]
  BY DEF IInv, TypeOK, Start, ClientStep, Open, OpenFails, Disconnected, HangUp, Set, End
<1>3. cmd[c].server = "working" => cmd'[c].req = cmd[c].req
  BY DEF IInv, TypeOK, ConnectionOK, Command, Start, ClientStep, Open, OpenFails,
         Disconnected, HangUp, Set, End
<1> QED BY <1>1, <1>2, <1>3, OthersMove, GuardsWork

LEMMA HandlerGuards ==
  ASSUME IInv, GuardsOK, NEW c \in Commands, ReadRequest(c) \/ Reply(c)
  PROVE  GuardsOK'
<1>1. UNCHANGED <<readers, writer>> /\ ~(Sharing(c) \/ Owning(c))
  BY GuardsWork, TasksFacts DEF ReadRequest, Reply, lock
<1>2. \A t \in Tasks : t # c => pos'[t] = pos[t]
  BY DEF IInv, TypeOK, ReadRequest, Reply
<1>3. \A d \in Commands : d # c => cmd'[d] = cmd[d]
  BY DEF IInv, TypeOK, ReadRequest, Reply, Set, End
<1> QED BY <1>1, <1>2, <1>3, OthersMove, GuardsWork

LEMMA LoopGuards ==
  ASSUME IInv, GuardsOK, NEW l \in Loops, Wake(l) \/ Sleep(l)
  PROVE  GuardsOK'
<1>1. UNCHANGED <<readers, writer, cmd>>
  BY DEF Wake, Sleep, lock
<1>2. \A t \in Tasks : t # l => pos'[t] = pos[t]
  BY DEF IInv, TypeOK, Wake, Sleep, Advance
<1> QED BY <1>1, <1>2, OthersMove, GuardsWork, LoopIsNoCommand

LEMMA AcquireGuards ==
  ASSUME IInv, GuardsOK, NEW t \in Tasks, AtLock(t), Acquire(t), UNCHANGED cmd
  PROVE  GuardsOK'
<1>1. ~(Sharing(t) \/ Owning(t)) /\ writer = None /\ t # None
  BY GuardOps, TasksAssumption DEF Acquire, MayHave
<1>2. pos' = [pos EXCEPT ![t] = pos[t] + 1] /\ pos \in [Tasks -> Nat]
  BY DEF Acquire, Advance, IInv, TypeOK
<1>3. \A u \in readers : Sharing(u)'
  BY <1>1, <1>2, TasksFacts DEF GuardsOK, Sharing
<1>4. At(t, {"share"}) => Sharing(t)'
  <2>1. At(t, {"share"}) => At(t, {"share", "own"})
    BY DEF At
  <2> QED BY <1>2, <2>1, KeepsGuard DEF Sharing
<1>5. At(t, {"own"}) => Owning(t)'
  <2>1. At(t, {"own"}) => At(t, {"share", "own"})
    BY DEF At
  <2> QED BY <1>2, <2>1, KeepsGuard DEF Owning
<1>6. \A u \in readers' : Sharing(u)'
  BY <1>3, <1>4 DEF Acquire
<1>7. writer' # None => Owning(writer)'
  BY <1>1, <1>5 DEF Acquire
<1> QED BY <1>6, <1>7 DEF GuardsOK

LEMMA DropGuards ==
  ASSUME IInv, GuardsOK, NEW t \in Tasks, NEW n \in Nat,
         pos' = [pos EXCEPT ![t] = n], DropGuard(t), UNCHANGED cmd
  PROVE  GuardsOK'
<1>1. \A u \in Tasks : u # t => pos'[u] = pos[u]
  BY DEF IInv, TypeOK
<1>2. \A u \in readers' : Sharing(u)'
  BY <1>1, TasksFacts DEF DropGuard, GuardsOK, Sharing
<1>3. writer' # None => Owning(writer)'
  BY <1>1, TasksFacts DEF DropGuard, GuardsOK, Owning
<1> QED BY <1>2, <1>3 DEF GuardsOK

LEMMA CallGuards ==
  ASSUME IInv, GuardsOK, NEW t \in Tasks, At(t, {"call", "may"}), Advance(t),
         UNCHANGED <<cmd, readers, writer>>
  PROVE  GuardsOK'
<1>1. pos \in [Tasks -> Nat] /\ pos' = [pos EXCEPT ![t] = pos[t] + 1]
  BY DEF Advance, IInv, TypeOK
<1>2. Sharing(t) => Sharing(t)'
  BY <1>1, GuardOps DEF Sharing
<1>3. Owning(t) => Owning(t)'
  BY <1>1, GuardOps DEF Owning
<1>4. \A u \in readers : Sharing(u)'
  BY <1>1, <1>2, TasksFacts DEF GuardsOK, Sharing
<1>5. writer # None => Owning(writer)'
  BY <1>1, <1>3, TasksFacts DEF GuardsOK, Owning
<1> QED BY <1>4, <1>5 DEF GuardsOK

LEMMA TaskGuards ==
  ASSUME IInv, GuardsOK, NEW t \in Tasks,
         AskForLock(t) \/ GetLock(t) \/ Release(t) \/ MayReturn(t) \/ Call(t)
  PROVE  GuardsOK'
<1>1. CASE AskForLock(t)
  <2>1. CASE Acquire(t)
    BY <1>1, <2>1, AcquireGuards DEF AskForLock
  <2>2. CASE UNCHANGED <<pos, readers, writer>>
    BY <1>1, <2>2, OthersMove DEF AskForLock
  <2> QED BY <1>1, <2>1, <2>2 DEF AskForLock
<1>2. CASE GetLock(t)
  BY <1>2, AcquireGuards DEF GetLock
<1>3. CASE Release(t)
  <2>1. pos[t] + 1 \in Nat
    BY DEF IInv, TypeOK
  <2> QED BY <1>3, <2>1, DropGuards DEF Release, Advance
<1>4. CASE MayReturn(t)
  <2>1. CASE Advance(t) /\ UNCHANGED lock
    <3>1. At(t, {"call", "may"})
      BY <1>4 DEF MayReturn, At
    <3> QED BY <1>4, <2>1, <3>1, CallGuards DEF MayReturn, lock
  <2>2. CASE pos' = [pos EXCEPT ![t] = Len(PlanOf(t)) + 1] /\ DropGuard(t)
    <3>1. Len(PlanOf(t)) + 1 \in Nat
      BY <1>4, PlanLength DEF MayReturn, At
    <3> QED BY <1>4, <2>2, <3>1, DropGuards DEF MayReturn
  <2> QED BY <1>4, <2>1, <2>2 DEF MayReturn
<1>5. CASE Call(t)
  <2>1. At(t, {"call", "may"})
    BY <1>5 DEF Call, At
  <2>2. CASE Advance(t)
    BY <1>5, <2>1, <2>2, CallGuards DEF Call, lock
  <2>3. CASE UNCHANGED pos
    BY <1>5, <2>3, OthersMove DEF Call, lock
  <2> QED BY <1>5, <2>2, <2>3 DEF Call
<1> QED BY <1>1, <1>2, <1>3, <1>4, <1>5

LEMMA GuardsStep == IInv /\ GuardsOK /\ [Next]_vars => GuardsOK'
<1> SUFFICES ASSUME IInv, GuardsOK, [Next]_vars PROVE GuardsOK'
  OBVIOUS
<1>1. CASE Boot \/ AcceptStep \/ RequestStop
  BY <1>1, AcceptGuards
<1>2. ASSUME NEW c \in Commands,
             (\E req \in Asks[c] : Start(c, req)) \/ ClientStep(c) \/ HangUp(c)
      PROVE  GuardsOK'
  BY <1>2, ClientGuards
<1>3. ASSUME NEW l \in Loops, Wake(l) PROVE GuardsOK'
  BY <1>3, LoopGuards
<1>4. ASSUME NEW t \in Tasks, TaskStep(t) PROVE GuardsOK'
  BY <1>4, HandlerGuards, LoopGuards, TaskGuards DEF TaskStep
<1>5. CASE UNCHANGED vars
  BY <1>5, OthersMove DEF vars, lock
<1> QED BY <1>1, <1>2, <1>3, <1>4, <1>5 DEF Next

(* Whatever is asked of the daemon, no handler and no loop waits for the   *)
(* DaemonState lock while it keeps a guard of it across an await.          *)
THEOREM NobodyWaitsForItself == FairSpec => []NoGuardWaits
<1>1. Init => GuardsOK
  BY DEF Init, GuardsOK
<1>2. IInv /\ GuardsOK => NoGuardWaits
  <2> SUFFICES ASSUME IInv, GuardsOK, NEW t \in readers \cup {writer}, t \in Tasks
               PROVE  ~AtLock(t)
    BY DEF NoGuardWaits
  <2>1. Sharing(t) \/ Owning(t)
    BY TasksAssumption DEF GuardsOK
  <2> QED BY <2>1, GuardOps
<1> QED BY <1>1, <1>2, GuardsStep, Invariance, PTL DEF FairSpec
=============================================================================
