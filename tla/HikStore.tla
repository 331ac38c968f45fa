------------------------------ MODULE HikStore ------------------------------
(***************************************************************************)
(* The hardware identity (HIK) of one machine: the secret and its version, *)
(* two entries of the Credential Manager, and the copy the daemon works    *)
(* with.  Each step is one Credential Manager call; the process can die    *)
(* between any two, and any call can fail.  A rotation runs under the      *)
(* daemon's write lock, so nobody in the process sees it half done.        *)
(***************************************************************************)
EXTENDS Naturals

CONSTANTS
  None,       \* Rust's Option::None, and a missing credential
  MaxMade,    \* bound: identities ever generated
  MaxFaults   \* bound: Credential Manager calls that fail

ASSUME BoundsAssumption == MaxMade \in Nat /\ MaxFaults \in Nat

(* A secret is a serial number; gen is a ghost, the version it was         *)
(* generated for.                                                          *)
Identity == [n : Nat, gen : Nat]

(* What the daemon works with: an identity and the version it claims.      *)
InUse == [id : Identity, version : Nat]

ASSUME NoneAssumption == None \notin Identity \cup InUse \cup Nat

VARIABLES
  secret,     \* the "hik" credential
  version,    \* the "hik_version" credential
  mem,        \* DaemonState.identity
  pc,         \* where the process is in load_or_generate or rotate
  next,       \* the identity being loaded or stored
  made,       \* how many identities have been generated
  last,       \* history: the identity a process last worked under
  retired,    \* history: those worked under before that one
  faults,     \* history: how many calls have failed
  clean       \* history: has no call failed since the process started?

creds == <<secret, version>>
history == <<last, retired>>
vars == <<secret, version, mem, pc, next, made, last, retired, faults, clean>>

PCs == {"down", "load", "loadVersion", "delSecret", "writeSecret",
        "delVersion", "writeVersion", "ready"}

TypeOK ==
  /\ secret \in Identity \cup {None}
  /\ version \in Nat \cup {None}
  /\ mem \in InUse \cup {None}
  /\ pc \in PCs
  /\ next \in Identity \cup {None}
  /\ made \in Nat
  /\ last \in Identity \cup {None}
  /\ retired \subseteq Identity
  /\ faults \in Nat
  /\ clean \in BOOLEAN

-----------------------------------------------------------------------------
Init ==
  /\ secret = None /\ version = None
  /\ mem = None /\ pc = "down" /\ next = None
  /\ made = 0
  /\ last = None /\ retired = {}
  /\ faults = 0 /\ clean = TRUE

(* The outcome of a Credential Manager call.                               *)
Succeeds == UNCHANGED <<faults, clean>>
Fails == faults < MaxFaults /\ faults' = faults + 1 /\ clean' = FALSE

(* Mutant: a missing version is not replaced.                              *)
ClaimedAsStored(v) == v

(* load_version: a missing version counts as 0.                            *)
Claimed(v) == IF v = None THEN 0 ELSE v

(* generate_and_store: a new secret for version v, to be stored first.     *)
Generate(v) ==
  /\ made < MaxMade
  /\ made' = made + 1
  /\ next' = [n |-> made + 1, gen |-> v]
  /\ pc' = "delSecret"

(* The process works under identity i from now on.                         *)
Adopt(i, v) ==
  /\ mem' = [id |-> i, version |-> v]
  /\ last' = i
  /\ retired' = retired \cup ({last} \ {i, None})
  /\ pc' = "ready" /\ next' = None

(* The error is passed on: it ends a starting daemon, and a rotation       *)
(* leaves the identity in memory as it was.                                *)
GiveUp ==
  /\ pc' = IF mem = None THEN "down" ELSE "ready"
  /\ next' = None
  /\ UNCHANGED <<mem, last, retired>>

-----------------------------------------------------------------------------
(* run_daemon starts with load_or_generate.                                *)
Boot ==
  /\ pc = "down"
  /\ pc' = "load" /\ clean' = TRUE
  /\ UNCHANGED <<creds, mem, next, made, history, faults>>

(* Any error of the read, not only a missing entry, makes a new identity.  *)
LoadSecret ==
  /\ pc = "load"
  /\ \/ /\ secret # None /\ Succeeds
        /\ next' = secret /\ pc' = "loadVersion"
        /\ UNCHANGED made
     \/ secret = None /\ Succeeds /\ Generate(0)
     \/ Fails /\ Generate(0)
  /\ UNCHANGED <<creds, mem, history>>

LoadVersion ==
  /\ pc = "loadVersion"
  /\ \/ Succeeds /\ Adopt(next, Claimed(version))
     \/ Fails /\ Adopt(next, 0)
  /\ UNCHANGED <<creds, made>>

(* Mutant: stores the new version before anything else.                    *)
RotateVersionFirst ==
  /\ pc = "ready"
  /\ Generate(mem.version + 1)
  /\ version' = mem.version + 1
  /\ UNCHANGED <<secret, mem, history, faults, clean>>

(* Mutant: works under the new identity before it is stored.               *)
RotateMemoryFirst ==
  /\ pc = "ready"
  /\ Generate(mem.version + 1)
  /\ mem' = [id |-> next', version |-> mem.version + 1]
  /\ last' = next' /\ retired' = retired \cup {last}
  /\ UNCHANGED <<creds, faults, clean>>

(* HardwareIdentity::rotate, from RotateHik.                               *)
Rotate ==
  /\ pc = "ready"
  /\ Generate(mem.version + 1)
  /\ UNCHANGED <<creds, mem, history, faults, clean>>

(* store_device_secret deletes the entry, whatever comes of it, and then   *)
(* writes it.                                                              *)
DeleteSecret ==
  /\ pc = "delSecret"
  /\ \/ Succeeds /\ secret' = None
     \/ Fails /\ UNCHANGED secret
  /\ pc' = "writeSecret"
  /\ UNCHANGED <<version, mem, next, made, history>>

WriteSecret ==
  /\ pc = "writeSecret"
  /\ \/ /\ Succeeds /\ secret' = next /\ pc' = "delVersion"
        /\ UNCHANGED <<mem, next, history>>
     \/ Fails /\ GiveUp /\ UNCHANGED secret
  /\ UNCHANGED <<version, made>>

DeleteVersion ==
  /\ pc = "delVersion"
  /\ \/ Succeeds /\ version' = None
     \/ Fails /\ UNCHANGED version
  /\ pc' = "writeVersion"
  /\ UNCHANGED <<secret, mem, next, made, history>>

(* Mutant: works under the new identity without storing its version.       *)
WriteVersionNever ==
  /\ pc = "writeVersion"
  /\ Succeeds /\ Adopt(next, next.gen)
  /\ UNCHANGED <<creds, made>>

WriteVersion ==
  /\ pc = "writeVersion"
  /\ \/ Succeeds /\ version' = next.gen /\ Adopt(next, next.gen)
     \/ Fails /\ GiveUp /\ UNCHANGED version
  /\ UNCHANGED <<secret, made>>

(* The process dies at any point; the Credential Manager keeps what it has *)
Crash ==
  /\ pc # "down"
  /\ pc' = "down" /\ mem' = None /\ next' = None
  /\ UNCHANGED <<creds, made, history, faults, clean>>

Next ==
  \/ Boot \/ LoadSecret \/ LoadVersion \/ Rotate
  \/ DeleteSecret \/ WriteSecret \/ DeleteVersion \/ WriteVersion
  \/ Crash

Spec == Init /\ [][Next]_vars

-----------------------------------------------------------------------------
(* Properties.                                                             *)

(* Whatever dies or fails half way through a start or a rotation, an       *)
(* identity the machine has moved on from never comes back: keys wrapped   *)
(* for a rotated HIK stay closed (crypto.rs:87-94, store before use).      *)
Fresh == INSTANCE FreshIdentity WITH Identities <- Identity, current <- last
RefinesFreshIdentity == Fresh!Spec

(* A daemon whose credential calls have all succeeded comes back, after a  *)
(* crash of its own, as the identity and version it works under, even if   *)
(* the run before it left the store half written.                          *)
RestartKeepsIdentity ==
  (pc = "ready" /\ clean) => mem = [id |-> secret, version |-> Claimed(version)]

(* The version never runs ahead of an identity that a rotation made: a     *)
(* crash between the two stores leaves it behind, never before it (a       *)
(* regenerated identity, gen 0, may inherit the version of the lost one).  *)
VersionNotAhead ==
  (mem # None /\ faults = 0 /\ mem.id.gen > 0) => mem.version <= mem.id.gen
=============================================================================
