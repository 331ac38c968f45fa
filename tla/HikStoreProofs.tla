--------------------------- MODULE HikStoreProofs ---------------------------
(***************************************************************************)
(* Proofs about HikStore, for any number of identities and of failing      *)
(* calls: an identity that was moved on from never comes back, a restart   *)
(* finds what is in use, and a version does not run ahead of the identity  *)
(* it belongs to.                                                          *)
(***************************************************************************)
EXTENDS HikStore, TLAPS

Storing == {"delSecret", "writeSecret", "delVersion", "writeVersion"}

(* Where the process is, and what it then has in memory and in hand.       *)
PhaseOK ==
  /\ pc \in {"down", "load", "loadVersion"} => mem = None
  /\ pc = "ready" => mem # None
  /\ mem # None => mem.id = last
  /\ pc = "loadVersion" => next # None /\ next = secret
  /\ pc \in Storing => next # None /\ next # last /\ next \notin retired
  /\ pc \in {"delVersion", "writeVersion"} => secret = next

(* The stored identity was never retired, and serial numbers only grow.    *)
StoreOK ==
  /\ secret # None => secret \notin retired
  /\ last \notin retired
  /\ \A i \in retired \cup {last, secret, next} : i # None => i.n <= made

(* While no call has failed, the stored version is the claimed one, except *)
(* between the two stores of a rotation, where it has not caught up.       *)
VersionOK ==
  faults = 0 =>
    /\ (secret # None /\ secret.gen > 0) => Claimed(version) <= secret.gen
    /\ (mem # None /\ mem.id.gen > 0) => mem.version <= mem.id.gen
    /\ (mem # None /\ pc \in {"ready", "delSecret", "writeSecret"})
         => Claimed(version) = mem.version
    /\ (mem # None /\ pc \in Storing) => next.gen = mem.version + 1
    /\ (mem = None /\ pc \in Storing) => next.gen = 0

Inv == TypeOK /\ PhaseOK /\ StoreOK /\ RestartKeepsIdentity /\ VersionOK

-----------------------------------------------------------------------------
(* The steps that several actions share.                                   *)

(* A generated identity is one that no process has worked under and that   *)
(* is not stored.                                                          *)
LEMMA GenerateIsFresh ==
  ASSUME Inv, NEW v \in Nat, Generate(v)
  PROVE  /\ next' \in Identity /\ next' # None /\ next'.gen = v
         /\ next'.n = made + 1 /\ made' = made + 1
         /\ next' \notin retired \cup {last, secret}
         /\ pc' = "delSecret"
<1>1. next' = [n |-> made + 1, gen |-> v] /\ made' = made + 1 /\ pc' = "delSecret"
  BY DEF Generate
<1>2. made \in Nat /\ next' \in Identity /\ next' # None
  BY <1>1, NoneAssumption DEF Inv, TypeOK, Identity
<1>3. ASSUME NEW i \in retired \cup {last, secret}, i = next'  PROVE FALSE
  BY <1>1, <1>2, <1>3 DEF Inv, TypeOK, StoreOK, Identity
<1> QED  BY <1>1, <1>2, <1>3

(* A call succeeds or fails; a failure is remembered.                      *)
LEMMA OutcomeTyped ==
  ASSUME TypeOK, Succeeds \/ Fails
  PROVE  /\ faults' \in Nat /\ clean' \in BOOLEAN
         /\ faults' = 0 => faults = 0
<1>1. faults' \in Nat /\ (faults' = 0 => faults = 0)
  BY DEF TypeOK, Succeeds, Fails
<1>2. clean' \in BOOLEAN
  BY Zenon DEF TypeOK, Succeeds, Fails
<1> QED  BY <1>1, <1>2

(* What working under an identity does to memory and to the history.       *)
LEMMA AdoptIsTyped ==
  ASSUME TypeOK, NEW i \in Identity, NEW v \in Nat, Adopt(i, v)
  PROVE  /\ mem' \in InUse /\ mem' # None
         /\ mem'.id = i /\ mem'.version = v /\ mem' = [id |-> i, version |-> v]
         /\ last' = i /\ pc' = "ready" /\ next' = None
         /\ retired' \subseteq Identity
         /\ retired' \subseteq retired \cup ({last} \ {None})
         /\ i \notin retired => i \notin retired'
         /\ i # None
  BY NoneAssumption DEF TypeOK, Adopt, InUse

(* An error leaves everything as it was.                                   *)
LEMMA GiveUpKeeps ==
  ASSUME TypeOK, GiveUp
  PROVE  /\ mem' = mem /\ last' = last /\ retired' = retired /\ next' = None
         /\ pc' \in {"down", "ready"} /\ (pc' = "ready" <=> mem # None)
  BY DEF GiveUp

LEMMA InitInv == Init => Inv
<1> SUFFICES ASSUME Init  PROVE Inv
  OBVIOUS
<1>1. TypeOK
  BY DEF Init, TypeOK, PCs
<1>2. PhaseOK /\ StoreOK
  BY DEF Init, PhaseOK, StoreOK, Storing
<1>3. RestartKeepsIdentity /\ VersionOK
  BY DEF Init, RestartKeepsIdentity, VersionOK, Storing
<1> QED  BY <1>1, <1>2, <1>3 DEF Inv

-----------------------------------------------------------------------------
(* The invariant, action by action.                                        *)

LEMMA BootPreserves == ASSUME Inv, Boot  PROVE Inv'
<1>1. TypeOK'
  BY DEF Inv, Boot, creds, history, TypeOK, PCs
<1>2. PhaseOK' /\ StoreOK'
  BY DEF Inv, Boot, creds, history, PhaseOK, StoreOK, Storing
<1>3. RestartKeepsIdentity' /\ VersionOK'
  BY DEF Inv, Boot, creds, history, RestartKeepsIdentity, VersionOK, PhaseOK, Storing, Claimed
<1> QED  BY <1>1, <1>2, <1>3 DEF Inv

LEMMA LoadSecretPreserves == ASSUME Inv, LoadSecret  PROVE Inv'
<1>0. mem = None /\ UNCHANGED <<secret, version, mem, last, retired>>
  BY DEF LoadSecret, Inv, PhaseOK, creds, history
<1>1. CASE secret # None /\ Succeeds /\ next' = secret /\ pc' = "loadVersion" /\ made' = made
  <2>1. TypeOK'
    BY <1>0, <1>1 DEF Inv, TypeOK, PCs, Succeeds
  <2>2. PhaseOK' /\ StoreOK'
    BY <1>0, <1>1 DEF Inv, PhaseOK, StoreOK, Storing
  <2>3. RestartKeepsIdentity' /\ VersionOK'
    BY <1>0, <1>1 DEF Inv, RestartKeepsIdentity, VersionOK, Storing, Succeeds, Claimed
  <2> QED  BY <2>1, <2>2, <2>3 DEF Inv
<1>2. CASE (Succeeds \/ Fails) /\ Generate(0)
  <2>0. /\ next' \in Identity /\ next' # None /\ next'.gen = 0
        /\ next'.n = made + 1 /\ made' = made + 1
        /\ next' \notin retired \cup {last, secret} /\ pc' = "delSecret"
    BY <1>2, GenerateIsFresh
  <2>1. TypeOK'
    BY <1>0, <1>2, <2>0, OutcomeTyped DEF Inv, TypeOK, PCs
  <2>2. PhaseOK'
    BY <1>0, <2>0 DEF Inv, PhaseOK, Storing
  <2>3. StoreOK'
    BY <1>0, <2>0 DEF Inv, TypeOK, StoreOK, Identity
  <2>4. RestartKeepsIdentity'
    BY <2>0 DEF RestartKeepsIdentity
  <2>5. faults' = 0 => faults = 0
    BY <1>2 DEF Inv, TypeOK, Succeeds, Fails
  <2>6. VersionOK'
    BY <1>0, <2>0, <2>5 DEF Inv, VersionOK, Storing, Claimed
  <2> QED  BY <2>1, <2>2, <2>3, <2>4, <2>6 DEF Inv
<1> QED  BY <1>1, <1>2 DEF LoadSecret

LEMMA LoadVersionPreserves == ASSUME Inv, LoadVersion  PROVE Inv'
<1>0. /\ mem = None /\ next # None /\ next = secret /\ next \in Identity /\ next \notin retired
      /\ UNCHANGED <<secret, version, made>>
  BY DEF LoadVersion, Inv, PhaseOK, StoreOK, TypeOK, creds
<1>1. PICK v \in Nat : /\ Adopt(next, v)
                       /\ \/ Succeeds /\ v = Claimed(version)
                          \/ Fails
  <2>1. Claimed(version) \in Nat /\ 0 \in Nat
    BY DEF Claimed, Inv, TypeOK
  <2> QED  BY <2>1 DEF LoadVersion
<1>2. /\ mem' \in InUse /\ mem' # None
      /\ mem'.id = next /\ mem'.version = v /\ mem' = [id |-> next, version |-> v]
      /\ last' = next /\ pc' = "ready" /\ next' = None
      /\ retired' \subseteq Identity
      /\ retired' \subseteq retired \cup ({last} \ {None})
      /\ next \notin retired'
  BY <1>0, <1>1, AdoptIsTyped DEF Inv
<1>3. TypeOK'
  BY <1>0, <1>1, <1>2, OutcomeTyped DEF Inv, TypeOK, PCs
<1>4. PhaseOK'
  BY <1>2 DEF PhaseOK, Storing
<1>5. StoreOK'
  BY <1>0, <1>2 DEF Inv, StoreOK
<1>6. RestartKeepsIdentity'
  BY <1>0, <1>1, <1>2 DEF RestartKeepsIdentity, Fails, Claimed
<1>7. faults' = 0 => faults = 0 /\ v = Claimed(version)
  BY <1>1 DEF Inv, TypeOK, Succeeds, Fails
<1>8. VersionOK'
  BY <1>0, <1>2, <1>7 DEF Inv, VersionOK, Storing, Claimed
<1> QED  BY <1>3, <1>4, <1>5, <1>6, <1>8 DEF Inv

LEMMA RotatePreserves == ASSUME Inv, Rotate  PROVE Inv'
<1>0. /\ mem # None /\ mem.version \in Nat /\ pc = "ready"
      /\ UNCHANGED <<secret, version, mem, last, retired, faults, clean>>
      /\ Generate(mem.version + 1)
  BY DEF Rotate, Inv, PhaseOK, TypeOK, InUse, creds, history
<1>1. /\ next' \in Identity /\ next' # None /\ next'.gen = mem.version + 1
      /\ next'.n = made + 1 /\ made' = made + 1
      /\ next' \notin retired \cup {last, secret} /\ pc' = "delSecret"
  BY <1>0, GenerateIsFresh
<1>2. TypeOK'
  BY <1>0, <1>1 DEF Inv, TypeOK, PCs
<1>3. PhaseOK'
  BY <1>0, <1>1 DEF Inv, PhaseOK, Storing
<1>4. StoreOK'
  BY <1>0, <1>1 DEF Inv, TypeOK, StoreOK, Identity
<1>5. RestartKeepsIdentity'
  BY <1>1 DEF RestartKeepsIdentity
<1>6. VersionOK'
  BY <1>0, <1>1 DEF Inv, VersionOK, Storing, Claimed
<1> QED  BY <1>2, <1>3, <1>4, <1>5, <1>6 DEF Inv

LEMMA DeleteSecretPreserves == ASSUME Inv, DeleteSecret  PROVE Inv'
<1>0. /\ pc = "delSecret" /\ pc' = "writeSecret"
      /\ UNCHANGED <<version, mem, next, made, last, retired>>
      /\ secret' \in {secret, None} /\ (Succeeds \/ Fails)
  BY DEF DeleteSecret, history
<1>1. TypeOK'
  BY <1>0, OutcomeTyped DEF Inv, TypeOK, PCs
<1>2. PhaseOK' /\ StoreOK'
  BY <1>0 DEF Inv, PhaseOK, StoreOK, Storing
<1>3. RestartKeepsIdentity'
  BY <1>0 DEF RestartKeepsIdentity
<1>4. faults' = 0 => faults = 0
  BY <1>0 DEF Inv, TypeOK, Succeeds, Fails
<1>5. VersionOK'
  BY <1>0, <1>4 DEF Inv, VersionOK, Storing, Claimed
<1> QED  BY <1>1, <1>2, <1>3, <1>5 DEF Inv

(* The error of a store, which leaves the daemon as it was.                *)
LEMMA FailedStorePreserves ==
  ASSUME Inv, Fails, GiveUp, UNCHANGED <<secret, version, made>>
  PROVE  Inv'
<1>1. /\ mem' = mem /\ last' = last /\ retired' = retired /\ next' = None
      /\ pc' \in {"down", "ready"} /\ (pc' = "ready" <=> mem # None)
  BY GiveUpKeeps DEF Inv
<1>2. TypeOK'
  BY <1>1, OutcomeTyped DEF Inv, TypeOK, PCs
<1>3. PhaseOK' /\ StoreOK'
  BY <1>1 DEF Inv, PhaseOK, StoreOK, Storing
<1>4. RestartKeepsIdentity'
  BY DEF RestartKeepsIdentity, Fails
<1>5. VersionOK'
  BY DEF Inv, TypeOK, VersionOK, Fails
<1> QED  BY <1>2, <1>3, <1>4, <1>5 DEF Inv

LEMMA WriteSecretPreserves == ASSUME Inv, WriteSecret  PROVE Inv'
<1>0. pc = "writeSecret" /\ UNCHANGED <<version, made>>
  BY DEF WriteSecret
<1>1. CASE Fails /\ GiveUp /\ secret' = secret
  BY <1>0, <1>1, FailedStorePreserves
<1>2. CASE /\ Succeeds /\ secret' = next /\ pc' = "delVersion"
           /\ UNCHANGED <<mem, next, last, retired>>
  <2>1. TypeOK'
    BY <1>0, <1>2 DEF Inv, TypeOK, PCs, Succeeds
  <2>2. PhaseOK' /\ StoreOK'
    BY <1>0, <1>2 DEF Inv, PhaseOK, StoreOK, Storing
  <2>3. RestartKeepsIdentity'
    BY <1>2 DEF RestartKeepsIdentity
  <2>4. VersionOK'
    <3> SUFFICES ASSUME faults = 0  PROVE VersionOK'
      BY <1>2 DEF VersionOK, Succeeds
    <3>1. mem # None => mem.version \in Nat
      BY DEF Inv, TypeOK, InUse
    <3>2. (next.gen > 0) => Claimed(version) <= next.gen
      BY <1>0, <3>1 DEF Inv, PhaseOK, VersionOK, Storing
    <3> QED  BY <1>0, <1>2, <3>2 DEF Inv, VersionOK, Storing, Claimed
  <2> QED  BY <2>1, <2>2, <2>3, <2>4 DEF Inv
<1> QED  BY <1>1, <1>2 DEF WriteSecret, history

LEMMA DeleteVersionPreserves == ASSUME Inv, DeleteVersion  PROVE Inv'
<1>0. /\ pc = "delVersion" /\ pc' = "writeVersion"
      /\ UNCHANGED <<secret, mem, next, made, last, retired>>
      /\ version' \in {version, None} /\ (Succeeds \/ Fails)
  BY DEF DeleteVersion, history
<1>1. TypeOK'
  BY <1>0, OutcomeTyped DEF Inv, TypeOK, PCs
<1>2. PhaseOK' /\ StoreOK'
  BY <1>0 DEF Inv, PhaseOK, StoreOK, Storing
<1>3. RestartKeepsIdentity'
  BY <1>0 DEF RestartKeepsIdentity
<1>4. faults' = 0 => faults = 0
  BY <1>0 DEF Inv, TypeOK, Succeeds, Fails
<1>5. Claimed(version') \in {Claimed(version), 0}
  BY <1>0 DEF Claimed
<1>6. secret # None => secret.gen \in Nat
  BY DEF Inv, TypeOK, Identity
<1>7. VersionOK'
  BY <1>0, <1>4, <1>5, <1>6 DEF Inv, VersionOK, Storing, Claimed
<1> QED  BY <1>1, <1>2, <1>3, <1>7 DEF Inv

LEMMA WriteVersionPreserves == ASSUME Inv, WriteVersion  PROVE Inv'
<1>0. /\ pc = "writeVersion" /\ UNCHANGED <<secret, made>>
      /\ next # None /\ next \in Identity /\ next.gen \in Nat
      /\ next = secret /\ next \notin retired
  BY DEF WriteVersion, Inv, PhaseOK, TypeOK, Storing, Identity
<1>1. CASE Fails /\ GiveUp /\ version' = version
  BY <1>0, <1>1, FailedStorePreserves
<1>2. CASE Succeeds /\ version' = next.gen /\ Adopt(next, next.gen)
  <2>0. version' # None /\ Claimed(version') = next.gen
    BY <1>0, <1>2, NoneAssumption DEF Claimed
  <2>1. /\ mem' \in InUse /\ mem' # None /\ mem'.id = next /\ mem'.version = next.gen
        /\ mem' = [id |-> next, version |-> next.gen]
        /\ last' = next /\ pc' = "ready" /\ next' = None
        /\ retired' \subseteq Identity
        /\ retired' \subseteq retired \cup ({last} \ {None})
        /\ next \notin retired'
    BY <1>0, <1>2, AdoptIsTyped DEF Inv
  <2>2. TypeOK'
    BY <1>0, <1>2, <2>1 DEF Inv, TypeOK, PCs, Succeeds
  <2>3. PhaseOK'
    BY <2>1 DEF PhaseOK, Storing
  <2>4. StoreOK'
    BY <1>0, <2>1 DEF Inv, StoreOK
  <2>5. RestartKeepsIdentity'
    BY <1>0, <2>0, <2>1 DEF RestartKeepsIdentity, Claimed
  <2>6. VersionOK'
    BY <1>0, <2>0, <2>1 DEF VersionOK, Storing, Claimed
  <2> QED  BY <2>2, <2>3, <2>4, <2>5, <2>6 DEF Inv
<1> QED  BY <1>1, <1>2 DEF WriteVersion

LEMMA CrashPreserves == ASSUME Inv, Crash  PROVE Inv'
<1>1. TypeOK'
  BY DEF Inv, Crash, creds, history, TypeOK, PCs
<1>2. PhaseOK' /\ StoreOK'
  BY DEF Inv, Crash, creds, history, PhaseOK, StoreOK, Storing
<1>3. RestartKeepsIdentity' /\ VersionOK'
  BY DEF Inv, Crash, creds, history, RestartKeepsIdentity, VersionOK, Storing, Claimed
<1> QED  BY <1>1, <1>2, <1>3 DEF Inv

LEMMA NextInv == ASSUME Inv, [Next]_vars  PROVE Inv'
<1>1. CASE Next
  BY <1>1, BootPreserves, LoadSecretPreserves, LoadVersionPreserves, RotatePreserves,
     DeleteSecretPreserves, WriteSecretPreserves, DeleteVersionPreserves,
     WriteVersionPreserves, CrashPreserves DEF Next
<1>2. CASE UNCHANGED vars
  BY <1>2 DEF vars, Inv, TypeOK, PhaseOK, StoreOK, RestartKeepsIdentity, VersionOK,
     Claimed, Storing
<1> QED  BY <1>1, <1>2

THEOREM Invariance == Spec => []Inv
  BY InitInv, NextInv, PTL DEF Spec

-----------------------------------------------------------------------------
(* The variables keep their types, a missing version is never claimed.     *)
THEOREM TypeCorrect == Spec => []TypeOK
<1>1. Inv => TypeOK
  BY DEF Inv
<1> QED  BY <1>1, Invariance, PTL

(* A restart finds the identity and version in use, whatever an earlier    *)
(* run of the daemon left half written, unless a call failed meanwhile.    *)
THEOREM RestartsAsItself == Spec => []RestartKeepsIdentity
<1>1. Inv => RestartKeepsIdentity
  BY DEF Inv
<1> QED  BY <1>1, Invariance, PTL

(* A crash between the two stores leaves the version behind, never ahead.  *)
THEOREM VersionFollows == Spec => []VersionNotAhead
<1>1. Inv => VersionNotAhead
  BY DEF Inv, VersionOK, VersionNotAhead
<1> QED  BY <1>1, Invariance, PTL

-----------------------------------------------------------------------------
(* The refinement: a start or a rotation that comes through replaces the   *)
(* identity by one never worked under, or goes on with the last one.       *)
LEMMA AdoptRefines ==
  ASSUME Inv, NEW i \in Identity, NEW v \in Nat, Adopt(i, v), i \notin retired
  PROVE  [Fresh!Replace]_<<last, retired>>
<1>1. i # None
  BY NoneAssumption
<1>2. CASE i = last
  BY <1>2 DEF Adopt
<1>3. CASE i # last
  BY <1>1, <1>3 DEF Adopt, Fresh!Replace
<1> QED  BY <1>2, <1>3

LEMMA StepRefines ==
  ASSUME Inv, [Next]_vars
  PROVE  [Fresh!Replace]_<<last, retired>>
<1>1. CASE LoadVersion
  <2>1. next \in Identity /\ next \notin retired /\ Claimed(version) \in Nat /\ 0 \in Nat
    BY <1>1 DEF LoadVersion, Inv, PhaseOK, StoreOK, TypeOK, Claimed
  <2> QED  BY <1>1, <2>1, AdoptRefines DEF LoadVersion
<1>2. CASE WriteVersion
  <2>1. next \in Identity /\ next \notin retired /\ next.gen \in Nat
    BY <1>2 DEF WriteVersion, Inv, PhaseOK, StoreOK, TypeOK, Storing, Identity
  <2>2. CASE GiveUp
    BY <2>2 DEF GiveUp
  <2>3. CASE Adopt(next, next.gen)
    BY <2>1, <2>3, AdoptRefines
  <2> QED  BY <1>2, <2>2, <2>3 DEF WriteVersion
<1>3. CASE WriteSecret
  BY <1>3 DEF WriteSecret, GiveUp, history
<1>4. CASE Boot \/ LoadSecret \/ Rotate \/ DeleteSecret \/ DeleteVersion \/ Crash
  BY <1>4 DEF Boot, LoadSecret, Rotate, DeleteSecret, DeleteVersion, Crash, history
<1>5. CASE UNCHANGED vars
  BY <1>5 DEF vars
<1> QED  BY <1>1, <1>2, <1>3, <1>4, <1>5 DEF Next

(* An identity the machine has moved on from never comes back, for any     *)
(* number of rotations, crashes and failing calls.                         *)
THEOREM IdentityIsFresh == Spec => RefinesFreshIdentity
<1>1. Init => Fresh!Init
  BY DEF Init, Fresh!Init
<1>2. Inv /\ [Next]_vars => [Fresh!Replace]_<<last, retired>>
  BY StepRefines
<1> QED  BY <1>1, <1>2, Invariance, PTL DEF Spec, RefinesFreshIdentity, Fresh!Spec
=============================================================================
