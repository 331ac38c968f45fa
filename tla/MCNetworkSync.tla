--------------------------- MODULE MCNetworkSync ----------------------------
(* Model checking of NetworkSync: who owns the network, and who uses which *)
(* machine.  The runs on one machine are interchangeable.                  *)
EXTENDS NetworkSync, TLC

CONSTANTS owner, member,  \* two users
          desk, laptop    \* two machines

(* All networks belong to one user.                                        *)
OneOwner == [n \in Networks |-> owner]

(* Everybody on a machine of their own.                                    *)
OwnMachine == [m \in Machines |-> IF m = desk THEN {owner} ELSE {member}]

(* A machine that both use in turn.                                        *)
SharedMachine == [m \in Machines |-> {owner, member}]

(* HIK rotations: none, of the members' machine only, of every machine.    *)
NobodyRotates == [m \in Machines |-> 0]
LaptopRotates == [m \in Machines |-> IF m = laptop THEN 1 ELSE 0]
EachRotates   == [m \in Machines |-> 1]

Symmetry == Permutations(Tasks)
=============================================================================
