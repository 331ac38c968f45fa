---------------------------- MODULE MCPnkSession ----------------------------
(* Model checking of PnkSession: symmetry of the identifiers that the      *)
(* specification only compares, and a bound.                               *)
EXTENDS PnkSession, TLC

Symmetry == Permutations(Tasks) \cup Permutations(RowIds) \cup Permutations(Devices)
              \cup Permutations(Users)

(* Bound: a machine that two things went wrong on is not followed further. *)
OneMishap == \A d \in Devices : \A a, b \in mishap[d] : a = b
=============================================================================
