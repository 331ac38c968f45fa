--------------------------- MODULE FreshIdentity ---------------------------
(***************************************************************************)
(* What a machine promises about its hardware identity: it works under one *)
(* identity at a time, and one it has moved on from never comes back.      *)
(***************************************************************************)
CONSTANTS
  Identities,  \* identities a machine can generate
  None         \* no identity yet

VARIABLES
  current,     \* the identity the machine works under, or last worked under
  retired      \* those it worked under before

Init == current = None /\ retired = {}

Replace ==
  /\ current' \in Identities \ (retired \cup {current})
  /\ retired' = retired \cup ({current} \ {None})

Spec == Init /\ [][Replace]_<<current, retired>>
=============================================================================
