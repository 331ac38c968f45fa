---------------------------- MODULE SingleFlight ----------------------------
(* What oauth_listening promises: of the attempts to log in, at most one   *)
(* is under way, and the one under way ends, unless it gets stuck: then    *)
(* nobody else can begin before everything is reset.                       *)
CONSTANTS Attempts, None

VARIABLES
  holder,  \* the attempt under way
  stuck    \* does it wait for something that never comes?

vars == <<holder, stuck>>

Init == holder = None /\ stuck = FALSE

Begin(a) == holder = None /\ holder' = a /\ UNCHANGED stuck

End == holder # None /\ ~stuck /\ holder' = None /\ UNCHANGED stuck

Stick == holder # None /\ ~stuck /\ stuck' = TRUE /\ UNCHANGED holder

Reset == holder # None /\ holder' = None /\ stuck' = FALSE

Next == (\E a \in Attempts : Begin(a)) \/ End \/ Stick \/ Reset

Safety == Init /\ [][Next]_vars

Spec == Safety /\ WF_vars(End)
=============================================================================
