------------------------------ MODULE Pairing ------------------------------
(***************************************************************************)
(* Pairing a daemon with a user through a row of desktop_sessions          *)
(* (IpcRequest::StartOAuthFlow): the request marks the daemon as           *)
(* listening, creates a pending session, opens the browser on it and       *)
(* spawns a task that polls the row until the web site has linked it.      *)
(*                                                                         *)
(* An attempt is one such request and the task it spawns.  The tasks of    *)
(* earlier attempts outlive the request, and any client may ask again at   *)
(* any time: oauth_listening is what keeps the attempts apart.  What the   *)
(* task does after it has logged the user in (device registration, keys)   *)
(* is Login in PnkSession.                                                 *)
(***************************************************************************)
EXTENDS Naturals

CONSTANTS
  Attempts,      \* StartOAuthFlow requests that can be under way
  Sessions,      \* bound: the desktop_sessions rows ever created
  Users,
  None,
  BrokerFaults,  \* may a broker call fail, or never be answered?
  MaxPolls       \* MAX_POLLS, 150 in the code

ASSUME NoneAssumption == None \notin Attempts \cup Sessions \cup Users
ASSUME MaxPollsAssumption == MaxPolls \in Nat \ {0}

VARIABLES
  configured,  \* is there a broker (Supabase) at all? fixed at start-up
  listening,   \* DaemonState.oauth_listening
  user,        \* DaemonState.logged_in_user
  attempt,     \* attempt[a]: program counter and locals
  session,     \* session[s]: a row of desktop_sessions
  browser      \* the sessions a browser page was opened for

vars == <<configured, listening, user, attempt, session, browser>>

PCs == {"idle", "broker", "create", "open", "poll", "expired", "consume", "apply",
        "hung"}

Idle == [pc |-> "idle", session |-> None, user |-> None, polls |-> 0]
Unused == [status |-> "unused", user |-> None]

Attempt == [pc : PCs, session : Sessions \cup {None}, user : Users \cup {None},
            polls : 0..MaxPolls]
Session == [status : {"unused", "pending", "linked", "consumed"}, user : Users \cup {None}]

TypeOK ==
  /\ configured \in BOOLEAN
  /\ listening \in BOOLEAN
  /\ user \in Users \cup {None}
  /\ attempt \in [Attempts -> Attempt]
  /\ session \in [Sessions -> Session]
  /\ browser \subseteq Sessions

Init ==
  /\ configured \in BOOLEAN
  /\ listening = FALSE
  /\ user = None
  /\ attempt = [a \in Attempts |-> Idle]
  /\ session = [s \in Sessions |-> Unused]
  /\ browser = {}

Outcomes == IF BrokerFaults THEN {"ok", "refused", "lost"} ELSE {"ok"}
Applied(outcome) == outcome \in {"ok", "lost"}

At(a, pc) == attempt[a].pc = pc
Become(a, record) == attempt' = [attempt EXCEPT ![a] = record]
Goto(a, pc) == Become(a, [attempt[a] EXCEPT !.pc = pc])

(* Every way out of an attempt before its user is known.                   *)
GiveUp(a) == Become(a, Idle) /\ listening' = FALSE

-----------------------------------------------------------------------------
(* The request.                                                            *)

(* Mutant: tests and sets oauth_listening without holding on to the lock.  *)
StartUnchecked(a) ==
  /\ At(a, "idle")
  /\ \E s \in Sessions : session[s] = Unused
  /\ listening' = TRUE
  /\ Goto(a, "broker")
  /\ UNCHANGED <<configured, user, session, browser>>

(* Test and set under one write lock; an attempt that finds the flag set   *)
(* is refused and changes nothing.  The second conjunct is the bound.      *)
StartOAuthFlow(a) ==
  /\ At(a, "idle")
  /\ \E s \in Sessions : session[s] = Unused
  /\ ~listening
  /\ listening' = TRUE
  /\ Goto(a, "broker")
  /\ UNCHANGED <<configured, user, session, browser>>

ReadBroker(a) ==
  /\ At(a, "broker")
  /\ IF configured THEN Goto(a, "create") /\ UNCHANGED listening ELSE GiveUp(a)
  /\ UNCHANGED <<configured, user, session, browser>>

CreateDesktopSession(a) ==
  /\ At(a, "create")
  /\ \E outcome \in Outcomes, s \in {x \in Sessions : session[x] = Unused} :
       /\ session' = IF Applied(outcome)
                       THEN [session EXCEPT ![s].status = "pending"]
                       ELSE session
       /\ IF outcome = "ok"
            THEN /\ Become(a, [attempt[a] EXCEPT !.pc = "open", !.session = s])
                 /\ UNCHANGED listening
            ELSE GiveUp(a)
  /\ UNCHANGED <<configured, user, browser>>

(* Mutant: the error path leaves oauth_listening set.                      *)
OpenBrowserForgets(a) ==
  /\ At(a, "open")
  /\ \/ Goto(a, "poll") /\ browser' = browser \cup {attempt[a].session}
     \/ Become(a, Idle) /\ UNCHANGED browser
  /\ UNCHANGED <<configured, listening, user, session>>

OpenBrowser(a) ==
  /\ At(a, "open")
  /\ \/ /\ Goto(a, "poll")
        /\ browser' = browser \cup {attempt[a].session}
        /\ UNCHANGED listening
     \/ GiveUp(a) /\ UNCHANGED browser
  /\ UNCHANGED <<configured, user, session>>

-----------------------------------------------------------------------------
(* The polling task.                                                       *)

(* Mutant: the loop runs once more than MAX_POLLS.                         *)
MissedPastLimit(a) ==
  LET polls == attempt[a].polls + 1
  IN Become(a, [attempt[a] EXCEPT !.polls = polls,
                  !.pc = IF polls > MaxPolls THEN "expired" ELSE "poll"])

(* One poll that did not find a linked row.                                *)
Missed(a) ==
  LET polls == attempt[a].polls + 1
  IN Become(a, [attempt[a] EXCEPT !.polls = polls,
                  !.pc = IF polls = MaxPolls THEN "expired" ELSE "poll"])

(* Mutant: keeps polling for ever.                                         *)
PollForEver(a) ==
  /\ At(a, "poll")
  /\ session[attempt[a].session].status = "linked"
  /\ Become(a, [attempt[a] EXCEPT !.pc = "consume",
                                  !.user = session[attempt[a].session].user])
  /\ UNCHANGED <<configured, listening, user, session, browser>>

(* poll_desktop_session: only a linked row yields a user; an error counts  *)
(* as an attempt like "still pending" does.                                *)
PollDesktopSession(a) ==
  /\ At(a, "poll")
  /\ LET row == session[attempt[a].session]
     IN \/ /\ row.status = "linked"
           /\ Become(a, [attempt[a] EXCEPT !.pc = "consume", !.user = row.user])
        \/ /\ row.status # "linked" \/ BrokerFaults
           /\ Missed(a)
  /\ UNCHANGED <<configured, listening, user, session, browser>>

TimeOut(a) ==
  /\ At(a, "expired")
  /\ GiveUp(a)
  /\ UNCHANGED <<configured, user, session, browser>>

(* Best effort: a failure is logged and the login goes on.                 *)
ConsumeDesktopSession(a) ==
  /\ At(a, "consume")
  /\ \E outcome \in Outcomes :
       session' = IF Applied(outcome)
                    THEN [session EXCEPT ![attempt[a].session].status = "consumed"]
                    ELSE session
  /\ Goto(a, "apply")
  /\ UNCHANGED <<configured, listening, user, browser>>

(* Mutant: logs in whoever the row names by now.                           *)
ApplySomeUser(a) ==
  /\ At(a, "apply")
  /\ listening' = FALSE
  /\ user' \in Users
  /\ Become(a, Idle)
  /\ UNCHANGED <<configured, session, browser>>

ApplyIdentity(a) ==
  /\ At(a, "apply")
  /\ listening' = FALSE
  /\ user' = attempt[a].user
  /\ Become(a, Idle)
  /\ UNCHANGED <<configured, session, browser>>

(* The HTTP client sets no timeout (broker.rs:54): a call can wait for     *)
(* ever, and may have taken effect.  oauth_listening stays set.            *)
Hang(a) ==
  /\ BrokerFaults
  /\ \/ At(a, "create") /\ \E s \in {x \in Sessions : session[x] = Unused} :
          session' \in {session, [session EXCEPT ![s].status = "pending"]}
     \/ At(a, "poll") /\ UNCHANGED session
     \/ /\ At(a, "consume")
        /\ session' \in {session, [session EXCEPT ![attempt[a].session].status = "consumed"]}
  /\ Become(a, [Idle EXCEPT !.pc = "hung"])
  /\ UNCHANGED <<configured, listening, user, browser>>

-----------------------------------------------------------------------------
(* Everybody else.                                                         *)

(* The web site, after the user has signed in on the page that was opened: *)
(* it fills in a pending row.                                              *)
LinkSession(s) ==
  /\ s \in browser
  /\ session[s].status = "pending"
  /\ \E u \in Users : session' = [session EXCEPT ![s] = [status |-> "linked", user |-> u]]
  /\ UNCHANGED <<configured, listening, user, attempt, browser>>

(* Logout does not touch oauth_listening nor the polling task.             *)
Logout ==
  /\ user' = None
  /\ UNCHANGED <<configured, listening, attempt, session, browser>>

Restart ==
  /\ listening' = FALSE
  /\ user' = None
  /\ attempt' = [a \in Attempts |-> Idle]
  /\ UNCHANGED <<configured, session, browser>>

Proceed(a) ==
  \/ ReadBroker(a) \/ CreateDesktopSession(a) \/ OpenBrowser(a)
  \/ PollDesktopSession(a) \/ TimeOut(a) \/ ConsumeDesktopSession(a) \/ ApplyIdentity(a)

Next ==
  \/ \E a \in Attempts : StartOAuthFlow(a) \/ Proceed(a) \/ Hang(a)
  \/ \E s \in Sessions : LinkSession(s)
  \/ Logout
  \/ Restart

(* An attempt that is under way gets to its next step: the runtime         *)
(* schedules the task, the 2 s sleep ends and a broker call that does not  *)
(* hang is answered or fails.  Nobody is obliged to link a session, to log *)
(* out or to start.                                                        *)
Fairness == \A a \in Attempts : WF_vars(Proceed(a))

Spec == Init /\ [][Next]_vars /\ Fairness

-----------------------------------------------------------------------------
(* Properties.                                                             *)

Active(a) == ~At(a, "idle")

(* The flag and the attempts agree: it is set exactly while one attempt is *)
(* under way, so two can never both act on the daemon, and no way out of   *)
(* an attempt leaves the daemon refusing every later login.                *)
ListeningHasOwner ==
  /\ \A a, b \in Attempts : Active(a) /\ Active(b) => a = b
  /\ listening <=> \E a \in Attempts : Active(a)

(* A pairing logs in the user who linked the session this very attempt had *)
(* created and opened in the browser, however late and whatever failed.    *)
LogsInWhoLinked ==
  [][(user' # user /\ user' # None) =>
       \E a \in Attempts :
         /\ Active(a)
         /\ attempt[a].session \in browser
         /\ session[attempt[a].session].status \in {"linked", "consumed"}
         /\ session[attempt[a].session].user = user']_vars

(* The attempts implement a single flight: one holder at a time, and every *)
(* attempt ends, whether by a login, an error or the time limit, unless a  *)
(* call hangs.  Only a restart ends it then: the time limit is a number of *)
(* polls, and a poll that hangs is not counted.                            *)
holder == IF \E a \in Attempts : Active(a) THEN CHOOSE a \in Attempts : Active(a) ELSE None
stuck == \E a \in Attempts : At(a, "hung")

Flight == INSTANCE SingleFlight

RefinesSingleFlight == Flight!Spec
=============================================================================
