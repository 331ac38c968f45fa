--------------------------- MODULE PairingProofs ---------------------------
(***************************************************************************)
(* Proofs about Pairing, for any numbers of attempts, sessions, users and  *)
(* polls, with and without failing broker calls.                           *)
(*                                                                         *)
(* ListeningHasOwner is inductive together with the types alone.  That a   *)
(* login is the one the linked session names needs what an attempt knows   *)
(* at each program counter (Ready): its session was opened in the browser, *)
(* and once it was seen linked it never stops naming the same user.        *)
(***************************************************************************)
EXTENDS Pairing, TLAPS

Done == {"linked", "consumed"}

(* What holds of an attempt with the locals r, given the rows of the       *)
(* sessions and the pages opened.                                          *)
Ready(r, row, opened) ==
  /\ r.pc = "poll" => r.polls < MaxPolls
  /\ r.pc \in {"idle", "broker", "create", "open"} => r.polls = 0
  /\ r.pc \in {"open", "poll", "consume", "apply"} => r.session \in Sessions
  /\ r.pc \in {"poll", "consume", "apply"} => r.session \in opened
  /\ r.pc \in {"consume", "apply"} =>
       /\ row[r.session].status \in Done
       /\ row[r.session].user = r.user
       /\ r.user \in Users

SessionsOK == \A s \in Sessions : session[s].status \in Done => session[s].user \in Users

Inv ==
  /\ TypeOK
  /\ SessionsOK
  /\ ListeningHasOwner
  /\ \A a \in Attempts : Ready(attempt[a], session, browser)

(* The variables other than attempt, and what a step leaves of sessions.   *)
RestOK ==
  /\ configured \in BOOLEAN
  /\ listening \in BOOLEAN
  /\ user \in Users \cup {None}
  /\ session \in [Sessions -> Session]
  /\ browser \subseteq Sessions

Kept ==
  /\ browser \subseteq browser'
  /\ \A s \in Sessions : session[s].status \in Done =>
       session'[s].status \in Done /\ session'[s].user = session[s].user

-----------------------------------------------------------------------------
(* What an attempt knows survives a step that keeps the sessions.          *)
LEMMA ReadyKept ==
  ASSUME NEW r \in Attempt, Ready(r, session, browser), Kept
  PROVE  Ready(r, session', browser')
  BY DEF Ready, Kept

(* A step of attempt a is sound when a alone is under way, the flag tells  *)
(* whether it still is, and a's new locals are as they should be.          *)
LEMMA StepInv ==
  ASSUME Inv, NEW a \in Attempts, NEW r \in Attempt,
         attempt' = [attempt EXCEPT ![a] = r],
         \A b \in Attempts : Active(b) => b = a,
         listening' <=> r.pc # "idle",
         RestOK', SessionsOK', Kept, Ready(r, session', browser')
  PROVE  Inv'
<1>1. TypeOK'
  BY DEF Inv, TypeOK, RestOK
<1>2. \A b \in Attempts : attempt'[b] = IF b = a THEN r ELSE attempt[b]
  BY DEF Inv, TypeOK
<1>3. \A b \in Attempts : (Active(b))' <=> (b = a /\ r.pc # "idle")
  BY <1>2 DEF Active, At
<1>4. ListeningHasOwner'
  BY <1>3 DEF ListeningHasOwner
<1>5. ASSUME NEW b \in Attempts PROVE Ready(attempt'[b], session', browser')
  <2>1. CASE b = a
    BY <1>2, <2>1 DEF Ready
  <2>2. CASE b # a
    <3>1. attempt[b] \in Attempt /\ Ready(attempt[b], session, browser)
      BY DEF Inv, TypeOK
    <3>2. attempt'[b] = attempt[b]
      BY <1>2, <2>2
    <3>3. ASSUME NEW q \in Attempt, Ready(q, session, browser) PROVE Ready(q, session', browser')
      BY <3>3, ReadyKept
    <3>4. QED
      BY <3>1, <3>2, <3>3 DEF Ready
  <2>3. QED
    BY <2>1, <2>2
<1>6. QED
  BY <1>1, <1>4, <1>5 DEF Inv

(* An attempt that is under way is the only one, and the flag is set.      *)
LEMMA ActiveAlone ==
  ASSUME Inv, NEW a \in Attempts, Active(a)
  PROVE  listening /\ \A b \in Attempts : Active(b) => b = a
  BY DEF Inv, ListeningHasOwner

LEMMA IdleReady ==
  ASSUME Inv
  PROVE  Idle \in Attempt /\ Ready(Idle, session', browser')
  BY MaxPollsAssumption DEF Idle, Attempt, PCs, Ready

LEMMA InitInv == Init => Inv
<1> SUFFICES ASSUME Init PROVE Inv
  OBVIOUS
<1>1. Idle \in Attempt /\ Unused \in Session
  BY MaxPollsAssumption DEF Idle, Attempt, PCs, Unused, Session
<1>2. configured \in BOOLEAN
  BY Zenon DEF Init
<1>3. TypeOK
  BY <1>1, <1>2 DEF Init, TypeOK
<1>4. SessionsOK /\ ListeningHasOwner
  BY DEF Init, SessionsOK, Unused, Done, ListeningHasOwner, Active, At, Idle
<1>5. \A a \in Attempts : Ready(attempt[a], session, browser)
  BY DEF Init, Ready, Idle
<1>6. QED
  BY <1>3, <1>4, <1>5 DEF Inv

(* One lemma per action: it is a StepInv.                                  *)
LEMMA StartOAuthFlowInv ==
  ASSUME Inv, NEW a \in Attempts, StartOAuthFlow(a)
  PROVE  Inv'
<1> USE DEF Become, At
<1>1. attempt[a] \in Attempt /\ Ready(attempt[a], session, browser)
  BY DEF Inv, TypeOK
<1>2. RestOK /\ SessionsOK
  BY DEF Inv, TypeOK, RestOK
<1>3. \A b \in Attempts : Active(b) => b = a
  BY DEF StartOAuthFlow, Inv, ListeningHasOwner
<1> DEFINE r == [attempt[a] EXCEPT !.pc = "broker"]
<1>4. r \in Attempt /\ Ready(r, session', browser') /\ r.pc # "idle"
  BY <1>1 DEF StartOAuthFlow, Attempt, PCs, Ready
<1>5. attempt' = [attempt EXCEPT ![a] = r] /\ listening' = TRUE
  BY DEF StartOAuthFlow, Goto
<1>6. RestOK' /\ SessionsOK' /\ Kept
  BY <1>2 DEF StartOAuthFlow, RestOK, SessionsOK, Kept
<1>7. QED
  BY <1>3, <1>4, <1>5, <1>6, StepInv

LEMMA ReadBrokerInv ==
  ASSUME Inv, NEW a \in Attempts, ReadBroker(a)
  PROVE  Inv'
<1> USE DEF Become, At
<1>1. attempt[a] \in Attempt /\ Ready(attempt[a], session, browser)
  BY DEF Inv, TypeOK
<1>2. RestOK /\ SessionsOK
  BY DEF Inv, TypeOK, RestOK
<1>3. listening /\ \A b \in Attempts : Active(b) => b = a
  <2>1. Active(a)
    BY DEF ReadBroker, Active
  <2>2. QED
    BY <2>1, ActiveAlone
<1>4. ASSUME ~configured PROVE Inv'
  <2>1. attempt' = [attempt EXCEPT ![a] = Idle] /\ listening' = FALSE
    BY <1>4 DEF ReadBroker, GiveUp
  <2>2. Idle \in Attempt /\ Ready(Idle, session', browser') /\ Idle.pc = "idle"
    BY IdleReady DEF Idle
  <2>3. RestOK' /\ SessionsOK' /\ Kept
    BY <1>2, <1>4 DEF ReadBroker, GiveUp, RestOK, SessionsOK, Kept
  <2>4. QED
    BY <1>3, <2>1, <2>2, <2>3, StepInv
<1>5. ASSUME configured PROVE Inv'
  <2> DEFINE r == [attempt[a] EXCEPT !.pc = "create"]
  <2>1. r \in Attempt /\ Ready(r, session', browser') /\ r.pc # "idle"
    BY <1>1 DEF ReadBroker, Attempt, PCs, Ready
  <2>2. attempt' = [attempt EXCEPT ![a] = r] /\ listening' = listening
    BY <1>5 DEF ReadBroker, Goto
  <2>3. RestOK' /\ SessionsOK' /\ Kept
    BY <1>2, <1>5 DEF ReadBroker, RestOK, SessionsOK, Kept
  <2>4. QED
    BY <1>3, <2>1, <2>2, <2>3, StepInv
<1>6. QED
  BY <1>4, <1>5

LEMMA CreateDesktopSessionInv ==
  ASSUME Inv, NEW a \in Attempts, CreateDesktopSession(a)
  PROVE  Inv'
<1> USE DEF Become, At
<1>1. attempt[a] \in Attempt /\ Ready(attempt[a], session, browser)
  BY DEF Inv, TypeOK
<1>2. RestOK /\ SessionsOK
  BY DEF Inv, TypeOK, RestOK
<1>3. listening /\ \A b \in Attempts : Active(b) => b = a
  <2>1. Active(a)
    BY DEF CreateDesktopSession, Active
  <2>2. QED
    BY <2>1, ActiveAlone
<1>4. PICK outcome \in Outcomes, s \in Sessions :
        /\ session[s] = Unused
        /\ session' = IF Applied(outcome) THEN [session EXCEPT ![s].status = "pending"] ELSE session
        /\ IF outcome = "ok"
             THEN /\ attempt' = [attempt EXCEPT ![a] = [attempt[a] EXCEPT !.pc = "open", !.session = s]]
                  /\ UNCHANGED listening
             ELSE GiveUp(a)
        /\ UNCHANGED <<configured, user, browser>>
  BY DEF CreateDesktopSession
<1>5. session' \in [Sessions -> Session] /\ SessionsOK' /\ Kept
  BY <1>2, <1>4 DEF RestOK, Session, SessionsOK, Kept, Done, Unused
<1>6. RestOK'
  <2>1. listening' \in BOOLEAN
    BY <1>3, <1>4 DEF GiveUp
  <2>2. QED
    BY <1>2, <1>4, <1>5, <2>1 DEF RestOK
<1>7. CASE outcome = "ok"
  <2> DEFINE r == [attempt[a] EXCEPT !.pc = "open", !.session = s]
  <2>1. r \in Attempt /\ Ready(r, session', browser') /\ r.pc # "idle"
    BY <1>1 DEF CreateDesktopSession, Attempt, PCs, Ready
  <2>2. QED
    BY <1>3, <1>4, <1>5, <1>6, <1>7, <2>1, StepInv
<1>8. CASE outcome # "ok"
  <2>1. Idle \in Attempt /\ Ready(Idle, session', browser') /\ Idle.pc = "idle"
    BY IdleReady DEF Idle
  <2>2. QED
    BY <1>3, <1>4, <1>5, <1>6, <1>8, <2>1, StepInv DEF GiveUp
<1>9. QED
  BY <1>7, <1>8

LEMMA OpenBrowserInv ==
  ASSUME Inv, NEW a \in Attempts, OpenBrowser(a)
  PROVE  Inv'
<1> USE DEF Become, At
<1>1. attempt[a] \in Attempt /\ Ready(attempt[a], session, browser)
  BY DEF Inv, TypeOK
<1>2. RestOK /\ SessionsOK
  BY DEF Inv, TypeOK, RestOK
<1>3. listening /\ \A b \in Attempts : Active(b) => b = a
  <2>1. Active(a)
    BY DEF OpenBrowser, Active
  <2>2. QED
    BY <2>1, ActiveAlone
<1>4. attempt[a].session \in Sessions
  BY <1>1 DEF OpenBrowser, Ready
<1>5. SessionsOK' /\ Kept /\ session' = session
  BY <1>2 DEF OpenBrowser, SessionsOK, Kept
<1>6. CASE Goto(a, "poll") /\ browser' = browser \cup {attempt[a].session} /\ UNCHANGED listening
  <2> DEFINE r == [attempt[a] EXCEPT !.pc = "poll"]
  <2>1. r \in Attempt /\ Ready(r, session', browser') /\ r.pc # "idle"
    BY <1>1, <1>4, <1>6, MaxPollsAssumption DEF OpenBrowser, Attempt, PCs, Ready
  <2>2. RestOK'
    BY <1>2, <1>4, <1>6 DEF OpenBrowser, RestOK
  <2>3. QED
    BY <1>3, <1>5, <1>6, <2>1, <2>2, StepInv DEF Goto
<1>7. CASE GiveUp(a) /\ UNCHANGED browser
  <2>1. Idle \in Attempt /\ Ready(Idle, session', browser') /\ Idle.pc = "idle"
    BY IdleReady DEF Idle
  <2>2. RestOK'
    BY <1>2, <1>7 DEF OpenBrowser, GiveUp, RestOK
  <2>3. QED
    BY <1>3, <1>5, <1>7, <2>1, <2>2, StepInv DEF GiveUp
<1>8. QED
  BY <1>6, <1>7 DEF OpenBrowser

LEMMA PollDesktopSessionInv ==
  ASSUME Inv, NEW a \in Attempts, PollDesktopSession(a)
  PROVE  Inv'
<1> USE DEF Become, At
<1>1. attempt[a] \in Attempt /\ Ready(attempt[a], session, browser)
  BY DEF Inv, TypeOK
<1>2. RestOK /\ SessionsOK
  BY DEF Inv, TypeOK, RestOK
<1>3. listening /\ \A b \in Attempts : Active(b) => b = a
  <2>1. Active(a)
    BY DEF PollDesktopSession, Active
  <2>2. QED
    BY <2>1, ActiveAlone
<1>4. /\ attempt[a].session \in Sessions /\ attempt[a].session \in browser
      /\ attempt[a].polls \in Nat /\ attempt[a].polls < MaxPolls
  BY <1>1 DEF PollDesktopSession, Ready, Attempt
<1>5. RestOK' /\ SessionsOK' /\ Kept /\ listening' = listening
  BY <1>2 DEF PollDesktopSession, RestOK, SessionsOK, Kept
<1> DEFINE row == session[attempt[a].session]
           found == [attempt[a] EXCEPT !.pc = "consume", !.user = row.user]
           missed == [attempt[a] EXCEPT !.polls = attempt[a].polls + 1,
                        !.pc = IF attempt[a].polls + 1 = MaxPolls THEN "expired" ELSE "poll"]
<1>6. CASE row.status = "linked" /\ attempt' = [attempt EXCEPT ![a] = found]
  <2>1. row.user \in Users
    BY <1>2, <1>4, <1>6 DEF SessionsOK, Done
  <2>2. found \in Attempt /\ found.pc # "idle"
    BY <1>1, <2>1 DEF Attempt, PCs
  <2>3. Ready(found, session', browser')
    BY <1>1, <1>4, <1>6, <2>1 DEF PollDesktopSession, Ready, Done, Attempt
  <2>4. QED
    BY <1>3, <1>5, <1>6, <2>2, <2>3, StepInv
<1>7. CASE attempt' = [attempt EXCEPT ![a] = missed]
  <2>1. missed \in Attempt /\ missed.pc # "idle"
    <3>1. attempt[a].polls + 1 \in 0..MaxPolls
      BY <1>4, MaxPollsAssumption
    <3>2. (IF attempt[a].polls + 1 = MaxPolls THEN "expired" ELSE "poll") \in PCs \ {"idle"}
      BY DEF PCs
    <3>3. QED
      BY <1>1, <3>1, <3>2 DEF Attempt
  <2>2. Ready(missed, session', browser')
    BY <1>1, <1>4, MaxPollsAssumption DEF PollDesktopSession, Ready, Attempt
  <2>3. QED
    BY <1>3, <1>5, <1>7, <2>1, <2>2, StepInv
<1>8. QED
  BY <1>6, <1>7 DEF PollDesktopSession, Missed

LEMMA TimeOutInv ==
  ASSUME Inv, NEW a \in Attempts, TimeOut(a)
  PROVE  Inv'
<1> USE DEF Become, At
<1>1. attempt[a] \in Attempt /\ Ready(attempt[a], session, browser)
  BY DEF Inv, TypeOK
<1>2. RestOK /\ SessionsOK
  BY DEF Inv, TypeOK, RestOK
<1>3. listening /\ \A b \in Attempts : Active(b) => b = a
  <2>1. Active(a)
    BY DEF TimeOut, Active
  <2>2. QED
    BY <2>1, ActiveAlone
<1>4. Idle \in Attempt /\ Ready(Idle, session', browser') /\ Idle.pc = "idle"
  BY IdleReady DEF Idle
<1>5. RestOK' /\ SessionsOK' /\ Kept
  BY <1>2 DEF TimeOut, GiveUp, RestOK, SessionsOK, Kept
<1>6. QED
  BY <1>3, <1>4, <1>5, StepInv DEF TimeOut, GiveUp

LEMMA ConsumeDesktopSessionInv ==
  ASSUME Inv, NEW a \in Attempts, ConsumeDesktopSession(a)
  PROVE  Inv'
<1> USE DEF Become, At
<1>1. attempt[a] \in Attempt /\ Ready(attempt[a], session, browser)
  BY DEF Inv, TypeOK
<1>2. RestOK /\ SessionsOK
  BY DEF Inv, TypeOK, RestOK
<1>3. listening /\ \A b \in Attempts : Active(b) => b = a
  <2>1. Active(a)
    BY DEF ConsumeDesktopSession, Active
  <2>2. QED
    BY <2>1, ActiveAlone
<1> DEFINE s == attempt[a].session
           r == [attempt[a] EXCEPT !.pc = "apply"]
<1>4. /\ s \in Sessions /\ s \in browser /\ session[s].status \in Done
      /\ session[s].user = attempt[a].user /\ attempt[a].user \in Users
  BY <1>1 DEF ConsumeDesktopSession, Ready
<1>5. session' = session \/ session' = [session EXCEPT ![s].status = "consumed"]
  BY DEF ConsumeDesktopSession
<1>6. /\ attempt' = [attempt EXCEPT ![a] = r]
      /\ UNCHANGED <<configured, listening, user, browser>>
  BY DEF ConsumeDesktopSession, Goto
<1>7. session' \in [Sessions -> Session] /\ SessionsOK' /\ Kept
  BY <1>2, <1>4, <1>5, <1>6 DEF RestOK, Session, SessionsOK, Kept, Done
<1>8. RestOK'
  BY <1>2, <1>6, <1>7 DEF RestOK
<1>9. r \in Attempt /\ r.pc # "idle"
  BY <1>1 DEF Attempt, PCs
<1>10. Ready(r, session', browser')
  BY <1>1, <1>4, <1>6, <1>7 DEF Ready, Kept, Attempt
<1>11. QED
  BY <1>3, <1>6, <1>7, <1>8, <1>9, <1>10, StepInv

(* A hung attempt is still under way, and knows nothing more.              *)
LEMMA HangInv ==
  ASSUME Inv, NEW a \in Attempts, Hang(a)
  PROVE  Inv'
<1> USE DEF Become, At
<1>1. attempt[a] \in Attempt /\ Ready(attempt[a], session, browser)
  BY DEF Inv, TypeOK
<1>2. RestOK /\ SessionsOK
  BY DEF Inv, TypeOK, RestOK
<1>3. listening /\ \A b \in Attempts : Active(b) => b = a
  <2>1. Active(a)
    BY DEF Hang, Active
  <2>2. QED
    BY <2>1, ActiveAlone
<1> DEFINE r == [Idle EXCEPT !.pc = "hung"]
<1>4. r \in Attempt /\ r.pc = "hung" /\ Ready(r, session', browser')
  BY MaxPollsAssumption DEF Idle, Attempt, PCs, Ready
<1>5. session' \in [Sessions -> Session] /\ SessionsOK' /\ Kept
  <2>1. CASE session' = session
    BY <1>2, <2>1 DEF Hang, RestOK, SessionsOK, Kept
  <2>2. CASE \E s \in Sessions : session[s] = Unused
                             /\ session' = [session EXCEPT ![s].status = "pending"]
    BY <1>2, <2>2 DEF Hang, RestOK, Session, SessionsOK, Kept, Done, Unused
  <2>3. CASE At(a, "consume")
             /\ session' = [session EXCEPT ![attempt[a].session].status = "consumed"]
    <3> DEFINE s == attempt[a].session
    <3>1. s \in Sessions /\ session[s].status \in Done
      BY <1>1, <2>3 DEF Ready
    <3>2. QED
      BY <1>2, <2>3, <3>1 DEF Hang, RestOK, Session, SessionsOK, Kept, Done
  <2>4. QED
    BY <2>1, <2>2, <2>3 DEF Hang
<1>6. RestOK'
  BY <1>2, <1>5 DEF Hang, RestOK
<1>7. attempt' = [attempt EXCEPT ![a] = r] /\ listening' = listening
  BY DEF Hang
<1>8. QED
  BY <1>3, <1>4, <1>5, <1>6, <1>7, StepInv

LEMMA ApplyIdentityInv ==
  ASSUME Inv, NEW a \in Attempts, ApplyIdentity(a)
  PROVE  Inv'
<1> USE DEF Become, At
<1>1. attempt[a] \in Attempt /\ Ready(attempt[a], session, browser)
  BY DEF Inv, TypeOK
<1>2. RestOK /\ SessionsOK
  BY DEF Inv, TypeOK, RestOK
<1>3. listening /\ \A b \in Attempts : Active(b) => b = a
  <2>1. Active(a)
    BY DEF ApplyIdentity, Active
  <2>2. QED
    BY <2>1, ActiveAlone
<1>4. Idle \in Attempt /\ Ready(Idle, session', browser') /\ Idle.pc = "idle"
  BY IdleReady DEF Idle
<1>5. attempt[a].user \in Users
  BY <1>1 DEF ApplyIdentity, Ready
<1>6. RestOK' /\ SessionsOK' /\ Kept
  BY <1>2, <1>5 DEF ApplyIdentity, RestOK, SessionsOK, Kept
<1>7. QED
  BY <1>3, <1>4, <1>6, StepInv DEF ApplyIdentity

(* The steps of the others change no attempt, or end them all.             *)
LEMMA LinkSessionInv ==
  ASSUME Inv, NEW s \in Sessions, LinkSession(s)
  PROVE  Inv'
<1>1. PICK u \in Users : session' = [session EXCEPT ![s] = [status |-> "linked", user |-> u]]
  BY DEF LinkSession
<1>2. UNCHANGED <<configured, listening, user, attempt, browser>> /\ session[s].status = "pending"
  BY DEF LinkSession
<1>3. session' \in [Sessions -> Session] /\ SessionsOK' /\ Kept
  BY <1>1, <1>2 DEF Inv, TypeOK, Session, SessionsOK, Kept, Done
<1>4. TypeOK' /\ ListeningHasOwner'
  BY <1>2, <1>3 DEF Inv, TypeOK, ListeningHasOwner, Active, At
<1>5. ASSUME NEW a \in Attempts PROVE Ready(attempt'[a], session', browser')
  <2>1. attempt[a] \in Attempt /\ Ready(attempt[a], session, browser)
    BY DEF Inv, TypeOK
  <2>2. ASSUME NEW q \in Attempt, Ready(q, session, browser) PROVE Ready(q, session', browser')
    BY <1>3, <2>2, ReadyKept
  <2>3. QED
    BY <1>2, <2>1, <2>2 DEF Ready
<1>6. QED
  BY <1>3, <1>4, <1>5 DEF Inv

LEMMA LogoutInv ==
  ASSUME Inv, Logout
  PROVE  Inv'
  BY DEF Logout, Inv, TypeOK, SessionsOK, ListeningHasOwner, Active, At, Ready

LEMMA RestartInv ==
  ASSUME Inv, Restart
  PROVE  Inv'
<1>1. Idle \in Attempt /\ Ready(Idle, session', browser')
  BY IdleReady
<1>2. TypeOK'
  BY <1>1 DEF Restart, Inv, TypeOK
<1>3. SessionsOK' /\ ListeningHasOwner'
  BY DEF Restart, Inv, SessionsOK, ListeningHasOwner, Active, At, Idle
<1>4. \A a \in Attempts : Ready(attempt'[a], session', browser')
  BY <1>1 DEF Restart, Ready, Idle
<1>5. QED
  BY <1>2, <1>3, <1>4 DEF Inv

LEMMA NextInv == Inv /\ [Next]_vars => Inv'
<1> SUFFICES ASSUME Inv, [Next]_vars PROVE Inv'
  OBVIOUS
<1>1. ASSUME NEW a \in Attempts, StartOAuthFlow(a) PROVE Inv'
  BY <1>1, StartOAuthFlowInv
<1>2. ASSUME NEW a \in Attempts, Proceed(a) PROVE Inv'
  BY <1>2, ReadBrokerInv, CreateDesktopSessionInv, OpenBrowserInv, PollDesktopSessionInv,
     TimeOutInv, ConsumeDesktopSessionInv, ApplyIdentityInv DEF Proceed
<1>3. ASSUME NEW s \in Sessions, LinkSession(s) PROVE Inv'
  BY <1>3, LinkSessionInv
<1>4. CASE Logout \/ Restart
  BY <1>4, LogoutInv, RestartInv
<1>5. CASE UNCHANGED vars
  BY <1>5 DEF vars, Inv, TypeOK, SessionsOK, ListeningHasOwner, Active, At, Ready
<1>6. ASSUME NEW a \in Attempts, Hang(a) PROVE Inv'
  BY <1>6, HangInv
<1>7. QED
  BY <1>1, <1>2, <1>3, <1>4, <1>5, <1>6 DEF Next

-----------------------------------------------------------------------------
(* The theorems.                                                           *)

(* Every behaviour keeps the inductive invariant.                          *)
THEOREM Invariance == Spec => []Inv
  BY InitInv, NextInv, PTL DEF Spec

(* Every variable keeps its type; in particular no task polls more than    *)
(* MAX_POLLS times.                                                        *)
THEOREM TypeCorrect == Spec => []TypeOK
<1>1. Inv => TypeOK
  BY DEF Inv
<1>2. QED
  BY <1>1, Invariance, PTL

(* oauth_listening is set exactly while a single attempt is under way,     *)
(* over the request and the task it spawns.                                *)
THEOREM OneAttempt == Spec => []ListeningHasOwner
<1>1. Inv => ListeningHasOwner
  BY DEF Inv
<1>2. QED
  BY <1>1, Invariance, PTL

(* Whoever a pairing logs in is the user who linked the session that this  *)
(* attempt created and opened.                                             *)
THEOREM PairsWithLinked == Spec => LogsInWhoLinked
<1> DEFINE Right ==
      (user' # user /\ user' # None) =>
        \E a \in Attempts :
          /\ Active(a)
          /\ attempt[a].session \in browser
          /\ session[attempt[a].session].status \in {"linked", "consumed"}
          /\ session[attempt[a].session].user = user'
<1>1. Inv /\ [Next]_vars => [Right]_vars
  <2> SUFFICES ASSUME Inv, Next, user' # user, user' # None
               PROVE  \E a \in Attempts :
                        /\ Active(a)
                        /\ attempt[a].session \in browser
                        /\ session[attempt[a].session].status \in {"linked", "consumed"}
                        /\ session[attempt[a].session].user = user'
    OBVIOUS
  <2>1. PICK a \in Attempts : ApplyIdentity(a)
    BY DEF Next, Proceed, StartOAuthFlow, ReadBroker, CreateDesktopSession, OpenBrowser,
       PollDesktopSession, TimeOut, ConsumeDesktopSession, Hang, LinkSession, Logout, Restart
  <2>2. Ready(attempt[a], session, browser) /\ At(a, "apply") /\ user' = attempt[a].user
    BY <2>1 DEF Inv, ApplyIdentity
  <2>3. QED
    BY <2>2 DEF Ready, At, Active, Done
<1>2. QED
  BY <1>1, Invariance, PTL DEF Spec, LogsInWhoLinked

-----------------------------------------------------------------------------
(* Refinement of SingleFlight (its safety part).                           *)

(* The holder is the one attempt that is under way.                        *)
LEMMA HolderIs ==
  ASSUME Inv
  PROVE  /\ \A a \in Attempts : Active(a) => holder = a
         /\ (\A a \in Attempts : ~Active(a)) => holder = None
  BY DEF holder, Inv, ListeningHasOwner

LEMMA HolderInit == Init => Flight!Init
  BY DEF Init, Flight!Init, holder, stuck, Active, At, Idle

(* An attempt that a step leaves under way, or ends.                       *)
LEMMA StuckIs ==
  ASSUME Inv, NEW a \in Attempts, NEW r, Active(a), Become(a, r)
  PROVE  /\ stuck <=> attempt[a].pc = "hung"
         /\ stuck' <=> r.pc = "hung"
<1>1. \A b \in Attempts : Active(b) => b = a
  BY ActiveAlone
<1>2. \A b \in Attempts : attempt'[b] = IF b = a THEN r ELSE attempt[b]
  BY DEF Inv, TypeOK, Become
<1>3. QED
  BY <1>1, <1>2 DEF stuck, At, Active

(* Starting begins a flight, whatever makes the attempt idle again ends    *)
(* it, a call that hangs makes it stick, a restart resets, and no other    *)
(* step changes anything.                                                  *)
LEMMA HolderStep ==
  ASSUME Inv, Inv', Next
  PROVE  [Flight!Next]_(Flight!vars)
<1> DEFINE Same == (\A b \in Attempts : (Active(b))' <=> Active(b))
           Nobody == \A b \in Attempts : ~(Active(b))'
<1>1. /\ \A a \in Attempts : Active(a) => holder = a /\ holder # None
      /\ (\A a \in Attempts : ~Active(a)) => holder = None
  BY HolderIs, NoneAssumption
<1>2. /\ \A a \in Attempts : (Active(a))' => holder' = a
      /\ (\A a \in Attempts : ~(Active(a))') => holder' = None
  BY DEF holder, Inv, ListeningHasOwner
<1>3. attempt \in [Attempts -> Attempt]
  BY DEF Inv, TypeOK
<1>4. Same => holder' = holder
  BY <1>1, <1>2
<1>5. (\A a \in Attempts : ~Active(a)) => ~stuck
  BY DEF stuck, Active, At
<1>6. Nobody => holder' = None /\ ~stuck'
  BY <1>2 DEF stuck, Active, At
<1>7. ASSUME NEW a \in Attempts, StartOAuthFlow(a) PROVE Flight!Next
  <2>1. \A b \in Attempts : ~Active(b)
    BY <1>7 DEF StartOAuthFlow, Inv, ListeningHasOwner
  <2>2. \A b \in Attempts : attempt'[b].pc = IF b = a THEN "broker" ELSE attempt[b].pc
    BY <1>3, <1>7 DEF StartOAuthFlow, Goto, Become, Attempt
  <2>3. holder = None /\ holder' = a
    BY <1>1, <1>2, <2>1, <2>2 DEF Active, At
  <2>4. stuck' <=> stuck
    BY <1>3, <2>1, <2>2 DEF stuck, Active, At
  <2>5. QED
    BY <2>3, <2>4 DEF Flight!Next, Flight!Begin, stuck
<1>8. ASSUME NEW a \in Attempts, GiveUp(a) \/ ApplyIdentity(a), Active(a),
             attempt[a].pc # "hung"
      PROVE  Flight!Next
  <2>1. \A b \in Attempts : Active(b) => b = a
    BY <1>8, ActiveAlone
  <2>2. Become(a, Idle)
    BY <1>8 DEF GiveUp, ApplyIdentity
  <2>3. Nobody
    BY <1>3, <2>1, <2>2 DEF Become, Active, At, Idle
  <2>4. ~stuck
    BY <1>8, <2>2, StuckIs
  <2>5. QED
    BY <1>1, <1>6, <1>8, <2>3, <2>4 DEF Flight!Next, Flight!End, stuck
<1>9. ASSUME NEW a \in Attempts, NEW r, r.pc \notin {"idle", "hung"}, Active(a),
             attempt[a].pc # "hung", Become(a, r)
      PROVE  UNCHANGED holder /\ ~stuck /\ ~stuck'
  <2>1. Same
    BY <1>3, <1>9 DEF Become, Active, At
  <2>2. QED
    BY <1>4, <1>9, <2>1, StuckIs
<1>10. ASSUME NEW a \in Attempts, Proceed(a) PROVE [Flight!Next]_(Flight!vars)
  <2>1. Active(a) /\ attempt[a] \in Attempt /\ attempt[a].pc # "hung"
    BY <1>3, <1>10 DEF Proceed, ReadBroker, CreateDesktopSession, OpenBrowser, PollDesktopSession,
       TimeOut, ConsumeDesktopSession, ApplyIdentity, Active, At
  <2>2. CASE GiveUp(a) \/ ApplyIdentity(a)
    BY <1>8, <2>1, <2>2
  <2>3. CASE ~(GiveUp(a) \/ ApplyIdentity(a))
    <3> DEFINE Still == UNCHANGED holder /\ ~stuck /\ ~stuck'
    <3>1. \A pc : pc \notin {"idle", "hung"} /\ Goto(a, pc) => Still
      BY <1>9, <2>1 DEF Goto, Attempt
    <3>2. ASSUME ReadBroker(a) PROVE Still
      BY <2>3, <3>1, <3>2 DEF ReadBroker
    <3>3. ASSUME CreateDesktopSession(a) PROVE Still
      BY <1>9, <2>1, <2>3, <3>3 DEF CreateDesktopSession, Attempt
    <3>4. ASSUME OpenBrowser(a) PROVE Still
      BY <2>3, <3>1, <3>4 DEF OpenBrowser
    <3>5. ASSUME PollDesktopSession(a) PROVE Still
      BY <1>9, <2>1, <3>5 DEF PollDesktopSession, Missed, Attempt
    <3>6. ASSUME TimeOut(a) \/ ConsumeDesktopSession(a) PROVE Still
      BY <2>3, <3>1, <3>6 DEF TimeOut, ConsumeDesktopSession
    <3>7. Still
      BY <1>10, <2>3, <3>2, <3>3, <3>4, <3>5, <3>6 DEF Proceed
    <3>8. QED
      BY <3>7 DEF Flight!vars, stuck
  <2>4. QED
    BY <2>2, <2>3
<1>11. ASSUME NEW a \in Attempts, Hang(a) PROVE Flight!Next
  <2> DEFINE r == [Idle EXCEPT !.pc = "hung"]
  <2>1. Active(a) /\ attempt[a].pc # "hung" /\ Become(a, r) /\ r.pc = "hung"
    BY <1>11 DEF Hang, Active, At, Idle
  <2>2. Same
    BY <1>3, <2>1 DEF Become, Active, At
  <2>3. stuck' /\ ~stuck
    BY <2>1, StuckIs
  <2>4. QED
    BY <1>1, <1>4, <2>1, <2>2, <2>3 DEF Flight!Next, Flight!Stick, stuck
<1>12. CASE UNCHANGED attempt
  BY <1>4, <1>12 DEF Active, At, stuck, Flight!vars
<1>13. CASE Restart
  <2>1. Nobody
    BY <1>13 DEF Restart, Active, At, Idle
  <2>2. CASE \E a \in Attempts : Active(a)
    BY <1>1, <1>6, <2>1, <2>2 DEF Flight!Next, Flight!Reset, stuck
  <2>3. CASE \A a \in Attempts : ~Active(a)
    BY <1>1, <1>5, <1>6, <2>1, <2>3 DEF Flight!vars, stuck
  <2>4. QED
    BY <2>2, <2>3
<1>14. QED
  BY <1>7, <1>10, <1>11, <1>12, <1>13 DEF Next, LinkSession, Logout

(* The attempts implement the single flight: one at a time, none begins    *)
(* before the last one has ended, and one whose call hangs is ended by     *)
(* nothing but a restart.                                                  *)
THEOREM RefinesSafety == Spec => Flight!Safety
<1>1. Inv /\ Inv' /\ [Next]_vars => [Flight!Next]_(Flight!vars)
  <2>1. CASE Next
    BY <2>1, HolderStep
  <2>2. ASSUME UNCHANGED vars PROVE UNCHANGED Flight!vars
    BY <2>2 DEF vars, holder, stuck, Flight!vars, Active, At
  <2>3. QED
    BY <2>1, <2>2
<1>2. QED
  BY <1>1, HolderInit, Invariance, PTL DEF Spec, Flight!Safety
=============================================================================
