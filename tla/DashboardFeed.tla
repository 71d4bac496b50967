------------------------------ MODULE DashboardFeed ------------------------------
(***************************************************************************)
(* The live floor of one dashboard page: events go from the broadcaster    *)
(* over a WebSocket, each makes the page fetch /today again, and so does a *)
(* timer.  Sockets break and are reopened three seconds later, tokens      *)
(* expire, admins log out and in.                                          *)
(*                                                                         *)
(* The database is a count of committed events, and a headcount the count  *)
(* it was computed from.  A token is the number of the login that got it.  *)
(***************************************************************************)
EXTENDS Integers, FiniteSets

CONSTANTS
  Events,     \* attendance events
  Sockets,    \* connections the page may hold or be rid of at one time
  Fetches,    \* requests for /today that may be under way at one time
  None,       \* null
  MaxLogins,  \* bound: logins
  MaxFaults   \* bound: broken sockets, failed requests, publications
              \*   cut off, expired tokens

ASSUME FeedConstantsOK ==
  /\ None \notin Sockets
  /\ IsFiniteSet(Events) /\ IsFiniteSet(Sockets)
  /\ MaxLogins \in Nat /\ MaxFaults \in Nat

VARIABLES
  epc, todo, dead, \* publish: where each is, its snapshot of sockets, those that failed
  active,          \* broadcaster.active
  sock, tok, wire, \* each socket: its state, the token it asks with, its messages
  ws,              \* the page's current socket
  timers,          \* pending reconnections
  token,           \* the page's token, 0 for none
  logins, expired, \* logins so far, those whose token has expired
  answer,          \* each request's answer on its way
  shown,           \* the headcount on the page
  faults

server == <<epc, todo, dead, active>>
sockets == <<sock, tok, wire, ws, timers>>
session == <<token, logins, expired>>
vars == <<server, sockets, session, answer, shown, faults>>

Nothing == -3 \* no request under way
Blank == -1   \* an answer without rows (403), and the headcount it shows
Denied == -2  \* 401
Committed == Cardinality({e \in Events : epc[e] # "new"})
Live == {s \in Sockets : sock[s] \in {"connecting", "open"}}
\* The sockets a new connection may be, and the one it is: their names mean nothing.
Spare == {s \in Sockets : /\ sock[s] = "closed" /\ s \notin active
                           /\ \A e \in Events : s \notin todo[e] \cup dead[e]}
NewSocket == CHOOSE s \in Spare : TRUE

Init ==
  /\ epc = [e \in Events |-> "new"]
  /\ todo = [e \in Events |-> {}] /\ dead = [e \in Events |-> {}]
  /\ active = {}
  /\ sock = [s \in Sockets |-> "closed"]
  /\ tok = [s \in Sockets |-> 0]
  /\ wire = [s \in Sockets |-> {}]
  /\ ws = None /\ timers = 0
  /\ token = 0 /\ logins = 0 /\ expired = {}
  /\ answer = [f \in Fetches |-> Nothing]
  /\ shown = 0
  /\ faults = 0

Fault == faults < MaxFaults /\ faults' = faults + 1

\* ---- The broadcaster ---------------------------------------------------------
Commit(e) ==
  /\ epc[e] = "new" /\ epc' = [epc EXCEPT ![e] = "committed"]
  /\ UNCHANGED <<todo, dead, active, sockets, session, answer, shown, faults>>

Publish(e) ==
  /\ epc[e] = "committed" /\ epc' = [epc EXCEPT ![e] = "sending"]
  /\ todo' = [todo EXCEPT ![e] = active]
  /\ UNCHANGED <<dead, active, sockets, session, answer, shown, faults>>

\* A slip: the exception of a dead socket is not caught, and the request never ends.
SendRaises(e, s) ==
  /\ s \in todo[e] /\ sock[s] = "open"
  /\ todo' = [todo EXCEPT ![e] = @ \ {s}]
  /\ wire' = [wire EXCEPT ![s] = @ \cup {e}]
  /\ UNCHANGED <<epc, dead, active, sock, tok, ws, timers, session, answer, shown, faults>>

\* A message to a page that is gone is lost, with or without an exception.
Send(e, s) ==
  /\ s \in todo[e]
  /\ todo' = [todo EXCEPT ![e] = @ \ {s}]
  /\ \/ sock[s] = "open" /\ wire' = [wire EXCEPT ![s] = @ \cup {e}] /\ UNCHANGED dead
     \/ sock[s] # "open" /\ dead' \in {dead, [dead EXCEPT ![e] = @ \cup {s}]} /\ UNCHANGED wire
  /\ UNCHANGED <<epc, active, sock, tok, ws, timers, session, answer, shown, faults>>

Finish(e) ==
  /\ epc[e] = "sending" /\ todo[e] = {}
  /\ epc' = [epc EXCEPT ![e] = "done"]
  /\ active' = active \ dead[e]
  /\ dead' = [dead EXCEPT ![e] = {}]
  /\ UNCHANGED <<todo, sockets, session, answer, shown, faults>>

\* The request dies between its commit and the broadcast.
CutOff(e) ==
  /\ Fault
  /\ epc[e] = "committed" /\ epc' = [epc EXCEPT ![e] = "done"]
  /\ UNCHANGED <<todo, dead, active, sockets, session, answer, shown>>

Accept(s) ==
  /\ sock[s] = "connecting" /\ tok[s] \notin expired
  /\ sock' = [sock EXCEPT ![s] = "open"]
  /\ tok' = [tok EXCEPT ![s] = 0]
  /\ active' = active \cup {s}
  /\ UNCHANGED <<epc, todo, dead, wire, ws, timers, session, answer, shown, faults>>

\* receive_text raises once the socket is gone.  (While it closes nothing can pass, so
\* that hearing of it before the page does would show in nothing else.)
Disconnect(s) ==
  /\ s \in active /\ sock[s] = "closed"
  /\ active' = active \ {s}
  /\ UNCHANGED <<epc, todo, dead, sockets, session, answer, shown, faults>>

\* ---- The page's socket ---------------------------------------------------------
\* A slip: the socket in use is not closed.
ConnectBeside(with) ==
  /\ Spare # {}
  /\ ws' = NewSocket
  /\ sock' = [sock EXCEPT ![NewSocket] = "connecting"]
  /\ tok' = [tok EXCEPT ![NewSocket] = with]

\* connectWS closes the socket in use; close() does nothing to one that is closed.
Connect(with) ==
  /\ Spare # {}
  /\ ws' = NewSocket
  /\ sock' = [s \in Sockets |-> CASE s = NewSocket -> "connecting"
                                  [] s = ws /\ s \in Live -> "closing"
                                  [] OTHER -> sock[s]]
  /\ tok' = [tok EXCEPT ![NewSocket] = with]

\* A slip: onerror reconnects as well as onclose.
CloseTwice(s) ==
  /\ sock' = [sock EXCEPT ![s] = "closed"]
  /\ wire' = [wire EXCEPT ![s] = {}] /\ tok' = [tok EXCEPT ![s] = 0]
  /\ timers' = timers + 2
  /\ UNCHANGED <<server, ws, session, answer, shown>>

\* onclose, whoever closed the socket and whether it is still the page's own.
Close(s) ==
  /\ sock' = [sock EXCEPT ![s] = "closed"]
  /\ wire' = [wire EXCEPT ![s] = {}] /\ tok' = [tok EXCEPT ![s] = 0]
  /\ timers' = timers + 1
  /\ UNCHANGED <<server, ws, session, answer, shown>>

Closed(s) == sock[s] = "closing" /\ Close(s) /\ UNCHANGED faults
Reject(s) == sock[s] = "connecting" /\ tok[s] \in expired /\ Close(s) /\ UNCHANGED faults
Break(s) == s \in Live /\ Close(s) /\ Fault

\* A slip: the page does not reconnect.
GiveUp ==
  /\ timers > 0 /\ timers' = timers - 1
  /\ UNCHANGED <<server, sock, tok, wire, ws, session, answer, shown, faults>>

Fire ==
  /\ timers > 0 /\ timers' = timers - 1
  /\ IF token = 0 THEN UNCHANGED <<sock, tok, ws>>
     ELSE Connect(token)
  /\ UNCHANGED <<server, wire, session, answer, shown, faults>>

\* ---- The headcount -------------------------------------------------------------
\* The backend counts the open sessions, or refuses the token.  It may do so as late
\* as the answer; when the page asks is when the count is oldest.
Today(with) == CASE with = 0 -> Blank
                 [] with \in expired -> Denied
                 [] OTHER -> Committed

Fetch(with) ==
  LET idle == {f \in Fetches : answer[f] = Nothing}
  IN  /\ idle # {}
      /\ answer' = [answer EXCEPT ![CHOOSE f \in idle : TRUE] = Today(with)]

Receive(s, e) ==
  /\ sock[s] = "open" /\ e \in wire[s]
  /\ wire' = [wire EXCEPT ![s] = @ \ {e}]
  /\ Fetch(token)
  /\ UNCHANGED <<server, sock, tok, ws, timers, session, shown, faults>>

\* A slip: the timer refreshes only while there is no socket.
RefreshOffline ==
  /\ logins > 0 /\ Live = {}
  /\ Fetch(token)
  /\ UNCHANGED <<server, sockets, session, shown, faults>>

\* The interval of startApp is never cleared; the live view is the one in front.
Refresh ==
  /\ logins > 0
  /\ Fetch(token)
  /\ UNCHANGED <<server, sockets, session, shown, faults>>

End(f) == answer' = [answer EXCEPT ![f] = Nothing]

\* A slip: the status of the answer is not looked at.
ShowUnchecked(f) ==
  /\ answer[f] # Nothing /\ End(f)
  /\ shown' = answer[f]
  /\ UNCHANGED <<server, sockets, session, faults>>

Show(f) ==
  /\ answer[f] \notin {Nothing, Denied} /\ End(f)
  /\ shown' = answer[f]
  /\ UNCHANGED <<server, sockets, session, faults>>

LoseFetch(f) ==
  /\ Fault
  /\ answer[f] # Nothing /\ End(f)
  /\ UNCHANGED <<server, sockets, session, shown>>

\* ---- Logging in and out ----------------------------------------------------------
\* startApp fetches and connects.
Login ==
  /\ token = 0 /\ logins < MaxLogins
  /\ logins' = logins + 1 /\ token' = logins'
  /\ Fetch(token')
  /\ Connect(token')
  /\ UNCHANGED <<server, wire, timers, expired, shown, faults>>

EndSession ==
  /\ token' = 0
  /\ ws' = None
  /\ sock' = [t \in Sockets |-> IF t = ws /\ t \in Live THEN "closing" ELSE sock[t]]
  /\ UNCHANGED <<server, tok, wire, timers, logins, expired, shown, faults>>

Logout == token # 0 /\ EndSession /\ UNCHANGED answer

\* Any 401 logs the page out, whichever token it answers.
LogoutDenied(f) ==
  /\ answer[f] = Denied /\ End(f)
  /\ EndSession

Expire ==
  /\ Fault
  /\ token # 0 /\ token \notin expired
  /\ expired' = expired \cup {token}
  /\ UNCHANGED <<server, sockets, token, logins, answer, shown>>

\* ---- Specification ------------------------------------------------------------------
Broadcast(e) == Publish(e) \/ (\E s \in Sockets : Send(e, s)) \/ Finish(e)
Handshake(s) == Accept(s) \/ Reject(s) \/ Closed(s)
Answer(f) == Show(f) \/ LogoutDenied(f)

Next ==
  \/ \E e \in Events : Commit(e) \/ Broadcast(e) \/ CutOff(e)
  \/ \E s \in Sockets : Handshake(s) \/ Disconnect(s) \/ Break(s)
  \/ \E s \in Sockets, e \in Events : Receive(s, e)
  \/ \E f \in Fetches : Answer(f) \/ LoseFetch(f)
  \/ Refresh \/ Fire \/ Login \/ Logout \/ Expire

Spec == Init /\ [][Next]_vars

\* Requests and handshakes end, sends return or raise, timers fire.  Nobody has to
\* log in or out.
FairSpec ==
  /\ Spec
  /\ \A e \in Events : WF_vars(Broadcast(e))
  /\ \A s \in Sockets : WF_vars(Handshake(s)) /\ WF_vars(Disconnect(s))
  /\ \A f \in Fetches : WF_vars(Answer(f))
  /\ WF_vars(Refresh)
  /\ WF_vars(Fire)

\* ---- Properties -----------------------------------------------------------------------
TypeOK ==
  /\ epc \in [Events -> {"new", "committed", "sending", "done"}]
  /\ todo \in [Events -> SUBSET Sockets] /\ dead \in [Events -> SUBSET Sockets]
  /\ active \subseteq Sockets
  /\ sock \in [Sockets -> {"closed", "connecting", "open", "closing"}]
  /\ tok \in [Sockets -> 0..MaxLogins]
  /\ wire \in [Sockets -> SUBSET Events]
  /\ ws \in Sockets \cup {None} /\ timers \in Nat
  /\ token \in 0..logins /\ logins \in 0..MaxLogins /\ expired \subseteq 1..logins
  /\ answer \in [Fetches -> Nothing..Cardinality(Events)]
  /\ shown \in Blank..Cardinality(Events)
  /\ faults \in Nat

\* The page has one socket, so that an event is shown once, through every order of
\* logins, closings and reconnections.
OneSocket == \A s \in Live : s = ws

\* A reconnection loop is a socket with its onclose handler, or that handler's timer.
\* There is one for each login at most: nothing but a login starts a loop.
Loops == Cardinality({s \in Sockets : sock[s] # "closed"}) + timers
LoopsPerLogin == Loops <= logins

\* A page that stays logged in shows the true headcount in the end, whatever events
\* and answers were lost, and in whatever order the answers came.
EventuallyFresh == <>[](token # 0) => <>[](shown = Committed)

\* A page that stays logged in with a single reconnection loop keeps its socket in the
\* end.  (Two loops close each other's sockets for ever.)
Settles == <>[](token # 0 /\ Loops <= 1) => <>[](\E s \in Sockets : sock[s] = "open")

\* publish ends for every committed event (unless the request dies), though pages go
\* while it sends: the kiosk that waits for it is answered.
KioskIsAnswered == \A e \in Events : (epc[e] = "committed") ~> (epc[e] = "done")
================================================================================
