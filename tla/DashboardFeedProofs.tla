---------------------------- MODULE DashboardFeedProofs ----------------------------
(***************************************************************************)
(* The dashboard page holds one live socket, and one reconnection loop per *)
(* login at most, for any number of sockets, events, logins and faults.    *)
(*                                                                         *)
(* Both are inductive once every step is seen to do one of five things to  *)
(* the sockets: nothing, accept one, close one (its handler's timer takes  *)
(* its place), replace the page's own (by a timer or a login), or start    *)
(* closing it.                                                             *)
(***************************************************************************)
EXTENDS DashboardFeed, FiniteSetTheorems, TLAPS

\* The part of TypeOK the sockets need.
SocketsOK ==
  /\ sock \in [Sockets -> {"closed", "connecting", "open", "closing"}]
  /\ timers \in Nat /\ logins \in Nat

Unclosed == {s \in Sockets : sock[s] # "closed"}

IInv == SocketsOK /\ OneSocket /\ LoopsPerLogin

\* The sockets that are not closed can be counted.
LEMMA CountIsNatural == IsFiniteSet(Unclosed) /\ Cardinality(Unclosed) \in Nat
  <1>1. IsFiniteSet(Unclosed)
    BY FeedConstantsOK, FS_Subset DEF Unclosed
  <1> QED BY <1>1, FS_CardinalityType

\* The socket a connection gets was closed.
LEMMA NewSocketIsSpare ==
  Spare # {} => NewSocket \in Sockets /\ sock[NewSocket] = "closed"
  BY DEF Spare, NewSocket

\* Steps that open no socket and close none.
LEMMA SameSockets ==
  ASSUME IInv, SocketsOK', timers' = timers, logins' = logins,
         \A s \in Sockets : sock'[s] = "closed" <=> sock[s] = "closed",
         \A s \in Sockets : sock'[s] \in {"connecting", "open"} =>
           sock[s] \in {"connecting", "open"} /\ s = ws'
  PROVE  IInv'
  <1>1. OneSocket'
    BY DEF OneSocket, Live
  <1>2. Unclosed' = Unclosed
    BY DEF Unclosed
  <1>3. LoopsPerLogin'
    BY <1>2 DEF IInv, LoopsPerLogin, Loops, Unclosed
  <1> QED BY <1>1, <1>3 DEF IInv

\* A socket closes, and its handler sets a timer.
LEMMA CloseKeeps ==
  ASSUME IInv, SocketsOK', NEW s \in Sockets, sock[s] # "closed", Close(s)
  PROVE  IInv'
  <1>1. /\ sock'[s] = "closed" /\ \A t \in Sockets : t # s => sock'[t] = sock[t]
        /\ timers' = timers + 1 /\ ws' = ws /\ logins' = logins
    BY DEF IInv, SocketsOK, Close, session
  <1>2. OneSocket'
    BY <1>1 DEF IInv, OneSocket, Live
  <1>3. Unclosed' = Unclosed \ {s} /\ s \in Unclosed
    BY <1>1 DEF Unclosed
  <1>4. Cardinality(Unclosed') = Cardinality(Unclosed) - 1
    BY <1>3, CountIsNatural, FS_RemoveElement
  <1>5. Cardinality(Unclosed) \in Nat /\ timers \in Nat /\ logins \in Nat
    BY CountIsNatural DEF IInv, SocketsOK
  <1>6. LoopsPerLogin'
    BY <1>1, <1>4, <1>5 DEF IInv, LoopsPerLogin, Loops, Unclosed
  <1> QED BY <1>2, <1>6 DEF IInv

\* The page connects: its old socket starts closing, a closed one becomes its own.
LEMMA ConnectKeeps ==
  ASSUME IInv, SocketsOK', NEW with, Connect(with),
         \/ timers' = timers - 1 /\ logins' = logins
         \/ timers' = timers /\ logins' = logins + 1
  PROVE  IInv'
  <1>1. NewSocket \in Sockets /\ sock[NewSocket] = "closed" /\ ws' = NewSocket
    BY NewSocketIsSpare DEF Connect
  <1> PICK n \in Sockets : n = NewSocket
    BY <1>1
  <1>2. /\ sock[n] = "closed" /\ ws' = n /\ sock'[n] = "connecting"
        /\ \A s \in Sockets : s # n => sock'[s] = IF s = ws /\ s \in Live THEN "closing" ELSE sock[s]
    <2>1. sock' = [s \in Sockets |-> CASE s = n -> "connecting"
                                       [] s = ws /\ s \in Live -> "closing"
                                       [] OTHER -> sock[s]]
      BY DEF Connect
    <2>2. sock'[n] = "connecting"
      <3>1. n \notin Live
        BY <1>1 DEF Live
      <3> QED BY <2>1, <3>1
    <2>3. \A s \in Sockets : s # n => sock'[s] = IF s = ws /\ s \in Live THEN "closing" ELSE sock[s]
      BY <2>1
    <2> QED BY <1>1, <2>2, <2>3
  <1>3. OneSocket'
    BY <1>2 DEF IInv, OneSocket, Live
  <1>4. Unclosed' = Unclosed \cup {n} /\ n \notin Unclosed
    BY <1>2 DEF Unclosed, Live
  <1>5. Cardinality(Unclosed') = Cardinality(Unclosed) + 1
    BY <1>4, CountIsNatural, FS_AddElement
  <1>6. /\ Cardinality(Unclosed) \in Nat /\ timers \in Nat /\ logins \in Nat
        /\ timers' \in Nat /\ logins' \in Nat
    BY CountIsNatural DEF IInv, SocketsOK
  <1>7. LoopsPerLogin'
    <2>1. Cardinality(Unclosed) + timers <= logins
      BY DEF IInv, LoopsPerLogin, Loops, Unclosed
    <2>2. (Cardinality(Unclosed) + 1) + timers' <= logins'
      BY <1>6, <2>1
    <2> QED BY <1>5, <2>2 DEF LoopsPerLogin, Loops, Unclosed
  <1> QED BY <1>3, <1>7 DEF IInv

\* The invariant holds at the start.
LEMMA InitEstablishes == Init => IInv
  <1> SUFFICES ASSUME Init  PROVE IInv
    OBVIOUS
  <1>1. SocketsOK /\ OneSocket
    BY DEF Init, SocketsOK, OneSocket, Live
  <1>2. {s \in Sockets : sock[s] # "closed"} = {}
    BY DEF Init
  <1>3. LoopsPerLogin
    BY <1>2, FS_EmptySet DEF Init, LoopsPerLogin, Loops
  <1> QED BY <1>1, <1>3 DEF IInv

\* Every action keeps it.
LEMMA StepsKeepInvariant == IInv /\ [Next]_vars => IInv'
  <1> SUFFICES ASSUME IInv, [Next]_vars  PROVE IInv'
    OBVIOUS
  <1> USE DEF session, sockets
  <1>0. SocketsOK
    BY DEF IInv
  <1>a. ASSUME UNCHANGED <<sock, ws, timers, logins>>  PROVE IInv'
    BY <1>0, <1>a, SameSockets DEF IInv, SocketsOK, OneSocket, Live
  <1>1. ASSUME NEW e \in Events, Commit(e) \/ Broadcast(e) \/ CutOff(e)  PROVE IInv'
    BY <1>1, <1>a DEF Commit, Broadcast, Publish, Send, Finish, CutOff
  <1>2. ASSUME NEW s \in Sockets, Accept(s)  PROVE IInv'
    <2>1. /\ sock[s] = "connecting" /\ sock' = [sock EXCEPT ![s] = "open"]
          /\ UNCHANGED <<ws, timers, logins>>
      BY <1>2 DEF Accept
    <2>2. SocketsOK'
      BY <1>0, <2>1 DEF SocketsOK
    <2> QED BY <1>0, <2>1, <2>2, SameSockets DEF IInv, SocketsOK, OneSocket, Live
  <1>3. ASSUME NEW s \in Sockets, Reject(s) \/ Closed(s) \/ Break(s)  PROVE IInv'
    <2>1. sock[s] # "closed" /\ Close(s)
      BY <1>3 DEF Reject, Closed, Break, Live
    <2>2. SocketsOK'
      BY <1>0, <2>1 DEF SocketsOK, Close
    <2> QED BY <2>1, <2>2, CloseKeeps
  <1>4. ASSUME NEW s \in Sockets, Disconnect(s)  PROVE IInv'
    BY <1>4, <1>a DEF Disconnect
  <1>5. ASSUME NEW s \in Sockets, NEW e \in Events, Receive(s, e)  PROVE IInv'
    BY <1>5, <1>a DEF Receive
  <1>6. ASSUME NEW f \in Fetches, Show(f) \/ LoseFetch(f)  PROVE IInv'
    BY <1>6, <1>a DEF Show, LoseFetch
  <1>7. ASSUME EndSession  PROVE IInv'
    <2>1. /\ \A s \in Sockets : sock'[s] = IF s = ws /\ s \in Live THEN "closing" ELSE sock[s]
          /\ UNCHANGED <<timers, logins>>
      BY <1>7 DEF EndSession
    <2>2. SocketsOK'
      BY <1>0, <1>7 DEF SocketsOK, EndSession
    <2>3. \A s \in Sockets : sock'[s] \notin {"connecting", "open"}
      BY <2>1 DEF IInv, OneSocket, Live
    <2> QED BY <2>1, <2>2, <2>3, SameSockets DEF Live
  <1>8. CASE Fire
    <2>1. timers > 0 /\ timers' = timers - 1 /\ logins' = logins
      BY <1>8 DEF Fire
    <2>2. CASE token = 0
      <3>1. UNCHANGED <<sock, ws>>
        BY <1>8, <2>2 DEF Fire
      <3>2. SocketsOK' /\ OneSocket'
        BY <1>0, <2>1, <3>1 DEF IInv, SocketsOK, OneSocket, Live
      <3>3. Cardinality(Unclosed) \in Nat /\ Unclosed' = Unclosed
        BY <3>1, CountIsNatural DEF Unclosed
      <3>4. LoopsPerLogin'
        BY <1>0, <2>1, <3>3 DEF IInv, SocketsOK, LoopsPerLogin, Loops, Unclosed
      <3> QED BY <3>2, <3>4 DEF IInv
    <2>3. CASE token # 0
      <3>1. Connect(token)
        BY <1>8, <2>3 DEF Fire
      <3>2. SocketsOK'
        BY <1>0, <2>1, <3>1 DEF SocketsOK, Connect
      <3> QED BY <2>1, <3>1, <3>2, ConnectKeeps
    <2> QED BY <2>2, <2>3
  <1>9. CASE Login
    <2>1. logins' = logins + 1 /\ timers' = timers /\ Connect(token')
      BY <1>9 DEF Login
    <2>2. SocketsOK'
      BY <1>0, <2>1 DEF SocketsOK, Connect
    <2> QED BY <2>1, <2>2, ConnectKeeps
  <1>10. CASE Refresh \/ Expire \/ UNCHANGED vars
    BY <1>10, <1>a DEF Refresh, Expire, vars
  <1> QED BY <1>1, <1>2, <1>3, <1>4, <1>5, <1>6, <1>7, <1>8, <1>9, <1>10
          DEF Next, Handshake, Answer, LogoutDenied, Logout

\* The page has one socket, through every order of logins, closings and reconnections.
THEOREM PageHasOneSocket == Spec => []OneSocket
  <1>1. IInv => OneSocket
    BY DEF IInv
  <1> QED BY <1>1, InitEstablishes, StepsKeepInvariant, PTL DEF Spec

\* Nothing but a login starts a reconnection loop.
THEOREM LoginsBoundLoops == Spec => []LoopsPerLogin
  <1>1. IInv => LoopsPerLogin
    BY DEF IInv
  <1> QED BY <1>1, InitEstablishes, StepsKeepInvariant, PTL DEF Spec

\* ---- The types ---------------------------------------------------------------------------
\* The headcount an answer may carry.
Headcount == Nothing..Cardinality(Events)

\* What the backend answers is in range.
LEMMA AnswersAreCounts ==
  /\ Cardinality(Events) \in Nat
  /\ \A with : Today(with) \in Headcount
  <1>1. /\ IsFiniteSet({e \in Events : epc[e] # "new"})
        /\ Cardinality({e \in Events : epc[e] # "new"}) <= Cardinality(Events)
    BY FeedConstantsOK, FS_Subset
  <1>2. Committed \in Nat /\ Committed <= Cardinality(Events) /\ Cardinality(Events) \in Nat
    BY <1>1, FeedConstantsOK, FS_CardinalityType DEF Committed
  <1>3. Blank \in Headcount /\ Denied \in Headcount /\ Committed \in Headcount
    BY <1>2 DEF Blank, Denied, Nothing, Headcount
  <1> QED BY <1>2, <1>3 DEF Today

\* A request stores its answer, or none.
LEMMA FetchTyped ==
  ASSUME NEW with, answer \in [Fetches -> Headcount],
         Fetch(with) \/ UNCHANGED answer \/ \E f \in Fetches : End(f)
  PROVE  answer' \in [Fetches -> Headcount]
  <1>1. CASE Fetch(with)
    <2> DEFINE idle == {f \in Fetches : answer[f] = Nothing}
    <2>1. idle # {} /\ answer' = [answer EXCEPT ![CHOOSE f \in idle : TRUE] = Today(with)]
      BY <1>1 DEF Fetch
    <2>2. Today(with) \in Headcount
      BY AnswersAreCounts
    <2> QED BY <2>1, <2>2
  <1>2. ASSUME NEW f \in Fetches, End(f)  PROVE answer' \in [Fetches -> Headcount]
    <2>1. Nothing \in Headcount
      BY AnswersAreCounts DEF Nothing, Headcount
    <2> QED BY <1>2, <2>1 DEF End
  <1> QED BY <1>1, <1>2

\* A connection is one of the page's sockets, with a token of a login.
LEMMA ConnectTyped ==
  ASSUME TypeOK, NEW with \in 0..MaxLogins, Connect(with)
  PROVE  /\ sock' \in [Sockets -> {"closed", "connecting", "open", "closing"}]
         /\ tok' \in [Sockets -> 0..MaxLogins] /\ ws' \in Sockets
  <1>1. NewSocket \in Sockets
    BY NewSocketIsSpare DEF Connect
  <1> QED BY <1>1 DEF TypeOK, Connect

\* Every action keeps every type.
LEMMA TypesAreKept == TypeOK /\ [Next]_vars => TypeOK'
  <1> SUFFICES ASSUME TypeOK, [Next]_vars  PROVE TypeOK'
    OBVIOUS
  <1> USE DEF server, sockets, session
  <1>0. /\ logins \in Nat /\ 0 <= logins /\ logins <= MaxLogins /\ MaxLogins \in Nat
        /\ token \in 0..MaxLogins /\ answer \in [Fetches -> Headcount]
    BY FeedConstantsOK DEF TypeOK, Headcount
  <1>1. ASSUME NEW e \in Events, Commit(e) \/ Publish(e) \/ Finish(e) \/ CutOff(e)  PROVE TypeOK'
    <2>1. CASE Commit(e)
      BY <2>1 DEF TypeOK, Commit
    <2>2. CASE Publish(e)
      BY <2>2 DEF TypeOK, Publish
    <2>3. CASE Finish(e)
      BY <2>3 DEF TypeOK, Finish
    <2>4. CASE CutOff(e)
      BY <2>4 DEF TypeOK, CutOff, Fault
    <2> QED BY <1>1, <2>1, <2>2, <2>3, <2>4
  <1>2. ASSUME NEW e \in Events, NEW s \in Sockets, Send(e, s)  PROVE TypeOK'
    <2>1. todo' \in [Events -> SUBSET Sockets]
      BY <1>2 DEF TypeOK, Send
    <2>2. wire' \in [Sockets -> SUBSET Events] /\ dead' \in [Events -> SUBSET Sockets]
      <3>1. [wire EXCEPT ![s] = @ \cup {e}] \in [Sockets -> SUBSET Events]
        BY DEF TypeOK
      <3>2. [dead EXCEPT ![e] = @ \cup {s}] \in [Events -> SUBSET Sockets]
        BY DEF TypeOK
      <3> QED BY <1>2, <3>1, <3>2 DEF TypeOK, Send
    <2>3. UNCHANGED <<epc, active, sock, tok, ws, timers, session, answer, shown, faults>>
      BY <1>2 DEF Send
    <2> QED BY <2>1, <2>2, <2>3 DEF TypeOK
  <1>3. ASSUME NEW s \in Sockets, Accept(s) \/ Disconnect(s)  PROVE TypeOK'
    <2>1. CASE Accept(s)
      <3>1. 0 \in 0..MaxLogins
        BY <1>0
      <3>2. tok' \in [Sockets -> 0..MaxLogins]
        BY <2>1, <3>1 DEF TypeOK, Accept
      <3> QED BY <2>1, <3>2 DEF TypeOK, Accept
    <2>2. CASE Disconnect(s)
      BY <2>2 DEF TypeOK, Disconnect
    <2> QED BY <1>3, <2>1, <2>2
  <1>4. ASSUME NEW s \in Sockets, Reject(s) \/ Closed(s) \/ Break(s)  PROVE TypeOK'
    <2>1. Close(s) /\ faults' \in Nat
      BY <1>4 DEF TypeOK, Reject, Closed, Break, Fault
    <2> QED BY <1>0, <2>1 DEF TypeOK, Close
  <1>5. ASSUME NEW s \in Sockets, NEW e \in Events, Receive(s, e)  PROVE TypeOK'
    <2>1. answer' \in [Fetches -> Headcount]
      BY <1>0, <1>5, FetchTyped DEF Receive
    <2>2. wire' \in [Sockets -> SUBSET Events]
      BY <1>5 DEF TypeOK, Receive
    <2> QED BY <1>5, <2>1, <2>2 DEF TypeOK, Receive, Headcount
  <1>6. ASSUME NEW f \in Fetches, Show(f) \/ LoseFetch(f)  PROVE TypeOK'
    <2>1. answer' \in [Fetches -> Headcount]
      BY <1>0, <1>6, FetchTyped DEF Show, LoseFetch
    <2>2. shown' \in Blank..Cardinality(Events)
      BY <1>6, AnswersAreCounts DEF TypeOK, Show, LoseFetch, Nothing, Blank, Denied
    <2>3. faults' \in Nat /\ UNCHANGED <<server, sockets, session>>
      BY <1>6 DEF TypeOK, Show, LoseFetch, Fault
    <2> QED BY <2>1, <2>2, <2>3 DEF TypeOK, Headcount
  <1>7. CASE Refresh
    <2>1. answer' \in [Fetches -> Headcount]
      BY <1>0, <1>7, FetchTyped DEF Refresh
    <2> QED BY <1>7, <2>1 DEF TypeOK, Refresh, Headcount
  <1>8. CASE Fire
    <2>1. timers' \in Nat
      BY <1>8 DEF TypeOK, Fire
    <2>2. /\ sock' \in [Sockets -> {"closed", "connecting", "open", "closing"}]
          /\ tok' \in [Sockets -> 0..MaxLogins] /\ ws' \in Sockets \cup {None}
      <3>1. CASE token = 0
        BY <1>8, <3>1 DEF TypeOK, Fire
      <3>2. CASE token # 0
        BY <1>0, <1>8, <3>2, ConnectTyped DEF Fire
      <3> QED BY <3>1, <3>2
    <2> QED BY <1>8, <2>1, <2>2 DEF TypeOK, Fire
  <1>9. CASE Login
    <2>1. logins' = logins + 1 /\ token' = logins + 1 /\ logins < MaxLogins
      BY <1>9 DEF Login
    <2>2. logins' \in 0..MaxLogins /\ token' \in 0..logins' /\ token' \in 0..MaxLogins
          /\ expired \subseteq 1..logins'
      BY <1>0, <2>1 DEF TypeOK
    <2>3. answer' \in [Fetches -> Headcount]
      BY <1>0, <1>9, FetchTyped DEF Login
    <2>4. /\ sock' \in [Sockets -> {"closed", "connecting", "open", "closing"}]
          /\ tok' \in [Sockets -> 0..MaxLogins] /\ ws' \in Sockets
      BY <1>9, <2>2, ConnectTyped DEF Login
    <2> QED BY <1>9, <2>2, <2>3, <2>4 DEF TypeOK, Login, Headcount
  <1>10. ASSUME EndSession, answer' \in [Fetches -> Headcount]  PROVE TypeOK'
    <2>1. token' \in 0..logins
      BY <1>0, <1>10 DEF EndSession
    <2> QED BY <1>10, <2>1 DEF TypeOK, EndSession, Headcount
  <1>11. CASE Logout \/ \E f \in Fetches : LogoutDenied(f)
    BY <1>0, <1>10, <1>11, FetchTyped DEF Logout, LogoutDenied
  <1>12. CASE Expire
    <2>1. expired' \subseteq 1..logins
      BY <1>0, <1>12 DEF TypeOK, Expire
    <2> QED BY <1>12, <2>1 DEF TypeOK, Expire, Fault
  <1>13. CASE UNCHANGED vars
    BY <1>13 DEF TypeOK, vars
  <1> QED BY <1>1, <1>2, <1>3, <1>4, <1>5, <1>6, <1>7, <1>8, <1>9, <1>11, <1>12, <1>13
          DEF Next, Broadcast, Handshake, Answer

\* Server, page and everything between them keep their types; a headcount is never more
\* than the events there are.
THEOREM TypeCorrect == Spec => []TypeOK
  <1>1. Init => TypeOK
    <2>1. Cardinality(Events) \in Nat /\ MaxLogins \in Nat
      BY AnswersAreCounts, FeedConstantsOK
    <2> QED BY <2>1 DEF Init, TypeOK, Nothing, Blank
  <1> QED BY <1>1, TypesAreKept, PTL DEF Spec
================================================================================
