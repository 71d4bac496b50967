-------------------------- MODULE AttendanceEventProofs --------------------------
(***************************************************************************)
(* Theorems about AttendanceEvent, for any number of requests, employees   *)
(* and devices and any length of time.                                     *)
(***************************************************************************)
EXTENDS AttendanceEvent, FiniteSetTheorems, TLAPS

\* The types hold at the start.
LEMMA TypeInit == Init => TypeOK
  BY ConstantsOK DEF Init, TypeOK, SessionRow, Absent, NoAudit

\* A closed row is a row.
LEMMA ClosedRowTyped ==
  ASSUME NEW row \in SessionRow, NEW by \in Requests
  PROVE  [row EXCEPT !.status = "closed", !.out = by] \in SessionRow
  BY DEF SessionRow

\* Every action keeps every type.
LEMMA TypeStep == TypeOK /\ [Next]_vars => TypeOK'
<1> SUFFICES ASSUME TypeOK, [Next]_vars PROVE TypeOK'
  OBVIOUS
<1> USE ConstantsOK DEF TypeOK, InFlight, Upstream, InTransaction, Over, Goto,
     db, locals, bounds
<1>1. ASSUME NEW r \in Requests, NEW d \in Devices, Throttle(r, d) PROVE TypeOK'
  BY <1>1 DEF Throttle
<1>2. ASSUME NEW r \in Requests, NEW d \in Devices, RefuseEmpty(r, d) PROVE TypeOK'
  BY <1>2 DEF RefuseEmpty, Admit
<1>3. ASSUME NEW r \in Requests, NEW d \in Devices, Accept(r, d) PROVE TypeOK'
  BY <1>3 DEF Accept, Admit
<1>4. ASSUME NEW r \in Requests, PassLiveness(r) PROVE TypeOK'
  BY <1>4 DEF PassLiveness
<1>5. ASSUME NEW r \in Requests, FailLiveness(r) PROVE TypeOK'
  BY <1>5 DEF FailLiveness, Refuse
<1>6. ASSUME NEW r \in Requests, FindNobody(r) PROVE TypeOK'
  BY <1>6 DEF FindNobody, Refuse
<1>7. ASSUME NEW r \in Requests, NEW e \in Employees, NEW similar \in BOOLEAN,
             Recognize(r, e, similar)
      PROVE  TypeOK'
  BY <1>7 DEF Recognize
<1>8. ASSUME NEW r \in Requests, MatchEmployee(r) PROVE TypeOK'
  BY <1>8 DEF MatchEmployee
<1>9. ASSUME NEW r \in Requests, FailMatch(r) PROVE TypeOK'
  <2>1. ASSUME NEW why \in {"low_confidence", "unrecognized"},
               NEW whom \in Employees \cup {None}, Refuse(r, "lookup", why, whom)
        PROVE  TypeOK'
    BY <2>1 DEF Refuse
  <2>2. emp[r] \in Employees \cup {None}
    OBVIOUS
  <2> QED
    BY <1>9, <2>1, <2>2 DEF FailMatch
<1>10. ASSUME NEW r \in Requests, CommitReject(r) PROVE TypeOK'
  BY <1>10 DEF CommitReject
<1>11. ASSUME NEW r \in Requests, Swallow(r) PROVE TypeOK'
  BY <1>11 DEF Swallow
<1>12. ASSUME NEW r \in Requests, TakeCooldown(r) PROVE TypeOK'
  <2>1. cooldown' \in [Devices -> [Employees -> Nat]]
    <3> DEFINE row == [cooldown[dev[r]] EXCEPT ![emp[r]] = clock + CooldownSeconds]
    <3>1. cooldown' = [cooldown EXCEPT ![dev[r]] = row]
      BY <1>12 DEF TakeCooldown
    <3>2. ASSUME dev[r] \in Devices PROVE row \in [Employees -> Nat]
      <4>1. clock + CooldownSeconds \in Nat /\ cooldown[dev[r]] \in [Employees -> Nat]
        BY <3>2
      <4> QED
        BY <4>1
    <3> QED
      BY <3>1, <3>2
  <2> QED
    BY <1>12, <2>1 DEF TakeCooldown
<1>13. ASSUME NEW r \in Requests, NEW s \in Requests, SelectDuplicate(r, s) PROVE TypeOK'
  BY <1>13 DEF SelectDuplicate
<1>14. ASSUME NEW r \in Requests, NEW s \in Requests, SelectToClose(r, s) PROVE TypeOK'
  BY <1>14 DEF SelectToClose
<1>15. ASSUME NEW r \in Requests, SelectNone(r) PROVE TypeOK'
  BY <1>15 DEF SelectNone
<1>16. ASSUME NEW r \in Requests, Flush(r) PROVE TypeOK'
  BY <1>16 DEF Flush
<1>17. ASSUME NEW r \in Requests, CommitOpen(r) PROVE TypeOK'
  BY <1>17 DEF CommitOpen, SessionRow, CommitLog
<1>18. ASSUME NEW r \in Requests, CommitDuplicate(r) PROVE TypeOK'
  BY <1>18 DEF CommitDuplicate, CommitLog
<1>19. ASSUME NEW r \in Requests, CommitClose(r) PROVE TypeOK'
  <2>1. found[r] \in Requests
    BY <1>19 DEF CommitClose
  <2>2. sessions' = [sessions EXCEPT ![found[r]] =
                       [sessions[found[r]] EXCEPT !.status = "closed", !.out = r]]
    BY <1>19 DEF CommitClose
  <2>3. sessions[found[r]] \in SessionRow
    BY <2>1
  <2>4. sessions' \in [Requests -> SessionRow]
    BY <2>1, <2>2, <2>3, ClosedRowTyped
  <2> QED
    BY <1>19, <2>4 DEF CommitClose, CommitLog
<1>20. ASSUME NEW r \in Requests, CommitAnomaly(r) PROVE TypeOK'
  BY <1>20 DEF CommitAnomaly, CommitLog, SessionRow
<1>21. ASSUME NEW r \in Requests, Publish(r) PROVE TypeOK'
  BY <1>21 DEF Publish
<1>22. ASSUME NEW r \in Requests, Abort(r) PROVE TypeOK'
  BY <1>22 DEF Abort, Fault
<1>23. CASE Crash
  BY <1>23 DEF Crash, Fault
<1>24. ASSUME NEW d \in Devices, Heartbeat(d) PROVE TypeOK'
  BY <1>24 DEF Heartbeat
<1>25. ASSUME NEW e \in Employees, SetActive(e) PROVE TypeOK'
  BY <1>25 DEF SetActive
<1>26. CASE Tick
  BY <1>26 DEF Tick
<1>27. CASE UNCHANGED vars
  BY <1>27 DEF vars
<1> HIDE DEF TypeOK, Goto, db, locals, bounds
<1> QED
  BY <1>1, <1>2, <1>3, <1>4, <1>5, <1>6, <1>7, <1>8, <1>9, <1>10, <1>11, <1>12,
     <1>13, <1>14, <1>15, <1>16, <1>17, <1>18, <1>19, <1>20, <1>21, <1>22, <1>23,
     <1>24, <1>25, <1>26, <1>27
     DEF Next, Arrive, Judge, Record

\* Every variable keeps its type.
THEOREM TypeCorrect == Spec => []TypeOK
<1>1. Init => TypeOK
  BY TypeInit
<1>2. TypeOK /\ [Next]_vars => TypeOK'
  BY TypeStep
<1> QED
  BY <1>1, <1>2, PTL DEF Spec

\* ---- Steps that matter to a transaction ------------------------------------
\* The rows, the cooldown keys, the clock and everything a request in its
\* transaction knows stay as they are; nobody enters a transaction, and what is
\* committed stays so.
Committed == {"publish", "recorded", "lost"}

Aside ==
  /\ UNCHANGED <<clock, sessions, cooldown>>
  /\ \A q \in Requests :
       pc'[q] \in InTransaction =>
         /\ pc'[q] = pc[q] /\ dev'[q] = dev[q]
         /\ emp'[q] = emp[q] /\ found'[q] = found[q]
  /\ \A q \in Requests : pc[q] \in Committed =>
       pc'[q] \in Committed /\ dev'[q] = dev[q] /\ audit'[q] = audit[q]
  /\ \A q \in Requests : pc'[q] \in Committed => pc[q] \in Committed

\* Every other step is one of these.
Transact(r) ==
  \/ TakeCooldown(r)
  \/ \E s \in Requests : SelectDuplicate(r, s) \/ SelectToClose(r, s)
  \/ SelectNone(r) \/ Flush(r)
  \/ CommitOpen(r) \/ CommitDuplicate(r) \/ CommitClose(r) \/ CommitAnomaly(r)

\* A step is one inside a transaction, a tick, or leaves the transactions alone.
LEMMA StepCases ==
  ASSUME TypeOK, [Next]_vars
  PROVE  Aside \/ Tick \/ \E r \in Requests : Transact(r)
<1> USE DEF Aside, Committed, InTransaction, InFlight, Upstream, Goto, db, locals, bounds
<1>0. pc \in [Requests -> {"new"} \cup InFlight \cup Over]
  BY DEF TypeOK
<1>1. ASSUME NEW r \in Requests, Arrive(r) PROVE Aside
  <2>1. ASSUME NEW d \in Devices, Throttle(r, d) PROVE Aside
    BY <1>0, <2>1 DEF Throttle, TypeOK
  <2>2. ASSUME NEW d \in Devices, RefuseEmpty(r, d) PROVE Aside
    BY <1>0, <2>2 DEF RefuseEmpty, Admit, TypeOK
  <2>3. ASSUME NEW d \in Devices, Accept(r, d) PROVE Aside
    BY <1>0, <2>3 DEF Accept, Admit, TypeOK
  <2> QED
    BY <1>1, <2>1, <2>2, <2>3 DEF Arrive
<1>2. ASSUME NEW r \in Requests, Judge(r) PROVE Aside
  <2>1. CASE PassLiveness(r)
    BY <1>0, <2>1 DEF PassLiveness
  <2>2. ASSUME NEW from \in {"liveness", "recognition", "lookup"}, NEW why, NEW whom,
               Refuse(r, from, why, whom)
        PROVE  Aside
    BY <1>0, <2>2 DEF Refuse, TypeOK
  <2>3. ASSUME NEW e \in Employees, NEW similar \in BOOLEAN, Recognize(r, e, similar)
        PROVE  Aside
    BY <1>0, <2>3 DEF Recognize, TypeOK
  <2>4. CASE MatchEmployee(r)
    BY <1>0, <2>4 DEF MatchEmployee
  <2>5. CASE CommitReject(r)
    BY <1>0, <2>5 DEF CommitReject
  <2> HIDE DEF Aside
  <2> QED
    BY <1>2, <2>1, <2>2, <2>3, <2>4, <2>5 DEF Judge, FailLiveness, FindNobody, FailMatch
<1>3. ASSUME NEW r \in Requests, Record(r) PROVE Aside \/ Transact(r)
  <2>1. CASE Swallow(r)
    BY <1>0, <2>1 DEF Swallow
  <2>2. CASE Publish(r)
    BY <1>0, <2>2 DEF Publish
  <2> HIDE DEF Aside
  <2> QED
    BY <1>3, <2>1, <2>2 DEF Record, Transact
<1>4. ASSUME NEW r \in Requests, Abort(r) PROVE Aside
  BY <1>0, <1>4 DEF Abort
<1>5. CASE Crash
  BY <1>0, <1>5 DEF Crash
<1>6. ASSUME NEW d \in Devices, Heartbeat(d) PROVE Aside
  BY <1>6 DEF Heartbeat
<1>7. ASSUME NEW e \in Employees, SetActive(e) PROVE Aside
  BY <1>7 DEF SetActive
<1>8. CASE UNCHANGED vars
  BY <1>8 DEF vars
<1> HIDE DEF Aside
<1> QED
  BY <1>1, <1>2, <1>3, <1>4, <1>5, <1>6, <1>7, <1>8 DEF Next

\* ---- The inductive invariant -------------------------------------------------
LEMMA KnowsItselfStep == TypeOK /\ KnowsItself /\ [Next]_vars => KnowsItself'
<1> SUFFICES ASSUME TypeOK, KnowsItself, [Next]_vars PROVE KnowsItself'
  OBVIOUS
<1> USE DEF KnowsItself, InFlight, Upstream, InTransaction, Goto, db, locals, bounds
<1>0. /\ pc \in [Requests -> {"new"} \cup InFlight \cup Over]
      /\ dev \in [Requests -> Devices \cup {None}]
      /\ emp \in [Requests -> Employees \cup {None}]
  BY DEF TypeOK
<1>1. ASSUME NEW r \in Requests, Arrive(r) PROVE KnowsItself'
  <2>1. ASSUME NEW d \in Devices, Throttle(r, d) PROVE KnowsItself'
    BY <1>0, <2>1 DEF Throttle
  <2>2. ASSUME NEW d \in Devices, RefuseEmpty(r, d) PROVE KnowsItself'
    BY <1>0, <2>2 DEF RefuseEmpty, Admit
  <2>3. ASSUME NEW d \in Devices, Accept(r, d) PROVE KnowsItself'
    BY <1>0, <2>3 DEF Accept, Admit
  <2> QED
    BY <1>1, <2>1, <2>2, <2>3 DEF Arrive
<1>2. ASSUME NEW r \in Requests, Judge(r) PROVE KnowsItself'
  <2>1. CASE PassLiveness(r)
    BY <1>0, <2>1 DEF PassLiveness
  <2>2. ASSUME NEW from \in {"liveness", "recognition", "lookup"}, NEW why, NEW whom,
               Refuse(r, from, why, whom)
        PROVE  KnowsItself'
    BY <1>0, <2>2 DEF Refuse
  <2>3. ASSUME NEW e \in Employees, NEW similar \in BOOLEAN, Recognize(r, e, similar)
        PROVE  KnowsItself'
    BY <1>0, <2>3 DEF Recognize
  <2>4. CASE MatchEmployee(r)
    BY <1>0, <2>4 DEF MatchEmployee
  <2>5. CASE CommitReject(r)
    BY <1>0, <2>5 DEF CommitReject
  <2> HIDE DEF KnowsItself
  <2> QED
    BY <1>2, <2>1, <2>2, <2>3, <2>4, <2>5 DEF Judge, FailLiveness, FindNobody, FailMatch
<1>3. ASSUME NEW r \in Requests, Record(r) PROVE KnowsItself'
  <2>1. CASE Swallow(r)
    BY <1>0, <2>1 DEF Swallow
  <2>2. CASE TakeCooldown(r)
    BY <1>0, <2>2 DEF TakeCooldown
  <2>3. ASSUME NEW s \in Requests, SelectDuplicate(r, s) PROVE KnowsItself'
    BY <1>0, <2>3 DEF SelectDuplicate
  <2>4. ASSUME NEW s \in Requests, SelectToClose(r, s) PROVE KnowsItself'
    BY <1>0, <2>4 DEF SelectToClose
  <2>5. CASE SelectNone(r)
    BY <1>0, <2>5 DEF SelectNone
  <2>6. CASE Flush(r)
    BY <1>0, <2>6 DEF Flush
  <2>7. CASE CommitLog(r)
    BY <1>0, <2>7 DEF CommitLog
  <2>8. CASE Publish(r)
    BY <1>0, <2>8 DEF Publish
  <2> HIDE DEF KnowsItself
  <2> QED
    BY <1>3, <2>1, <2>2, <2>3, <2>4, <2>5, <2>6, <2>7, <2>8
       DEF Record, CommitOpen, CommitDuplicate, CommitClose, CommitAnomaly
<1>4. ASSUME NEW r \in Requests, Abort(r) PROVE KnowsItself'
  BY <1>0, <1>4 DEF Abort
<1>5. CASE Crash
  BY <1>0, <1>5 DEF Crash
<1>6. ASSUME NEW d \in Devices, Heartbeat(d) PROVE KnowsItself'
  BY <1>6 DEF Heartbeat
<1>7. ASSUME NEW e \in Employees, SetActive(e) PROVE KnowsItself'
  BY <1>7 DEF SetActive
<1>8. CASE Tick
  BY <1>8 DEF Tick
<1>9. CASE UNCHANGED vars
  BY <1>9 DEF vars
<1> HIDE DEF KnowsItself
<1> QED
  BY <1>1, <1>2, <1>3, <1>4, <1>5, <1>6, <1>7, <1>8, <1>9 DEF Next

\* A row is inserted by the commit of the request that names it, and not before.
LEMMA RowsAppearAtCommitStep ==
  TypeOK /\ RowsAppearAtCommit /\ FoundIsTheirs /\ [Next]_vars => RowsAppearAtCommit'
<1> SUFFICES ASSUME TypeOK, RowsAppearAtCommit, FoundIsTheirs, [Next]_vars
             PROVE  RowsAppearAtCommit'
  OBVIOUS
<1> USE DEF RowsAppearAtCommit, Goto, db, locals, bounds
<1>0. /\ pc \in [Requests -> {"new"} \cup InFlight \cup Over]
      /\ sessions \in [Requests -> SessionRow]
  BY DEF TypeOK
<1>1. CASE Aside
  BY <1>1 DEF Aside, Committed
<1>2. CASE Tick
  BY <1>2 DEF Tick
<1>3. ASSUME NEW r \in Requests, Transact(r) PROVE RowsAppearAtCommit'
  <2>1. CASE TakeCooldown(r)
    BY <1>0, <2>1 DEF TakeCooldown
  <2>2. ASSUME NEW s \in Requests, SelectDuplicate(r, s) PROVE RowsAppearAtCommit'
    BY <1>0, <2>2 DEF SelectDuplicate
  <2>3. ASSUME NEW s \in Requests, SelectToClose(r, s) PROVE RowsAppearAtCommit'
    BY <1>0, <2>3 DEF SelectToClose
  <2>4. CASE SelectNone(r)
    BY <1>0, <2>4 DEF SelectNone
  <2>5. CASE Flush(r)
    BY <1>0, <2>5 DEF Flush
  <2>6. CASE CommitOpen(r)
    BY <1>0, <2>6 DEF CommitOpen, CommitLog
  <2>7. CASE CommitDuplicate(r)
    BY <1>0, <2>7 DEF CommitDuplicate, CommitLog
  <2>8. CASE CommitClose(r)
    <3>1. sessions[found[r]] # Absent
      BY <2>8 DEF CommitClose, CommitLog, FoundIsTheirs, Absent
    <3>2. \A s \in Requests \ {found[r]} : sessions'[s] = sessions[s]
      BY <1>0, <2>8 DEF CommitClose
    <3> QED
      BY <1>0, <2>8, <3>1, <3>2 DEF CommitClose, CommitLog
  <2>9. CASE CommitAnomaly(r)
    BY <1>0, <2>9 DEF CommitAnomaly, CommitLog
  <2> HIDE DEF RowsAppearAtCommit
  <2> QED
    BY <1>3, <2>1, <2>2, <2>3, <2>4, <2>5, <2>6, <2>7, <2>8, <2>9 DEF Transact
<1> HIDE DEF RowsAppearAtCommit
<1> QED
  BY <1>1, <1>2, <1>3, StepCases

\* What a request found stays a row of the person it recognized.
LEMMA FoundIsTheirsStep ==
  TypeOK /\ RowsAppearAtCommit /\ FoundIsTheirs /\ [Next]_vars => FoundIsTheirs'
<1> SUFFICES ASSUME TypeOK, RowsAppearAtCommit, FoundIsTheirs, [Next]_vars
             PROVE  FoundIsTheirs'
  OBVIOUS
<1> USE DEF FoundIsTheirs, Goto, db, locals, bounds
<1>0. /\ pc \in [Requests -> {"new"} \cup InFlight \cup Over]
      /\ sessions \in [Requests -> SessionRow]
      /\ found \in [Requests -> Requests \cup {None}]
      /\ None \notin Requests
  BY ConstantsOK DEF TypeOK
<1>1. CASE Aside
  BY <1>1 DEF Aside, InTransaction
<1>2. CASE Tick
  BY <1>2 DEF Tick
<1>3. ASSUME NEW r \in Requests, Transact(r) PROVE FoundIsTheirs'
  <2>1. CASE TakeCooldown(r)
    BY <1>0, <2>1 DEF TakeCooldown
  <2>2. ASSUME NEW s \in Requests, SelectDuplicate(r, s) PROVE FoundIsTheirs'
    BY <1>0, <2>2 DEF SelectDuplicate, NewestOpen, OpenOf, IsOpen
  <2>3. ASSUME NEW s \in Requests, SelectToClose(r, s) PROVE FoundIsTheirs'
    BY <1>0, <2>3 DEF SelectToClose, NewestOpen, OpenOf, IsOpen
  <2>4. CASE SelectNone(r)
    BY <1>0, <2>4 DEF SelectNone
  <2>5. CASE Flush(r)
    BY <1>0, <2>5 DEF Flush
  <2>6. ASSUME pc[r] = "commit", pc' = [pc EXCEPT ![r] = "publish"],
               UNCHANGED <<found, emp>>,
               \A s \in Requests \ {r} : sessions'[s] = sessions[s]
        PROVE  FoundIsTheirs'
    <3>1. sessions[r] = Absent
      BY <2>6 DEF RowsAppearAtCommit
    <3> QED
      BY <1>0, <2>6, <3>1 DEF Absent
  <2>7. CASE CommitOpen(r)
    BY <1>0, <2>6, <2>7 DEF CommitOpen, CommitLog
  <2>8. CASE CommitDuplicate(r)
    BY <1>0, <2>6, <2>8 DEF CommitDuplicate, CommitLog
  <2>9. CASE CommitClose(r)
    <3>1. \A s \in Requests : /\ sessions'[s].emp = sessions[s].emp
                              /\ sessions'[s].status \in {sessions[s].status, "closed"}
      BY <1>0, <2>9 DEF CommitClose, SessionRow
    <3> QED
      BY <1>0, <2>9, <3>1 DEF CommitClose, CommitLog
  <2>10. CASE CommitAnomaly(r)
    BY <1>0, <2>6, <2>10 DEF CommitAnomaly, CommitLog
  <2> HIDE DEF FoundIsTheirs
  <2> QED
    BY <1>3, <2>1, <2>2, <2>3, <2>4, <2>5, <2>7, <2>8, <2>9, <2>10 DEF Transact
<1> HIDE DEF FoundIsTheirs
<1> QED
  BY <1>1, <1>2, <1>3, StepCases

\* What holds however many doors there are and however slow a commit is.
BaseInvariant == TypeOK /\ KnowsItself /\ RowsAppearAtCommit /\ FoundIsTheirs

\* What holds of the pipeline without assumptions on devices or time.
LEMMA Base == Spec => []BaseInvariant
<1>1. Init => BaseInvariant
  BY TypeInit
     DEF Init, BaseInvariant, KnowsItself, RowsAppearAtCommit, FoundIsTheirs,
         InFlight, Upstream, InTransaction
<1>2. BaseInvariant /\ [Next]_vars => BaseInvariant'
  BY TypeStep, KnowsItselfStep, RowsAppearAtCommitStep, FoundIsTheirsStep
     DEF BaseInvariant
<1> QED
  BY <1>1, <1>2, PTL DEF Spec

\* ---- The cooldown key is a lock ------------------------------------------------
LEMMA LockStep ==
  ASSUME Prompt, BaseInvariant, KeyIsHeld, OneTransactionPerKey, [Next]_vars
  PROVE  (KeyIsHeld /\ OneTransactionPerKey)'
<1> DEFINE Goal == (KeyIsHeld /\ OneTransactionPerKey)'
<1> USE DEF KeyIsHeld, OneTransactionPerKey, KeyLives, Goto, db, locals, bounds
<1>0. /\ pc \in [Requests -> {"new"} \cup InFlight \cup Over]
      /\ cooldown \in [Devices -> [Employees -> Nat]]
      /\ clock \in Nat
  BY DEF BaseInvariant, TypeOK
<1>1. CASE Aside
  BY <1>1 DEF Aside
<1>2. CASE Tick
  BY <1>2 DEF Tick
<1>3. ASSUME NEW r \in Requests, Transact(r) PROVE Goal
  <2>1. CASE TakeCooldown(r)
    <3> DEFINE d == dev[r]  e == emp[r]
    <3>1. /\ d \in Devices /\ e \in Employees /\ pc[r] = "cooldown"
          /\ ~ clock < cooldown[d][e]
      BY <2>1 DEF TakeCooldown, BaseInvariant, KnowsItself, InFlight, Upstream
    <3>2. /\ cooldown'[d][e] = clock + CooldownSeconds
          /\ \A f \in Devices, g \in Employees :
               f # d \/ g # e => cooldown'[f][g] = cooldown[f][g]
      BY <1>0, <2>1, <3>1 DEF TakeCooldown
    <3>3. CooldownSeconds \in Nat \ {0}
      BY ConstantsOK
    <3>4. \A q \in Requests : pc'[q] \in InTransaction =>
            q = r \/ (pc[q] \in InTransaction /\ (dev[q] # d \/ emp[q] # e))
      BY <1>0, <2>1, <3>1 DEF TakeCooldown
    <3>5. \A q \in Requests : pc[q] \in InTransaction =>
            dev[q] \in Devices /\ emp[q] \in Employees
      BY DEF BaseInvariant, KnowsItself, InFlight
    <3>6. /\ UNCHANGED <<clock, dev, emp>>
      BY <2>1 DEF TakeCooldown
    <3>7. KeyIsHeld'
      BY <1>0, <3>1, <3>2, <3>3, <3>4, <3>5, <3>6
    <3>8. OneTransactionPerKey'
      BY <3>4, <3>6
    <3> QED
      BY <3>7, <3>8
  <2>2. ASSUME pc[r] \in InTransaction, NEW to, pc' = [pc EXCEPT ![r] = to],
               UNCHANGED <<clock, cooldown, dev, emp>>
        PROVE  Goal
    BY <1>0, <2>2
  <2>3. ASSUME NEW s \in Requests, SelectDuplicate(r, s) PROVE Goal
    BY <2>2, <2>3 DEF SelectDuplicate, InTransaction
  <2>4. ASSUME NEW s \in Requests, SelectToClose(r, s) PROVE Goal
    BY <2>2, <2>4 DEF SelectToClose, InTransaction
  <2>5. CASE SelectNone(r)
    BY <2>2, <2>5 DEF SelectNone, InTransaction
  <2>6. CASE Flush(r)
    BY <2>2, <2>6 DEF Flush, InTransaction
  <2>7. CASE CommitLog(r)
    BY <2>2, <2>7 DEF CommitLog, InTransaction
  <2> HIDE DEF Goal
  <2> QED
    BY <1>3, <2>1, <2>3, <2>4, <2>5, <2>6, <2>7
       DEF Transact, CommitOpen, CommitDuplicate, CommitClose, CommitAnomaly
<1> HIDE DEF KeyIsHeld, OneTransactionPerKey
<1> QED
  BY <1>1, <1>2, <1>3, StepCases DEF BaseInvariant

\* As long as a commit is faster than the cooldown, two submissions of one person
\* on one device are never in their transactions together.
THEOREM CooldownExcludes == ASSUME Prompt PROVE Spec => []OneTransactionPerKey
<1>1. Init => KeyIsHeld /\ OneTransactionPerKey
  BY DEF Init, KeyIsHeld, OneTransactionPerKey, InTransaction
<1>2. BaseInvariant /\ KeyIsHeld /\ OneTransactionPerKey /\ [Next]_vars
        => (KeyIsHeld /\ OneTransactionPerKey)'
  BY LockStep
<1> QED
  BY <1>1, <1>2, Base, PTL DEF Spec

\* ---- One open session per employee -----------------------------------------------
OneEntrance == \A d, f \in Entrances : d = f
OneExit == \A d, f \in Exits : d = f

Prompted == BaseInvariant /\ KeyIsHeld /\ OneTransactionPerKey

\* What a check-in read as absent stays absent until it commits.
LEMMA NothingOpenStep ==
  ASSUME Prompted, OneEntrance, NothingFoundNothingOpen, [Next]_vars
  PROVE  NothingFoundNothingOpen'
<1> USE DEF NothingFoundNothingOpen, OpenOf, IsOpen, IsCheckIn, Goto,
            db, locals, bounds
<1>0. /\ pc \in [Requests -> {"new"} \cup InFlight \cup Over]
      /\ sessions \in [Requests -> SessionRow]
      /\ found \in [Requests -> Requests \cup {None}]
      /\ None \notin Requests
  BY ConstantsOK DEF Prompted, BaseInvariant, TypeOK
<1>1. CASE Aside
  BY <1>1 DEF Aside, InTransaction
<1>2. CASE Tick
  BY <1>2 DEF Tick
<1>3. ASSUME NEW r \in Requests, Transact(r) PROVE NothingFoundNothingOpen'
  <2>1. CASE TakeCooldown(r)
    BY <1>0, <2>1 DEF TakeCooldown
  <2>2. ASSUME NEW s \in Requests, SelectDuplicate(r, s) PROVE NothingFoundNothingOpen'
    BY <1>0, <2>2 DEF SelectDuplicate
  <2>3. ASSUME NEW s \in Requests, SelectToClose(r, s) PROVE NothingFoundNothingOpen'
    BY <1>0, <2>3 DEF SelectToClose
  <2>4. CASE SelectNone(r)
    BY <1>0, <2>4 DEF SelectNone
  <2>5. CASE Flush(r)
    BY <1>0, <2>5 DEF Flush
  <2>6. CASE CommitOpen(r)
    <3>1. pc[r] = "commit" /\ dev[r] \in Entrances /\ pc' = [pc EXCEPT ![r] = "publish"]
          /\ UNCHANGED <<dev, emp, found>>
      BY <2>6 DEF CommitOpen, CommitLog
    <3>2. \A q \in Requests \ {r} :
            pc[q] \in {"flush", "commit"} /\ dev[q] \in Entrances => emp[q] # emp[r]
      BY <3>1 DEF OneEntrance, Prompted, OneTransactionPerKey, InTransaction
    <3>3. \A s \in Requests : sessions'[s] # sessions[s] => s = r
      BY <1>0, <2>6 DEF CommitOpen
    <3>4. sessions'[r].emp = emp[r]
      BY <1>0, <2>6 DEF CommitOpen
    <3> QED
      BY <1>0, <3>1, <3>2, <3>3, <3>4
  <2>7. CASE CommitDuplicate(r)
    BY <1>0, <2>7 DEF CommitDuplicate, CommitLog
  <2>8. CASE CommitClose(r)
    <3>1. \A s \in Requests : sessions'[s].status = "open" => sessions'[s] = sessions[s]
      BY <1>0, <2>8 DEF CommitClose, SessionRow
    <3> QED
      BY <1>0, <2>8, <3>1 DEF CommitClose, CommitLog
  <2>9. CASE CommitAnomaly(r)
    <3>1. \A s \in Requests : sessions'[s].status = "open" => sessions'[s] = sessions[s]
      BY <1>0, <2>9 DEF CommitAnomaly, SessionRow
    <3> QED
      BY <1>0, <2>9, <3>1 DEF CommitAnomaly, CommitLog
  <2> HIDE DEF NothingFoundNothingOpen
  <2> QED
    BY <1>3, <2>1, <2>2, <2>3, <2>4, <2>5, <2>6, <2>7, <2>8, <2>9 DEF Transact
<1> HIDE DEF NothingFoundNothingOpen
<1> QED
  BY <1>1, <1>2, <1>3, StepCases DEF Prompted, BaseInvariant

\* Only three actions write a row.
LEMMA RowWriters ==
  ASSUME TypeOK, [Next]_vars
  PROVE  \/ UNCHANGED sessions
         \/ \E r \in Requests : CommitOpen(r) \/ CommitClose(r) \/ CommitAnomaly(r)
<1>1. ASSUME NEW r \in Requests, Transact(r)
      PROVE  UNCHANGED sessions \/ CommitOpen(r) \/ CommitClose(r) \/ CommitAnomaly(r)
  BY <1>1 DEF Transact, TakeCooldown, SelectDuplicate, SelectToClose, SelectNone,
              Flush, CommitDuplicate, db
<1>2. Aside \/ Tick => UNCHANGED sessions
  BY DEF Aside, Tick, db
<1> QED
  BY <1>1, <1>2, StepCases

\* A second open row would have been found.
LEMMA OneOpenStep ==
  ASSUME Prompted, NothingFoundNothingOpen, OneOpenSession, [Next]_vars
  PROVE  OneOpenSession'
<1> USE DEF OneOpenSession, IsOpen, Goto, db, locals, bounds
<1>0. sessions \in [Requests -> SessionRow]
  BY DEF Prompted, BaseInvariant, TypeOK
<1>1. CASE UNCHANGED sessions
  BY <1>1
<1>2. ASSUME NEW r \in Requests, CommitOpen(r) PROVE OneOpenSession'
  <2>1. OpenOf(emp[r]) = {}
    BY <1>2 DEF CommitOpen, CommitLog, NothingFoundNothingOpen
  <2>2. \A s \in Requests : sessions'[s] # sessions[s] => s = r
    BY <1>0, <1>2 DEF CommitOpen
  <2>3. sessions'[r].emp = emp[r]
    BY <1>0, <1>2 DEF CommitOpen
  <2> QED
    BY <2>1, <2>2, <2>3 DEF OpenOf
<1>3. ASSUME NEW r \in Requests, CommitClose(r) \/ CommitAnomaly(r) PROVE OneOpenSession'
  <2>1. \A s \in Requests : sessions'[s].status = "open" => sessions'[s] = sessions[s]
    BY <1>0, <1>3 DEF CommitClose, CommitAnomaly, SessionRow
  <2> QED
    BY <2>1
<1> QED
  BY <1>1, <1>2, <1>3, RowWriters DEF Prompted, BaseInvariant

\* With a single entrance device, and commits faster than the cooldown, an employee
\* never has two open sessions, whatever the exits do.
THEOREM NoDoubleSession ==
  ASSUME Prompt, OneEntrance PROVE Spec => []OneOpenSession
<1>1. Init => KeyIsHeld /\ OneTransactionPerKey /\ NothingFoundNothingOpen /\ OneOpenSession
  BY DEF Init, KeyIsHeld, OneTransactionPerKey, InTransaction, NothingFoundNothingOpen,
         OneOpenSession, IsOpen, Absent
<1>2. BaseInvariant /\ KeyIsHeld /\ OneTransactionPerKey /\ NothingFoundNothingOpen
      /\ OneOpenSession /\ [Next]_vars
        => (KeyIsHeld /\ OneTransactionPerKey /\ NothingFoundNothingOpen /\ OneOpenSession)'
  BY LockStep, NothingOpenStep, OneOpenStep DEF Prompted
<1> QED
  BY <1>1, <1>2, Base, PTL DEF Spec

\* ---- Finished rows ---------------------------------------------------------------
LEMMA FoundIsOpenStep ==
  ASSUME Prompted, OneExit, FoundIsOpen, [Next]_vars
  PROVE  FoundIsOpen'
<1> USE DEF FoundIsOpen, IsOpen, IsCheckIn, Goto, db, locals, bounds
<1>0. /\ pc \in [Requests -> {"new"} \cup InFlight \cup Over]
      /\ sessions \in [Requests -> SessionRow]
      /\ found \in [Requests -> Requests \cup {None}]
      /\ None \notin Requests
  BY ConstantsOK DEF Prompted, BaseInvariant, TypeOK
<1>1. CASE Aside
  BY <1>1 DEF Aside, InTransaction
<1>2. CASE Tick
  BY <1>2 DEF Tick
<1>3. ASSUME NEW r \in Requests, Transact(r) PROVE FoundIsOpen'
  <2>1. CASE TakeCooldown(r)
    BY <1>0, <2>1 DEF TakeCooldown
  <2>2. ASSUME NEW s \in Requests, SelectDuplicate(r, s) PROVE FoundIsOpen'
    BY <1>0, <2>2 DEF SelectDuplicate
  <2>3. ASSUME NEW s \in Requests, SelectToClose(r, s) PROVE FoundIsOpen'
    BY <1>0, <2>3 DEF SelectToClose, NewestOpen, OpenOf
  <2>4. CASE SelectNone(r)
    BY <1>0, <2>4 DEF SelectNone
  <2>5. CASE Flush(r)
    BY <1>0, <2>5 DEF Flush
  <2>6. ASSUME pc[r] = "commit", pc' = [pc EXCEPT ![r] = "publish"],
               UNCHANGED <<dev, found>>,
               \A s \in Requests \ {r} : sessions'[s] = sessions[s]
        PROVE  FoundIsOpen'
    <3>1. sessions[r] = Absent
      BY <2>6 DEF Prompted, BaseInvariant, RowsAppearAtCommit
    <3> QED
      BY <1>0, <2>6, <3>1 DEF Absent
  <2>7. CASE CommitOpen(r)
    BY <1>0, <2>6, <2>7 DEF CommitOpen, CommitLog
  <2>8. CASE CommitDuplicate(r)
    BY <1>0, <2>6, <2>8 DEF CommitDuplicate, CommitLog
  <2>9. CASE CommitClose(r)
    <3>1. /\ pc[r] = "commit" /\ dev[r] \notin Entrances /\ found[r] # None
          /\ pc' = [pc EXCEPT ![r] = "publish"] /\ UNCHANGED <<dev, emp, found>>
      BY <2>9 DEF CommitClose, CommitLog
    <3>2. \A q \in Requests \ {r} :
            pc[q] \in {"flush", "commit"} /\ dev[q] \notin Entrances => emp[q] # emp[r]
      BY <3>1 DEF OneExit, Prompted, OneTransactionPerKey, InTransaction, BaseInvariant,
                  KnowsItself, InFlight, Devices
    <3>3. \A q \in Requests \ {r} :
            /\ pc[q] \in {"flush", "commit"} /\ dev[q] \notin Entrances /\ found[q] # None
            => found[q] # found[r]
      BY <3>1, <3>2 DEF Prompted, BaseInvariant, FoundIsTheirs
    <3>4. \A s \in Requests \ {found[r]} : sessions'[s] = sessions[s]
      BY <1>0, <2>9 DEF CommitClose
    <3> QED
      BY <1>0, <3>1, <3>3, <3>4
  <2>10. CASE CommitAnomaly(r)
    BY <1>0, <2>6, <2>10 DEF CommitAnomaly, CommitLog
  <2> HIDE DEF FoundIsOpen
  <2> QED
    BY <1>3, <2>1, <2>2, <2>3, <2>4, <2>5, <2>7, <2>8, <2>9, <2>10 DEF Transact
<1> HIDE DEF FoundIsOpen
<1> QED
  BY <1>1, <1>2, <1>3, StepCases DEF Prompted, BaseInvariant

\* A row that is closed or flagged is not the one a check-out found open.
LEMMA FinishedStep ==
  ASSUME BaseInvariant, FoundIsOpen, [Next]_vars, NEW s \in Requests,
         sessions[s].status \in {"closed", "anomaly"}
  PROVE  sessions'[s] = sessions[s]
<1>0. sessions \in [Requests -> SessionRow]
  BY DEF BaseInvariant, TypeOK
<1>1. ASSUME NEW r \in Requests, CommitOpen(r) \/ CommitAnomaly(r)
      PROVE  sessions'[s] = sessions[s]
  <2>1. sessions[r] = Absent
    BY <1>1 DEF CommitOpen, CommitAnomaly, CommitLog, Goto, BaseInvariant, RowsAppearAtCommit
  <2> QED
    BY <1>0, <1>1, <2>1 DEF CommitOpen, CommitAnomaly, Absent
<1>2. ASSUME NEW r \in Requests, CommitClose(r) PROVE sessions'[s] = sessions[s]
  <2>1. sessions[found[r]].status = "open"
    BY <1>2 DEF CommitClose, CommitLog, Goto, FoundIsOpen, IsOpen
  <2> QED
    BY <1>0, <1>2, <2>1 DEF CommitClose
<1> QED
  BY <1>1, <1>2, RowWriters DEF BaseInvariant

\* With a single exit device, and commits faster than the cooldown, no check-out
\* overwrites a row that is closed or flagged.
THEOREM FinishedRowsAreFinal ==
  ASSUME Prompt, OneExit PROVE Spec => FinishedRowsStay
<1>1. Init => KeyIsHeld /\ OneTransactionPerKey /\ FoundIsOpen
  BY DEF Init, KeyIsHeld, OneTransactionPerKey, InTransaction, FoundIsOpen
<1>2. BaseInvariant /\ KeyIsHeld /\ OneTransactionPerKey /\ FoundIsOpen /\ [Next]_vars
        => (KeyIsHeld /\ OneTransactionPerKey /\ FoundIsOpen)'
  BY LockStep, FoundIsOpenStep DEF Prompted
<1>3. BaseInvariant /\ FoundIsOpen /\ [Next]_vars
        => [\A s \in Requests : sessions[s].status \in {"closed", "anomaly"}
                                  => sessions'[s] = sessions[s]]_vars
  BY FinishedStep
<1> QED
  BY <1>1, <1>2, <1>3, Base, PTL DEF Spec, FinishedRowsStay

\* ---- The log stands behind every row ----------------------------------------------
SourcesCommitted ==
  \A s \in Requests : \A r \in {sessions[s].in, sessions[s].out} \ {None} :
    r \in Requests /\ pc[r] \in Committed

\* Every action leaves each column of a row with the log entry it comes from.
LEMMA RowsLoggedStep ==
  ASSUME BaseInvariant, SourcesCommitted, RowsAreLogged, [Next]_vars
  PROVE  (SourcesCommitted /\ RowsAreLogged)'
<1> DEFINE Goal == (SourcesCommitted /\ RowsAreLogged)'
<1> USE DEF SourcesCommitted, RowsAreLogged, Committed, Goto, db, locals, bounds
<1>0. /\ pc \in [Requests -> {"new"} \cup InFlight \cup Over]
      /\ sessions \in [Requests -> SessionRow]
      /\ audit \in [Requests ->
           [reason : {"absent", "matched", "liveness", "low_confidence", "unrecognized"},
            emp : Employees \cup {None}]]
      /\ None \notin Requests /\ Entrances \cap Exits = {}
  BY ConstantsOK DEF BaseInvariant, TypeOK
<1>1. CASE Aside
  BY <1>1 DEF Aside
<1>2. CASE Tick
  BY <1>2 DEF Tick
<1>3. ASSUME NEW r \in Requests, Transact(r) PROVE Goal
  <2>1. ASSUME pc[r] \in InTransaction \cup {"cooldown"}, NEW to, pc' = [pc EXCEPT ![r] = to],
               UNCHANGED <<sessions, audit, dev>>
        PROVE  Goal
    BY <1>0, <2>1 DEF InTransaction
  <2>2. CASE TakeCooldown(r)
    BY <2>1, <2>2 DEF TakeCooldown
  <2>3. ASSUME NEW s \in Requests, SelectDuplicate(r, s) PROVE Goal
    BY <2>1, <2>3 DEF SelectDuplicate, InTransaction
  <2>4. ASSUME NEW s \in Requests, SelectToClose(r, s) PROVE Goal
    BY <2>1, <2>4 DEF SelectToClose, InTransaction
  <2>5. CASE SelectNone(r)
    BY <2>1, <2>5 DEF SelectNone, InTransaction
  <2>6. CASE Flush(r)
    BY <2>1, <2>6 DEF Flush, InTransaction
  <2>7. ASSUME CommitLog(r)
        PROVE  /\ pc[r] = "commit" /\ pc'[r] = "publish"
               /\ audit'[r] = [reason |-> "matched", emp |-> emp[r]]
               /\ dev[r] \in Devices /\ dev' = dev
               /\ \A q \in Requests \ {r} : pc'[q] = pc[q] /\ audit'[q] = audit[q]
    BY <1>0, <2>7 DEF CommitLog, BaseInvariant, KnowsItself, InFlight, InTransaction
  <2> DEFINE Logged(q, e) == /\ q \in Requests /\ pc'[q] \in Committed
                             /\ audit'[q] = [reason |-> "matched", emp |-> e]
  <2>8. ASSUME CommitLog(r), NEW s \in Requests, sessions'[s] = sessions[s],
               NEW q \in {sessions'[s].in, sessions'[s].out} \ {None}
        PROVE  /\ Logged(q, sessions'[s].emp)
               /\ IF q = sessions'[s].in THEN dev'[q] \in Entrances ELSE dev'[q] \in Exits
    <3>1. q \in Requests /\ pc[q] \in Committed /\ q # r
      BY <2>7, <2>8
    <3>2. audit[q] = [reason |-> "matched", emp |-> sessions[s].emp]
      BY <2>8
    <3> QED
      BY <2>7, <2>8, <3>1, <3>2
  <2>9. ASSUME CommitLog(r), NEW t \in Requests,
               \A s \in Requests \ {t} : sessions'[s] = sessions[s],
               \A q \in {sessions'[t].in, sessions'[t].out} \ {None} :
                 /\ Logged(q, sessions'[t].emp)
                 /\ IF q = sessions'[t].in THEN dev'[q] \in Entrances ELSE dev'[q] \in Exits
        PROVE  Goal
    <3>1. \A s \in Requests : \A q \in {sessions'[s].in, sessions'[s].out} \ {None} :
            /\ Logged(q, sessions'[s].emp)
            /\ IF q = sessions'[s].in THEN dev'[q] \in Entrances ELSE dev'[q] \in Exits
      <4> TAKE s \in Requests
      <4>1. CASE s = t
        BY <2>9, <4>1
      <4>2. CASE s # t
        <5>1. sessions'[s] = sessions[s]
          BY <2>9, <4>2
        <5> HIDE DEF Logged
        <5> QED
          BY <2>8, <2>9, <5>1
      <4> QED
        BY <4>1, <4>2
    <3> QED
      BY <3>1
  <2>10. CASE CommitOpen(r)
    <3>1. /\ sessions'[r] = [status |-> "open", emp |-> emp[r], in |-> r, out |-> None]
          /\ \A s \in Requests \ {r} : sessions'[s] = sessions[s]
      BY <1>0, <2>10 DEF CommitOpen
    <3>2. CommitLog(r) /\ dev[r] \in Entrances
      BY <2>10 DEF CommitOpen, IsCheckIn
    <3>3. Logged(r, emp[r]) /\ dev'[r] \in Entrances
      BY <2>7, <3>2
    <3> HIDE DEF Logged, Goal
    <3> QED
      BY <2>9, <3>1, <3>2, <3>3
  <2>11. CASE CommitDuplicate(r)
    <3>1. CommitLog(r) /\ UNCHANGED sessions
      BY <2>11 DEF CommitDuplicate
    <3>2. \A q \in {sessions'[r].in, sessions'[r].out} \ {None} :
            /\ Logged(q, sessions'[r].emp)
            /\ IF q = sessions'[r].in THEN dev'[q] \in Entrances ELSE dev'[q] \in Exits
      BY <2>8, <3>1
    <3> HIDE DEF Logged, Goal
    <3> QED
      BY <2>9, <3>1, <3>2
  <2>12. CASE CommitClose(r)
    <3> DEFINE t == found[r]
    <3>1. CommitLog(r) /\ t \in Requests /\ dev[r] \notin Entrances
      BY <2>12 DEF CommitClose, IsCheckIn, BaseInvariant, TypeOK
    <3>2. sessions[t].emp = emp[r]
      BY <2>7, <3>1, <2>12 DEF CommitClose, BaseInvariant, FoundIsTheirs
    <3>3. /\ sessions'[t].emp = emp[r]
          /\ sessions'[t].in = sessions[t].in
          /\ sessions'[t].out = r
          /\ \A s \in Requests \ {t} : sessions'[s] = sessions[s]
      BY <1>0, <2>12, <3>1, <3>2 DEF CommitClose, SessionRow
    <3>4. Logged(r, emp[r]) /\ dev'[r] \in Exits
      BY <2>7, <3>1 DEF Devices
    <3> HIDE DEF t
    <3>5. ASSUME sessions[t].in # None
          PROVE  /\ sessions[t].in # r
                 /\ Logged(sessions[t].in, emp[r]) /\ dev'[sessions[t].in] \in Entrances
      <4>1. sessions[t].in \in Requests /\ pc[sessions[t].in] \in Committed
        BY <3>1, <3>5
      <4>2. /\ audit[sessions[t].in] = [reason |-> "matched", emp |-> emp[r]]
            /\ dev[sessions[t].in] \in Entrances
        BY <3>1, <3>2, <3>5
      <4> QED
        BY <2>7, <3>1, <4>1, <4>2
    <3> HIDE DEF Logged, Goal
    <3> QED
      BY <2>9, <3>1, <3>3, <3>4, <3>5
  <2>13. CASE CommitAnomaly(r)
    <3>1. /\ sessions'[r] = [status |-> "anomaly", emp |-> emp[r], in |-> None, out |-> r]
          /\ \A s \in Requests \ {r} : sessions'[s] = sessions[s]
      BY <1>0, <2>13 DEF CommitAnomaly
    <3>2. CommitLog(r) /\ dev[r] \in Exits
      BY <2>7, <2>13 DEF CommitAnomaly, IsCheckIn, Devices
    <3>3. Logged(r, emp[r]) /\ dev'[r] \in Exits
      BY <2>7, <3>2
    <3>4. r # None
      BY <1>0
    <3> HIDE DEF Logged, Goal
    <3> QED
      BY <2>9, <3>1, <3>2, <3>3, <3>4
  <2> HIDE DEF Goal
  <2> QED
    BY <1>3, <2>2, <2>3, <2>4, <2>5, <2>6, <2>10, <2>11, <2>12, <2>13 DEF Transact
<1> HIDE DEF SourcesCommitted, RowsAreLogged
<1> QED
  BY <1>1, <1>2, <1>3, StepCases DEF BaseInvariant

\* Whatever the doors, the delays and the faults, each column of a row was copied
\* from a submission that is in the log as a match of that employee.
THEOREM EveryRowIsLogged == Spec => []RowsAreLogged
<1>1. Init => SourcesCommitted /\ RowsAreLogged
  BY DEF Init, SourcesCommitted, RowsAreLogged, Absent
<1>2. BaseInvariant /\ SourcesCommitted /\ RowsAreLogged /\ [Next]_vars
        => (SourcesCommitted /\ RowsAreLogged)'
  BY RowsLoggedStep
<1> QED
  BY <1>1, <1>2, Base, PTL DEF Spec

\* ---- Frames and feed -----------------------------------------------------------------
\* A frame is saved before the commit that may log it, and an event goes out after the
\* commit that logged it as a match.
LogOK ==
  /\ \A r \in Requests : audit[r].reason # "absent" => pc[r] \in Committed \cup {"rejected"}
  /\ \A r \in Requests : pc[r] \in {"reject", "commit"} => r \in captures
  /\ \A r \in Requests : audit[r].reason = "matched" => pc[r] \in Committed
  /\ \A r \in Requests : pc[r] = "reject" => reason[r] # "matched"
  /\ \A r \in Requests : pc[r] = "publish" => audit[r].reason = "matched"
  /\ \A r \in feed : pc[r] = "recorded"
  /\ FramesMatchLog /\ FeedIsCommitted

\* Frames, log, feed and answers come in this order.
LEMMA LogStep == TypeOK /\ LogOK /\ [Next]_vars => LogOK'
<1> SUFFICES ASSUME TypeOK, LogOK, [Next]_vars PROVE LogOK'
  OBVIOUS
<1> USE DEF LogOK, FramesMatchLog, FeedIsCommitted, Committed, InFlight, Upstream, InTransaction,
            Goto, db, locals, bounds
<1>0. /\ pc \in [Requests -> {"new"} \cup InFlight \cup Over]
      /\ feed \subseteq Requests /\ captures \subseteq Requests
      /\ reason \in [Requests -> {"matched", "liveness", "low_confidence", "unrecognized"}]
      /\ audit \in [Requests ->
           [reason : {"absent", "matched", "liveness", "low_confidence", "unrecognized"},
            emp : Employees \cup {None}]]
  BY DEF TypeOK
<1>a. ASSUME NEW r \in Requests, NEW to \in {"limited", "empty", "liveness", "recognition", "lookup", "cooldown",
                                             "reject", "swallowed", "select", "flush", "commit", "error"},
             pc[r] \notin {"publish", "rejected", "recorded", "lost", "error"},
             pc[r] \in {"reject", "commit"} => to = "error",
             pc' = [pc EXCEPT ![r] = to],
             to \in {"reject", "commit"} => r \in captures',
             to = "reject" => reason'[r] # "matched",
             \A q \in Requests : q # r => reason'[q] = reason[q],
             captures' = captures \/ (captures' = captures \cup {r} /\ to \in {"reject", "commit"}),
             UNCHANGED <<audit, feed>>
      PROVE  LogOK'
  BY <1>0, <1>a
<1>1. ASSUME NEW r \in Requests, Arrive(r) PROVE LogOK'
  <2> HIDE DEF LogOK
  <2>1. ASSUME NEW d \in Devices, Throttle(r, d) PROVE LogOK'
    BY <1>a, <2>1 DEF Throttle
  <2>2. ASSUME NEW d \in Devices, RefuseEmpty(r, d) PROVE LogOK'
    BY <1>a, <2>2 DEF RefuseEmpty, Admit
  <2>3. ASSUME NEW d \in Devices, Accept(r, d) PROVE LogOK'
    BY <1>a, <2>3 DEF Accept, Admit
  <2> QED
    BY <1>1, <2>1, <2>2, <2>3 DEF Arrive
<1>2. ASSUME NEW r \in Requests, Judge(r) PROVE LogOK'
  <2>5. CASE CommitReject(r)
    <3>1. /\ pc[r] = "reject" /\ pc' = [pc EXCEPT ![r] = "rejected"]
          /\ audit'[r].reason = reason[r] /\ \A q \in Requests : q # r => audit'[q] = audit[q]
          /\ UNCHANGED <<captures, feed, reason>>
      BY <1>0, <2>5 DEF CommitReject
    <3> QED
      BY <1>0, <3>1
  <2> HIDE DEF LogOK
  <2>1. CASE PassLiveness(r)
    BY <1>a, <2>1 DEF PassLiveness
  <2>2. ASSUME NEW from \in {"liveness", "recognition", "lookup"}, NEW why, why # "matched", NEW whom,
               Refuse(r, from, why, whom)
        PROVE  LogOK'
    BY <1>0, <1>a, <2>2 DEF Refuse
  <2>3. ASSUME NEW e \in Employees, NEW similar \in BOOLEAN, Recognize(r, e, similar)
        PROVE  LogOK'
    BY <1>0, <1>a, <2>3 DEF Recognize
  <2>4. CASE MatchEmployee(r)
    BY <1>a, <2>4 DEF MatchEmployee
  <2> QED
    BY <1>2, <2>1, <2>2, <2>3, <2>4, <2>5 DEF Judge, FailLiveness, FindNobody, FailMatch
<1>3. ASSUME NEW r \in Requests, Record(r) PROVE LogOK'
  <2>7. CASE CommitLog(r)
    <3>1. /\ pc[r] = "commit" /\ pc' = [pc EXCEPT ![r] = "publish"]
          /\ audit'[r].reason = "matched"
          /\ \A q \in Requests : q # r => audit'[q] = audit[q]
          /\ UNCHANGED <<captures, feed, reason>>
      BY <1>0, <2>7 DEF CommitLog
    <3> QED
      BY <1>0, <3>1
  <2>8. CASE Publish(r)
    BY <1>0, <2>8 DEF Publish
  <2> HIDE DEF LogOK
  <2>1. CASE Swallow(r)
    BY <1>a, <2>1 DEF Swallow
  <2>2. CASE TakeCooldown(r)
    BY <1>a, <2>2 DEF TakeCooldown
  <2>3. ASSUME NEW s \in Requests, SelectDuplicate(r, s) \/ SelectToClose(r, s) PROVE LogOK'
    BY <1>a, <2>3 DEF SelectDuplicate, SelectToClose
  <2>5. CASE SelectNone(r)
    BY <1>a, <2>5 DEF SelectNone
  <2>6. CASE Flush(r)
    BY <1>a, <2>6 DEF Flush
  <2> QED
    BY <1>3, <2>1, <2>2, <2>3, <2>5, <2>6, <2>7, <2>8
       DEF Record, CommitOpen, CommitDuplicate, CommitClose, CommitAnomaly
<1>4. ASSUME NEW r \in Requests, Abort(r) PROVE LogOK'
  <2>1. pc[r] \in InFlight \ {"publish"} /\ pc' = [pc EXCEPT ![r] = "error"]
        /\ UNCHANGED <<captures, audit, feed, reason>>
    BY <1>4 DEF Abort
  <2> HIDE DEF LogOK
  <2> QED
    BY <1>a, <2>1
<1>5. CASE Crash
  BY <1>0, <1>5 DEF Crash
<1>6. CASE Tick \/ (\E d \in Devices : Heartbeat(d)) \/ (\E e \in Employees : SetActive(e)) \/ UNCHANGED vars
  <2>1. UNCHANGED <<pc, captures, audit, feed, reason>>
    BY <1>6 DEF Tick, Heartbeat, SetActive, vars
  <2> QED
    BY <2>1
<1> HIDE DEF LogOK
<1> QED
  BY <1>1, <1>2, <1>3, <1>4, <1>5, <1>6 DEF Next

\* Log and feed are in order in every behaviour.
LEMMA LogInductive == Spec => []LogOK
<1>1. Init => LogOK
  BY DEF Init, LogOK, FramesMatchLog, FeedIsCommitted, NoAudit
<1>2. TypeOK /\ LogOK /\ [Next]_vars => LogOK'
  BY LogStep
<1> QED
  BY <1>1, <1>2, TypeCorrect, PTL DEF Spec

\* Every row of the log names a frame that was saved, with any faults.
THEOREM LoggedFramesAreSaved == Spec => []FramesMatchLog
  BY LogInductive, PTL DEF LogOK

\* Dashboards hear only of what is committed, and a device is answered "recorded" only
\* after both, with any faults.
THEOREM FeedFollowsCommit == Spec => []FeedIsCommitted
  BY LogInductive, PTL DEF LogOK

\* ---- What a cooldown key stands for ------------------------------------------------
\* A request that is on a row, in its transaction, failed or swallowed keeps its device
\* and employee; it leaves its transaction logged or failed; a log entry of a match
\* stays; keys are written by requests that enter their transaction; and nobody fails
\* without a fault, or is swallowed but by a live key.
Followed(q) ==
  /\ pc[q] \in Committed \cup InTransaction \cup {"error", "swallowed"}
       => dev'[q] = dev[q] /\ emp'[q] = emp[q]
  /\ pc[q] \in InTransaction \cup {"error"}
       => pc'[q] \in InTransaction \cup {"error"} \/ audit'[q].reason = "matched"
  /\ audit[q].reason = "matched" => audit'[q].reason = "matched"
  /\ pc'[q] = "error" => pc[q] = "error" \/ faults' # 0
  /\ pc'[q] = "swallowed" =>
       /\ dev'[q] = dev[q] /\ emp'[q] = emp[q]
       /\ pc[q] = "swallowed" \/ (pc[q] = "cooldown" /\ KeyLives(dev[q], emp[q]))

KeysFollowed ==
  /\ faults # 0 => faults' # 0
  /\ \A q \in Requests : Followed(q)
  /\ \A d \in Devices, e \in Employees : cooldown'[d][e] # cooldown[d][e] =>
       \E q \in Requests : pc'[q] = "select" /\ dev'[q] = d /\ emp'[q] = e

\* Every step does.
LEMMA KeysFollowedStep ==
  ASSUME TypeOK, LogOK, [Next]_vars
  PROVE  KeysFollowed
<1> USE DEF KeysFollowed, Followed, KeyLives, Committed, InFlight, Upstream, InTransaction,
            Goto, db, locals, bounds
<1>0. /\ pc \in [Requests -> {"new"} \cup InFlight \cup Over]
      /\ dev \in [Requests -> Devices \cup {None}]
      /\ emp \in [Requests -> Employees \cup {None}]
      /\ cooldown \in [Devices -> [Employees -> Nat]]
      /\ audit \in [Requests ->
           [reason : {"absent", "matched", "liveness", "low_confidence", "unrecognized"},
            emp : Employees \cup {None}]]
      /\ faults \in Nat
  BY DEF TypeOK
<1>a. \A q \in Requests : audit[q].reason = "matched" => pc[q] \in Committed
  BY DEF LogOK
<1>b. ASSUME NEW r \in Requests, NEW to,
             pc[r] \notin Committed \cup InTransaction \cup {"error", "swallowed"},
             to \notin {"error", "swallowed"}, pc' = [pc EXCEPT ![r] = to],
             \A q \in Requests : q # r => dev'[q] = dev[q] /\ emp'[q] = emp[q] /\ audit'[q] = audit[q],
             UNCHANGED <<cooldown, faults>>
      PROVE  KeysFollowed
  BY <1>0, <1>a, <1>b
<1>c. ASSUME NEW r \in Requests, NEW to \in InTransaction, pc[r] \in InTransaction,
             pc' = [pc EXCEPT ![r] = to], UNCHANGED <<dev, emp, audit, cooldown, faults>>
      PROVE  KeysFollowed
  BY <1>0, <1>a, <1>c
<1>1. ASSUME NEW r \in Requests, Arrive(r) PROVE KeysFollowed
  <2> HIDE DEF KeysFollowed
  <2>1. PICK d \in Devices : Throttle(r, d) \/ \E to \in {"empty", "liveness"} : Admit(r, d, to)
    BY <1>1 DEF Arrive, RefuseEmpty, Accept
  <2>2. CASE Throttle(r, d)
    BY <1>0, <1>b, <2>2 DEF Throttle
  <2>3. ASSUME NEW to \in {"empty", "liveness"}, Admit(r, d, to) PROVE KeysFollowed
    BY <1>0, <1>b, <2>3 DEF Admit
  <2> QED
    BY <2>1, <2>2, <2>3
<1>2. ASSUME NEW r \in Requests, Judge(r) PROVE KeysFollowed
  <2> HIDE DEF KeysFollowed
  <2>1. CASE PassLiveness(r)
    BY <1>b, <2>1 DEF PassLiveness
  <2>2. ASSUME NEW from \in {"liveness", "recognition", "lookup"}, NEW why, NEW whom,
               Refuse(r, from, why, whom)
        PROVE  KeysFollowed
    BY <1>0, <1>b, <2>2 DEF Refuse
  <2>3. ASSUME NEW e \in Employees, NEW similar \in BOOLEAN, Recognize(r, e, similar)
        PROVE  KeysFollowed
    BY <1>0, <1>b, <2>3 DEF Recognize
  <2>4. CASE MatchEmployee(r)
    BY <1>b, <2>4 DEF MatchEmployee
  <2>5. CASE CommitReject(r)
    BY <1>0, <1>b, <2>5 DEF CommitReject
  <2> QED
    BY <1>2, <2>1, <2>2, <2>3, <2>4, <2>5 DEF Judge, FailLiveness, FindNobody, FailMatch
<1>3. ASSUME NEW r \in Requests, Record(r) PROVE KeysFollowed
  <2>1. CASE Swallow(r)
    BY <1>0, <1>a, <2>1 DEF Swallow
  <2>2. CASE TakeCooldown(r)
    <3>1. /\ pc[r] = "cooldown" /\ pc' = [pc EXCEPT ![r] = "select"]
          /\ UNCHANGED <<dev, emp, audit, faults>>
      BY <2>2 DEF TakeCooldown
    <3>2. \A d \in Devices, e \in Employees : cooldown'[d][e] # cooldown[d][e] =>
            dev[r] = d /\ emp[r] = e
      BY <1>0, <2>2 DEF TakeCooldown
    <3> QED
      BY <1>0, <1>a, <3>1, <3>2
  <2>3. CASE Publish(r)
    BY <1>0, <1>a, <2>3 DEF Publish, LogOK
  <2>4. CASE CommitLog(r)
    <3>1. /\ pc[r] = "commit" /\ pc' = [pc EXCEPT ![r] = "publish"]
          /\ audit'[r].reason = "matched" /\ \A q \in Requests : q # r => audit'[q] = audit[q]
          /\ UNCHANGED <<dev, emp, cooldown, faults>>
      BY <1>0, <2>4 DEF CommitLog
    <3> QED
      BY <1>0, <1>a, <3>1
  <2> HIDE DEF KeysFollowed
  <2>5. CASE SelectNone(r) \/ Flush(r)
    BY <1>c, <2>5 DEF SelectNone, Flush
  <2>6. ASSUME NEW s \in Requests, SelectDuplicate(r, s) \/ SelectToClose(r, s) PROVE KeysFollowed
    BY <1>c, <2>6 DEF SelectDuplicate, SelectToClose
  <2> QED
    BY <1>3, <2>1, <2>2, <2>3, <2>4, <2>5, <2>6
       DEF Record, CommitOpen, CommitDuplicate, CommitClose, CommitAnomaly
<1>4. ASSUME NEW r \in Requests, Abort(r) PROVE KeysFollowed
  BY <1>0, <1>a, <1>4 DEF Abort, Fault
<1>5. CASE Crash
  BY <1>0, <1>a, <1>5 DEF Crash, Fault
<1>6. CASE Tick \/ (\E d \in Devices : Heartbeat(d)) \/ (\E e \in Employees : SetActive(e)) \/ UNCHANGED vars
  <2>1. UNCHANGED <<pc, dev, emp, audit, cooldown, faults>>
    BY <1>6 DEF Tick, Heartbeat, SetActive, vars
  <2> QED
    BY <1>0, <1>a, <2>1
<1> HIDE DEF KeysFollowed
<1> QED
  BY <1>1, <1>2, <1>3, <1>4, <1>5, <1>6 DEF Next

\* The key that swallowed a submission had a taker, and only a fault makes one fail.
KeysOK ==
  /\ KeysHaveTakers
  /\ \A r \in Requests : pc[r] = "swallowed" => \E q \in Requests : TookKey(q, dev[r], emp[r])
  /\ \A q \in Requests : pc[q] = "error" => faults # 0

LEMMA KeysStep == BaseInvariant /\ LogOK /\ KeysOK /\ [Next]_vars => KeysOK'
<1> SUFFICES ASSUME BaseInvariant, LogOK, KeysOK, [Next]_vars PROVE KeysOK'
  OBVIOUS
<1> DEFINE After(q, d, e) ==
      /\ dev'[q] = d /\ emp'[q] = e
      /\ audit'[q].reason = "matched" \/ pc'[q] \in InTransaction \cup {"error"}
<1>0. /\ KeysFollowed /\ clock \in Nat \ {0}
      /\ cooldown \in [Devices -> [Employees -> Nat]]
  BY KeysFollowedStep DEF BaseInvariant, TypeOK
<1>1. ASSUME NEW q \in Requests, NEW d, NEW e, TookKey(q, d, e) PROVE After(q, d, e)
  <2>1. Followed(q)
    BY <1>0 DEF KeysFollowed
  <2>2. audit[q].reason = "matched" => pc[q] \in Committed
    BY DEF LogOK
  <2> QED
    BY <1>1, <2>1, <2>2 DEF TookKey, Followed
<1>2. ASSUME NEW d \in Devices, NEW e \in Employees, cooldown'[d][e] # 0
      PROVE  \E q \in Requests : After(q, d, e)
  <2>1. CASE cooldown[d][e] # 0
    BY <1>1, <2>1 DEF KeysOK, KeysHaveTakers
  <2>2. CASE cooldown[d][e] = 0
    <3>1. PICK q \in Requests : pc'[q] = "select" /\ dev'[q] = d /\ emp'[q] = e
      BY <1>0, <1>2, <2>2 DEF KeysFollowed
    <3> QED
      BY <3>1 DEF InTransaction
  <2> QED
    BY <2>1, <2>2
<1>3. ASSUME NEW r \in Requests, pc'[r] = "swallowed"
      PROVE  \E q \in Requests : After(q, dev'[r], emp'[r])
  <2>1. /\ dev'[r] = dev[r] /\ emp'[r] = emp[r]
        /\ pc[r] = "swallowed" \/ (pc[r] = "cooldown" /\ KeyLives(dev[r], emp[r]))
    BY <1>0, <1>3 DEF KeysFollowed, Followed
  <2>2. \E q \in Requests : TookKey(q, dev[r], emp[r])
    <3>1. CASE pc[r] = "swallowed"
      BY <3>1 DEF KeysOK
    <3>2. CASE pc[r] = "cooldown" /\ KeyLives(dev[r], emp[r])
      <4>1. dev[r] \in Devices /\ emp[r] \in Employees
        BY <3>2 DEF BaseInvariant, KnowsItself, InFlight, Upstream
      <4>2. cooldown[dev[r]][emp[r]] # 0
        BY <1>0, <3>2, <4>1 DEF KeyLives
      <4> QED
        BY <4>1, <4>2 DEF KeysOK, KeysHaveTakers
    <3> QED
      BY <2>1, <3>1, <3>2
  <2> HIDE DEF After
  <2> QED
    BY <1>1, <2>1, <2>2
<1>4. ASSUME NEW q \in Requests, pc'[q] = "error" PROVE faults' # 0
  BY <1>0, <1>4 DEF KeysFollowed, Followed, KeysOK
<1> QED
  BY <1>2, <1>3, <1>4 DEF KeysOK, KeysHaveTakers, TookKey

\* Keys, answers and failures agree in every behaviour.
LEMMA KeysInductive == Spec => []KeysOK
<1>1. Init => KeysOK
  BY DEF Init, KeysOK, KeysHaveTakers
<1>2. BaseInvariant /\ LogOK /\ KeysOK /\ [Next]_vars => KeysOK'
  BY KeysStep
<1> QED
  BY <1>1, <1>2, Base, LogInductive, PTL DEF Spec

\* Nobody is told "Already registered a moment ago" without being registered, or on the
\* way to it, unless a call failed or the process died before: for any doors, however
\* slow the commits, whoever is switched off meanwhile.
THEOREM SwallowedAreRegistered == Spec => []SwallowedWithoutFaults
<1>1. KeysOK => SwallowedWithoutFaults
  BY DEF KeysOK, SwallowedWithoutFaults, SwallowedIsRegistered, TookKey
<1> QED
  BY <1>1, KeysInductive, PTL

\* ---- The log's rows --------------------------------------------------------------------
\* An open row has not been checked out, and one that a check-in opened has its check-in.
RowsAreShaped ==
  /\ \A s \in Requests : sessions[s].status = "open" => sessions[s].out = None
  /\ \A s \in Requests : sessions[s].status \in {"open", "closed"} => sessions[s].in # None

\* What every step keeps of rows and log together.
LogIsKept == RowsAreShaped /\ LogsHaveRows

\* The row that an accepted submission's log entry speaks of.
RowOf(q) ==
  IF IsCheckIn(q)
  THEN \E s \in Requests : sessions[s].in # None /\ sessions[s].emp = audit[q].emp
  ELSE \E s \in Requests : sessions[s].out = q

\* A row is only ever completed: nothing of it that the log relies on is overwritten.
RowsGrow ==
  \A s \in Requests :
    /\ sessions[s].in # None => sessions'[s].in # None /\ sessions'[s].emp = sessions[s].emp
    /\ sessions[s].out # None => sessions'[s].out = sessions[s].out

\* When rows only grow, a log entry that a step leaves alone keeps its row.
LEMMA RowIsKept ==
  ASSUME NEW q \in Requests, None \notin Requests, RowsGrow, RowOf(q),
         audit'[q] = audit[q], dev'[q] = dev[q]
  PROVE  RowOf(q)'
<1> USE DEF RowOf, IsCheckIn
<1>1. CASE dev[q] \in Entrances
  <2>1. PICK s \in Requests : sessions[s].in # None /\ sessions[s].emp = audit[q].emp
    BY <1>1
  <2> QED
    BY <1>1, <2>1 DEF RowsGrow
<1>2. CASE dev[q] \notin Entrances
  <2>1. PICK s \in Requests : sessions[s].out = q
    BY <1>2
  <2>2. sessions'[s].out = q
    BY <2>1 DEF RowsGrow
  <2> QED
    BY <1>2, <2>2
<1> QED
  BY <1>1, <1>2

\* Every step keeps the rows of the log.
LEMMA LogsHaveRowsStep ==
  ASSUME BaseInvariant, FoundIsOpen, LogOK, LogOK', LogIsKept, [Next]_vars
  PROVE  LogIsKept'
<1> USE DEF Goto, db, locals, bounds
<1>0. /\ pc \in [Requests -> {"new"} \cup InFlight \cup Over]
      /\ sessions \in [Requests -> SessionRow]
      /\ audit \in [Requests ->
           [reason : {"absent", "matched", "liveness", "low_confidence", "unrecognized"},
            emp : Employees \cup {None}]]
      /\ None \notin Requests /\ Entrances \cap Exits = {}
  BY ConstantsOK DEF BaseInvariant, TypeOK
<1>a. /\ \A r \in Requests : audit[r].reason = "matched" => pc[r] \in Committed
      /\ \A r \in Requests : audit'[r].reason = "matched" => pc'[r] \in Committed
  BY DEF LogOK
<1>b. /\ RowsAreShaped
      /\ \A q \in Requests : audit[q].reason = "matched" => RowOf(q)
  BY DEF LogIsKept, LogsHaveRows, RowOf
<1>c. (\A q \in Requests : audit'[q].reason = "matched" => RowOf(q)') => LogsHaveRows'
  BY DEF LogsHaveRows, RowOf
<1>1. ASSUME UNCHANGED sessions,
             \A q \in Requests : audit'[q].reason = "matched" => audit'[q] = audit[q] /\ dev'[q] = dev[q]
      PROVE  LogIsKept'
  <2>1. RowsAreShaped'
    BY <1>1, <1>b DEF RowsAreShaped
  <2>2. RowsGrow
    BY <1>1 DEF RowsGrow
  <2>3. ASSUME NEW q \in Requests, audit'[q].reason = "matched" PROVE RowOf(q)'
    <3>1. audit'[q] = audit[q] /\ dev'[q] = dev[q]
      BY <1>1, <2>3
    <3>2. RowOf(q)
      BY <1>b, <2>3, <3>1
    <3> QED
      BY <1>0, <2>2, <3>1, <3>2, RowIsKept
  <2> QED
    BY <1>c, <2>1, <2>3 DEF LogIsKept
<1>2. CASE Aside
  <2>1. UNCHANGED sessions
    BY <1>2 DEF Aside
  <2>2. \A q \in Requests : audit'[q].reason = "matched" => audit'[q] = audit[q] /\ dev'[q] = dev[q]
    BY <1>2, <1>a DEF Aside
  <2> QED
    BY <1>1, <2>1, <2>2
<1>3. CASE Tick
  <2>1. UNCHANGED <<sessions, audit, dev>>
    BY <1>3 DEF Tick
  <2> QED
    BY <1>1, <2>1
<1>4. ASSUME NEW r \in Requests, Transact(r) PROVE LogIsKept'
  <2>1. CASE TakeCooldown(r) \/ SelectNone(r) \/ Flush(r)
             \/ \E s \in Requests : SelectDuplicate(r, s) \/ SelectToClose(r, s)
    <3>1. UNCHANGED <<sessions, audit, dev>>
      BY <2>1 DEF TakeCooldown, SelectNone, Flush, SelectDuplicate, SelectToClose
    <3> QED
      BY <1>1, <3>1
  <2>2. ASSUME CommitLog(r)
        PROVE  /\ pc[r] = "commit" /\ sessions[r] = Absent
               /\ audit'[r] = [reason |-> "matched", emp |-> emp[r]]
               /\ dev' = dev /\ \A q \in Requests \ {r} : audit'[q] = audit[q]
    BY <1>0, <2>2 DEF CommitLog, BaseInvariant, RowsAppearAtCommit
  <2>3. ASSUME CommitLog(r), RowsGrow, RowsAreShaped', RowOf(r)' PROVE LogIsKept'
    <3>1. ASSUME NEW q \in Requests, audit'[q].reason = "matched" PROVE RowOf(q)'
      <4>1. CASE q = r
        BY <2>3, <4>1
      <4>2. CASE q # r
        <5>1. audit'[q] = audit[q] /\ dev'[q] = dev[q]
          BY <2>2, <2>3, <4>2
        <5>2. RowOf(q)
          BY <1>b, <3>1, <5>1
        <5> QED
          BY <1>0, <2>3, <5>1, <5>2, RowIsKept
      <4> QED
        BY <4>1, <4>2
    <3> QED
      BY <1>c, <2>3, <3>1 DEF LogIsKept
  <2>4. CASE CommitOpen(r)
    <3>1. /\ sessions'[r] = [status |-> "open", emp |-> emp[r], in |-> r, out |-> None]
          /\ \A s \in Requests \ {r} : sessions'[s] = sessions[s]
          /\ CommitLog(r) /\ dev[r] \in Entrances
      BY <1>0, <2>4 DEF CommitOpen, IsCheckIn
    <3>2. RowsGrow
      BY <2>2, <3>1 DEF RowsGrow, Absent
    <3>3. RowsAreShaped'
      BY <1>0, <1>b, <3>1 DEF RowsAreShaped
    <3>4. RowOf(r)'
      BY <1>0, <2>2, <3>1 DEF RowOf, IsCheckIn
    <3> QED
      BY <2>3, <3>1, <3>2, <3>3, <3>4
  <2>5. CASE CommitDuplicate(r)
    <3>1. /\ UNCHANGED sessions /\ CommitLog(r) /\ dev[r] \in Entrances
          /\ found[r] \in Requests /\ pc[r] = "commit"
      BY <2>2, <2>5 DEF CommitDuplicate, BaseInvariant, TypeOK, IsCheckIn
    <3>2. sessions[found[r]].in # None /\ sessions[found[r]].emp = emp[r]
      BY <1>0, <1>b, <2>5, <3>1 DEF CommitDuplicate, BaseInvariant, FoundIsTheirs, RowsAreShaped, IsCheckIn
    <3>3. RowsGrow /\ RowsAreShaped'
      BY <1>b, <3>1 DEF RowsGrow, RowsAreShaped
    <3>4. RowOf(r)'
      BY <1>0, <2>2, <3>1, <3>2 DEF RowOf, IsCheckIn
    <3> QED
      BY <2>3, <3>1, <3>3, <3>4
  <2>6. CASE CommitClose(r)
    <3> DEFINE t == found[r]
    <3>1. /\ CommitLog(r) /\ t \in Requests /\ dev[r] \notin Entrances
          /\ sessions[t].status = "open" /\ sessions[t].emp = emp[r]
      BY <2>2, <2>6 DEF CommitClose, BaseInvariant, TypeOK, FoundIsOpen, IsOpen, FoundIsTheirs, IsCheckIn
    <3>2. sessions[t].out = None /\ sessions[t].in # None
      BY <1>b, <3>1 DEF RowsAreShaped
    <3>3. /\ sessions'[t].emp = sessions[t].emp /\ sessions'[t].in = sessions[t].in
          /\ sessions'[t].out = r /\ sessions'[t].status = "closed"
          /\ \A s \in Requests \ {t} : sessions'[s] = sessions[s]
      BY <1>0, <2>6, <3>1 DEF CommitClose, SessionRow
    <3> HIDE DEF t
    <3>4. RowsGrow
      BY <3>1, <3>2, <3>3 DEF RowsGrow
    <3>5. RowsAreShaped'
      BY <1>b, <3>1, <3>2, <3>3 DEF RowsAreShaped
    <3>6. RowOf(r)'
      BY <2>2, <3>1, <3>3 DEF RowOf, IsCheckIn
    <3> QED
      BY <2>3, <3>1, <3>4, <3>5, <3>6
  <2>7. CASE CommitAnomaly(r)
    <3>1. /\ sessions'[r] = [status |-> "anomaly", emp |-> emp[r], in |-> None, out |-> r]
          /\ \A s \in Requests \ {r} : sessions'[s] = sessions[s]
          /\ CommitLog(r) /\ dev[r] \notin Entrances
      BY <1>0, <2>7 DEF CommitAnomaly, IsCheckIn
    <3>2. RowsGrow
      BY <2>2, <3>1 DEF RowsGrow, Absent
    <3>3. RowsAreShaped'
      BY <1>b, <3>1 DEF RowsAreShaped
    <3>4. RowOf(r)'
      BY <2>2, <3>1 DEF RowOf, IsCheckIn
    <3> QED
      BY <2>3, <3>1, <3>2, <3>3, <3>4
  <2> QED
    BY <1>4, <2>1, <2>4, <2>5, <2>6, <2>7 DEF Transact
<1> QED
  BY <1>2, <1>3, <1>4, StepCases DEF BaseInvariant

\* With one exit and prompt commits, a logged check-out keeps its row.
THEOREM LogsKeepRows == ASSUME Prompt, OneExit PROVE Spec => []LogsHaveRows
<1> DEFINE Inv == KeyIsHeld /\ OneTransactionPerKey /\ FoundIsOpen /\ LogOK
<1>1. Init => Inv /\ LogIsKept
  BY DEF Init, KeyIsHeld, OneTransactionPerKey, InTransaction, FoundIsOpen, LogOK, FramesMatchLog,
         FeedIsCommitted, NoAudit, LogIsKept, RowsAreShaped, LogsHaveRows, Absent
<1>2. BaseInvariant /\ Inv /\ LogIsKept /\ [Next]_vars => (Inv /\ LogIsKept)'
  <2> SUFFICES ASSUME BaseInvariant, Inv, LogIsKept, [Next]_vars
               PROVE  (Inv /\ LogIsKept)'
    OBVIOUS
  <2>1. (KeyIsHeld /\ OneTransactionPerKey /\ FoundIsOpen)'
    BY LockStep, FoundIsOpenStep DEF Prompted
  <2>2. LogOK'
    BY LogStep DEF BaseInvariant
  <2> QED
    BY <2>1, <2>2, LogsHaveRowsStep
<1>3. LogIsKept => LogsHaveRows
  BY DEF LogIsKept
<1> QED
  BY <1>1, <1>2, <1>3, Base, PTL DEF Spec

\* With one entrance, one exit and prompt commits the whole inductive invariant holds.
THEOREM PipelineIsInductive ==
  ASSUME Prompt, OneEntrance, OneExit PROVE Spec => []PipelineInvariant
<1> DEFINE Inv == KeyIsHeld /\ OneTransactionPerKey /\ NothingFoundNothingOpen /\ FoundIsOpen
<1>1. Init => Inv
  BY DEF Init, KeyIsHeld, OneTransactionPerKey, InTransaction, NothingFoundNothingOpen, FoundIsOpen
<1>2. BaseInvariant /\ Inv /\ [Next]_vars => Inv'
  BY LockStep, NothingOpenStep, FoundIsOpenStep DEF Prompted
<1>3. BaseInvariant /\ KeysOK /\ Inv => PipelineInvariant
  BY DEF BaseInvariant, KeysOK, PipelineInvariant
<1> QED
  BY <1>1, <1>2, <1>3, Base, KeysInductive, PTL DEF Spec

\* ---- Refinement ----------------------------------------------------------------------
LEMMA LedgerStep ==
  ASSUME BaseInvariant, NothingFoundNothingOpen, FoundIsOpen, [Next]_vars
  PROVE  [Ledger!Next]_sessions
<1>0. /\ found \in [Requests -> Requests \cup {None}]
      /\ emp \in [Requests -> Employees \cup {None}]
  BY DEF BaseInvariant, TypeOK
<1>1. ASSUME NEW r \in Requests, CommitLog(r)
      PROVE  pc[r] = "commit" /\ sessions[r] = Absent /\ emp[r] \in Employees
  BY <1>1 DEF CommitLog, Goto, BaseInvariant, RowsAppearAtCommit, KnowsItself, InTransaction
<1>2. ASSUME NEW r \in Requests, CommitOpen(r) PROVE Ledger!Open(r, emp[r])
  BY <1>1, <1>2 DEF CommitOpen, Ledger!Open, Ledger!Absent, Absent, Ledger!HasOpen,
                    NothingFoundNothingOpen, OpenOf, IsOpen
<1>3. ASSUME NEW r \in Requests, CommitClose(r) PROVE Ledger!Close(found[r], r)
  BY <1>1, <1>3 DEF CommitClose, Ledger!Close, FoundIsOpen, IsOpen
<1>4. ASSUME NEW r \in Requests, CommitAnomaly(r) PROVE Ledger!File(r, emp[r])
  BY <1>1, <1>4 DEF CommitAnomaly, Ledger!File, Ledger!Absent, Absent
<1>5. ASSUME NEW r \in Requests, CommitClose(r) PROVE found[r] \in Requests
  BY <1>0, <1>5 DEF CommitClose
<1>6. CASE UNCHANGED sessions
  BY <1>6
<1>7. ASSUME NEW r \in Requests, CommitOpen(r) PROVE Ledger!Next
  BY <1>1, <1>2, <1>7 DEF Ledger!Next, CommitOpen
<1>8. ASSUME NEW r \in Requests, CommitClose(r) PROVE Ledger!Next
  BY <1>3, <1>5, <1>8 DEF Ledger!Next
<1>9. ASSUME NEW r \in Requests, CommitAnomaly(r) PROVE Ledger!Next
  BY <1>1, <1>4, <1>9 DEF Ledger!Next, CommitAnomaly
<1> QED
  BY <1>6, <1>7, <1>8, <1>9, RowWriters DEF BaseInvariant

\* With one entrance and one exit, and commits faster than the cooldown, concurrent
\* submissions implement the sequential ledger: every commit is one of its steps.
THEOREM PipelineImplementsLedger ==
  ASSUME Prompt, OneEntrance, OneExit PROVE Spec => ImplementsLedger
<1> DEFINE Inv == KeyIsHeld /\ OneTransactionPerKey /\ NothingFoundNothingOpen /\ FoundIsOpen
<1>1. Init => Inv
  BY DEF Init, KeyIsHeld, OneTransactionPerKey, InTransaction, NothingFoundNothingOpen,
         FoundIsOpen
<1>2. BaseInvariant /\ Inv /\ [Next]_vars => Inv'
  BY LockStep, NothingOpenStep, FoundIsOpenStep DEF Prompted
<1>3. Init => Ledger!Init
  BY DEF Init, Ledger!Init, Ledger!Absent, Absent
<1>4. BaseInvariant /\ Inv /\ [Next]_vars => [Ledger!Next]_sessions
  BY LedgerStep
<1> HIDE DEF Inv
<1> QED
  BY <1>1, <1>2, <1>3, <1>4, Base, PTL DEF Spec, ImplementsLedger, Ledger!Spec

\* ---- Any number of doors ---------------------------------------------------------------
\* A request at a SELECT's result has just run that SELECT, or has had it since.
LEMMA ResultsAreSelected ==
  ASSUME TypeOK, [Next]_vars, NEW q \in Requests, pc'[q] \in {"flush", "commit"}
  PROVE  /\ dev'[q] = dev[q] /\ emp'[q] = emp[q]
         /\ \/ pc[q] \in {"flush", "commit"} /\ found'[q] = found[q]
            \/ /\ UNCHANGED <<sessions, dev>> /\ found'[q] = None
               /\ OpenOf(emp[q]) = {}
            \/ /\ UNCHANGED <<sessions, dev>> /\ found'[q] \in OpenOf(emp[q])
<1> USE DEF Goto, db, locals, bounds
<1>0. /\ pc \in [Requests -> {"new"} \cup InFlight \cup Over]
      /\ found \in [Requests -> Requests \cup {None}]
  BY DEF TypeOK
<1>1. CASE Aside
  BY <1>1 DEF Aside, InTransaction
<1>2. CASE Tick
  BY <1>2 DEF Tick
<1>3. ASSUME NEW r \in Requests, Transact(r)
      PROVE  \/ /\ r # q /\ UNCHANGED <<dev, emp>> /\ pc'[q] = pc[q] /\ found'[q] = found[q]
             \/ /\ r = q /\ UNCHANGED <<dev, emp>>
                /\ \/ pc[q] \in {"flush", "commit"} /\ found'[q] = found[q]
                   \/ UNCHANGED sessions /\ found'[q] = None /\ OpenOf(emp[q]) = {}
                   \/ UNCHANGED sessions /\ found'[q] \in OpenOf(emp[q])
  <2>1. CASE TakeCooldown(r)
    BY <1>0, <2>1 DEF TakeCooldown
  <2>2. ASSUME NEW s \in Requests, SelectDuplicate(r, s) \/ SelectToClose(r, s)
        PROVE  /\ UNCHANGED <<dev, emp, sessions>> /\ found'[r] \in OpenOf(emp[r])
               /\ r # q => pc'[q] = pc[q] /\ found'[q] = found[q]
    BY <1>0, <2>2 DEF SelectDuplicate, SelectToClose, NewestOpen
  <2>3. CASE SelectNone(r)
    BY <1>0, <2>3 DEF SelectNone
  <2>4. CASE Flush(r)
    BY <1>0, <2>4 DEF Flush
  <2>5. CASE CommitLog(r)
    BY <1>0, <2>5 DEF CommitLog
  <2> QED
    BY <1>3, <2>1, <2>2, <2>3, <2>4, <2>5
       DEF Transact, CommitOpen, CommitDuplicate, CommitClose, CommitAnomaly
<1> QED
  BY <1>1, <1>2, <1>3, StepCases

\* The door of a request that a row names does not change.
LEMMA DoorsStay ==
  ASSUME TypeOK, [Next]_vars, NEW q \in Requests, pc[q] \in Committed
  PROVE  dev'[q] = dev[q]
<1>1. ASSUME NEW r \in Requests, Transact(r) PROVE dev'[q] = dev[q]
  BY <1>1 DEF Transact, TakeCooldown, SelectDuplicate, SelectToClose, SelectNone, Flush,
              CommitOpen, CommitDuplicate, CommitClose, CommitAnomaly, CommitLog, locals
<1>2. Aside \/ Tick => dev'[q] = dev[q]
  BY DEF Aside, Tick, locals
<1> QED
  BY <1>1, <1>2, StepCases

\* Per door: what a check-in read as absent, and what a check-out read as open, is so
\* unless another door changed it.
NothingOpenFromHere ==
  \A q \in Requests :
    pc[q] \in {"flush", "commit"} /\ IsCheckIn(q) /\ found[q] = None =>
      \A s \in OpenOf(emp[q]) : dev[sessions[s].in] # dev[q]

FoundOpenOrElsewhere ==
  \A q \in Requests :
    pc[q] \in {"flush", "commit"} /\ ~ IsCheckIn(q) /\ found[q] # None =>
      IsOpen(found[q]) \/ dev[sessions[found[q]].out] # dev[q]

\* An employee has at most one open session per entrance.
OneOpenPerEntrance ==
  \A s, t \in Requests :
    /\ IsOpen(s) /\ IsOpen(t) /\ sessions[s].emp = sessions[t].emp
    /\ dev[sessions[s].in] = dev[sessions[t].in]
    => s = t

\* Which columns a row of each status has.
ColumnsFit ==
  \A s \in Requests :
    /\ IsOpen(s) => sessions[s].in # None /\ sessions[s].out = None
    /\ sessions[s].status = "closed" => sessions[s].in # None /\ sessions[s].out # None

DoorInvariant ==
  SourcesCommitted /\ ColumnsFit /\ NothingOpenFromHere /\ FoundOpenOrElsewhere
  /\ OneOpenPerEntrance

\* The columns follow the commits.
LEMMA ColumnsFitStep ==
  ASSUME BaseInvariant, ColumnsFit, [Next]_vars
  PROVE  ColumnsFit'
<1> USE DEF ColumnsFit, IsOpen
<1>0. sessions \in [Requests -> SessionRow] /\ None \notin Requests
  BY ConstantsOK DEF BaseInvariant, TypeOK
<1>1. CASE UNCHANGED sessions
  BY <1>1
<1>2. ASSUME NEW r \in Requests, CommitOpen(r) PROVE ColumnsFit'
  BY <1>0, <1>2 DEF CommitOpen
<1>3. ASSUME NEW r \in Requests, CommitAnomaly(r) PROVE ColumnsFit'
  BY <1>0, <1>3 DEF CommitAnomaly
<1>4. ASSUME NEW r \in Requests, CommitClose(r) PROVE ColumnsFit'
  <2>1. pc[r] = "commit" /\ found[r] \in Requests
    BY <1>4 DEF CommitClose, CommitLog, Goto, BaseInvariant, TypeOK
  <2>2. sessions[found[r]].status \in {"open", "closed"}
    BY <1>4, <2>1 DEF CommitClose, BaseInvariant, FoundIsTheirs
  <2>3. /\ sessions'[found[r]].status = "closed" /\ sessions'[found[r]].out = r
        /\ sessions'[found[r]].in = sessions[found[r]].in
        /\ \A s \in Requests \ {found[r]} : sessions'[s] = sessions[s]
    BY <1>0, <1>4, <2>1 DEF CommitClose, SessionRow
  <2> QED
    BY <1>0, <2>1, <2>2, <2>3
<1> QED
  BY <1>1, <1>2, <1>3, <1>4, RowWriters DEF BaseInvariant

\* What the writers of rows do, to a row and to requests that wait to write.
LEMMA WriterFacts ==
  ASSUME Prompted, NEW r \in Requests, CommitOpen(r) \/ CommitClose(r) \/ CommitAnomaly(r)
  PROVE  /\ pc[r] = "commit" /\ pc'[r] = "publish" /\ dev[r] \in Devices /\ emp[r] \in Employees
         /\ UNCHANGED <<dev, emp, found>> /\ sessions[r] = Absent
         /\ \A q \in Requests : pc[q] \in {"flush", "commit"} /\ q # r /\ emp[q] = emp[r]
                                  => dev[q] # dev[r]
<1> USE DEF Prompted, BaseInvariant, InFlight, InTransaction
<1>1. pc[r] = "commit" /\ pc' = [pc EXCEPT ![r] = "publish"] /\ UNCHANGED <<dev, emp, found>>
  BY DEF CommitOpen, CommitClose, CommitAnomaly, CommitLog, Goto, locals
<1>2. pc'[r] = "publish"
  BY <1>1 DEF TypeOK
<1>3. dev[r] \in Devices /\ emp[r] \in Employees
  BY <1>1 DEF KnowsItself
<1>4. sessions[r] = Absent
  BY <1>1 DEF RowsAppearAtCommit
<1>5. \A q \in Requests : pc[q] \in {"flush", "commit"} /\ q # r /\ emp[q] = emp[r] => dev[q] # dev[r]
  BY <1>1 DEF OneTransactionPerKey
<1> QED
  BY <1>1, <1>2, <1>3, <1>4, <1>5

\* Only another entrance can open a row behind a check-in's back.
LEMMA NothingOpenFromHereStep ==
  ASSUME Prompted, SourcesCommitted, ColumnsFit, NothingOpenFromHere, [Next]_vars
  PROVE  NothingOpenFromHere'
<1> USE DEF OpenOf, IsOpen, IsCheckIn
<1>0. sessions \in [Requests -> SessionRow] /\ TypeOK /\ None \notin Requests
  BY ConstantsOK DEF Prompted, BaseInvariant, TypeOK
<1> SUFFICES ASSUME NEW q \in Requests, pc'[q] \in {"flush", "commit"},
                    dev'[q] \in Entrances, found'[q] = None,
                    NEW s \in Requests, sessions'[s].status = "open", sessions'[s].emp = emp'[q]
             PROVE  dev'[sessions'[s].in] # dev'[q]
  BY DEF NothingOpenFromHere
<1>1. dev'[q] = dev[q] /\ emp'[q] = emp[q]
  BY <1>0, ResultsAreSelected
<1>2. CASE UNCHANGED sessions
  <2>1. pc[q] \in {"flush", "commit"} /\ found[q] = None
    BY <1>0, <1>1, <1>2, ResultsAreSelected
  <2>2. dev[sessions[s].in] # dev[q]
    BY <1>1, <1>2, <2>1 DEF NothingOpenFromHere
  <2>3. sessions[s].in \in Requests /\ pc[sessions[s].in] \in Committed
    BY <1>2 DEF ColumnsFit, SourcesCommitted
  <2> QED
    BY <1>0, <1>1, <1>2, <2>2, <2>3, DoorsStay
<1>3. ASSUME NEW r \in Requests, CommitOpen(r) \/ CommitClose(r) \/ CommitAnomaly(r)
      PROVE  dev'[sessions'[s].in] # dev'[q]
  <2>1. /\ pc[r] = "commit" /\ pc'[r] = "publish" /\ UNCHANGED <<dev, emp, found>>
        /\ \A p \in Requests : pc[p] \in {"flush", "commit"} /\ p # r /\ emp[p] = emp[r]
                                 => dev[p] # dev[r]
    BY <1>3, WriterFacts
  <2>2. q # r
    BY <2>1
  <2>3. CASE sessions'[s] = sessions[s]
    <3>1. CASE pc[q] \in {"flush", "commit"}
      BY <1>1, <2>1, <2>3, <3>1 DEF NothingOpenFromHere
    <3>2. CASE pc[q] \notin {"flush", "commit"}
      <4>1. UNCHANGED sessions
        BY <1>0, <3>2, ResultsAreSelected
      <4> QED
        BY <1>2, <4>1
    <3> QED
      BY <3>1, <3>2
  <2>4. CASE sessions'[s] # sessions[s]
    <3>1. CommitOpen(r) /\ s = r
      BY <1>0, <1>3, <2>4 DEF CommitOpen, CommitClose, CommitAnomaly, SessionRow
    <3>2. sessions'[s].in = r /\ sessions'[s].emp = emp[r]
      BY <1>0, <3>1 DEF CommitOpen
    <3>3. pc[q] \in {"flush", "commit"}
      BY <1>0, <2>4, ResultsAreSelected
    <3> QED
      BY <1>1, <2>1, <2>2, <3>2, <3>3
  <2> QED
    BY <2>3, <2>4
<1> QED
  BY <1>0, <1>2, <1>3, RowWriters

\* Only another exit can close a row behind a check-out's back.
LEMMA FoundOpenOrElsewhereStep ==
  ASSUME Prompted, SourcesCommitted, ColumnsFit, FoundOpenOrElsewhere, [Next]_vars
  PROVE  FoundOpenOrElsewhere'
<1> USE DEF IsOpen, IsCheckIn
<1>0. /\ sessions \in [Requests -> SessionRow] /\ TypeOK /\ None \notin Requests
      /\ found \in [Requests -> Requests \cup {None}]
  BY ConstantsOK DEF Prompted, BaseInvariant, TypeOK
<1> SUFFICES ASSUME NEW q \in Requests, pc'[q] \in {"flush", "commit"},
                    dev'[q] \notin Entrances, found'[q] # None,
                    sessions'[found'[q]].status # "open"
             PROVE  dev'[sessions'[found'[q]].out] # dev'[q]
  BY DEF FoundOpenOrElsewhere
<1>1. dev'[q] = dev[q] /\ emp'[q] = emp[q]
  BY <1>0, ResultsAreSelected
<1>2. pc[q] \in {"flush", "commit"} /\ found'[q] = found[q]
  <2>1. ~ (UNCHANGED sessions /\ found'[q] \in OpenOf(emp[q]))
    BY DEF OpenOf
  <2> QED
    BY <1>0, <2>1, ResultsAreSelected
<1>3. found[q] \in Requests /\ sessions[found[q]].status \in {"open", "closed"}
      /\ sessions[found[q]].emp = emp[q]
  BY <1>0, <1>2 DEF Prompted, BaseInvariant, FoundIsTheirs
<1>4. CASE sessions'[found[q]] = sessions[found[q]]
  <2>1. dev[sessions[found[q]].out] # dev[q]
    BY <1>1, <1>2, <1>4 DEF FoundOpenOrElsewhere
  <2>2. sessions[found[q]].out \in Requests /\ pc[sessions[found[q]].out] \in Committed
    BY <1>2, <1>3, <1>4 DEF ColumnsFit, SourcesCommitted
  <2> QED
    BY <1>0, <1>1, <1>2, <1>4, <2>1, <2>2, DoorsStay
<1>5. ASSUME NEW r \in Requests, CommitOpen(r) \/ CommitClose(r) \/ CommitAnomaly(r),
             sessions'[found[q]] # sessions[found[q]]
      PROVE  dev'[sessions'[found'[q]].out] # dev'[q]
  <2>1. /\ pc[r] = "commit" /\ pc'[r] = "publish" /\ UNCHANGED <<dev, emp, found>>
        /\ sessions[r] = Absent
        /\ \A p \in Requests : pc[p] \in {"flush", "commit"} /\ p # r /\ emp[p] = emp[r]
                                 => dev[p] # dev[r]
    BY <1>5, WriterFacts
  <2>2. q # r /\ found[q] # r
    BY <1>3, <2>1 DEF Absent
  <2>3. CommitClose(r) /\ found[r] = found[q]
    BY <1>0, <1>3, <1>5, <2>2 DEF CommitOpen, CommitClose, CommitAnomaly
  <2>4. sessions'[found[q]].out = r
    BY <1>0, <1>3, <2>3 DEF CommitClose, SessionRow
  <2>5. sessions[found[r]].emp = emp[r]
    BY <2>1, <2>3 DEF CommitClose, Prompted, BaseInvariant, FoundIsTheirs
  <2> QED
    BY <1>1, <1>2, <1>3, <2>1, <2>2, <2>3, <2>4, <2>5
<1> QED
  BY <1>0, <1>2, <1>4, <1>5, RowWriters

\* A second row opened at the same entrance would have been found.
LEMMA OneOpenPerEntranceStep ==
  ASSUME Prompted, SourcesCommitted, ColumnsFit, NothingOpenFromHere, OneOpenPerEntrance,
         [Next]_vars
  PROVE  OneOpenPerEntrance'
<1> USE DEF IsOpen
<1>0. sessions \in [Requests -> SessionRow] /\ TypeOK /\ None \notin Requests
  BY ConstantsOK DEF Prompted, BaseInvariant, TypeOK
<1> DEFINE Open(s) == sessions[s].status = "open"
           In(s) == sessions[s].in
<1>1. ASSUME NEW s \in Requests, Open(s)
      PROVE  In(s) \in Requests /\ pc[In(s)] \in Committed /\ dev'[In(s)] = dev[In(s)]
  <2>1. In(s) \in Requests /\ pc[In(s)] \in Committed
    BY <1>1 DEF ColumnsFit, SourcesCommitted
  <2> HIDE DEF In
  <2> QED
    BY <1>0, <2>1, DoorsStay
<1>2. ASSUME \A s \in Requests : sessions'[s].status = "open" => sessions'[s] = sessions[s]
      PROVE  OneOpenPerEntrance'
  BY <1>1, <1>2 DEF OneOpenPerEntrance
<1>3. ASSUME NEW r \in Requests, CommitOpen(r) PROVE OneOpenPerEntrance'
  <2>1. pc[r] = "commit" /\ dev[r] \in Entrances /\ found[r] = None /\ UNCHANGED dev
    BY <1>3, WriterFacts DEF CommitOpen, IsCheckIn
  <2>2. \A s \in Requests : Open(s) /\ sessions[s].emp = emp[r] => dev[In(s)] # dev[r]
    BY <2>1 DEF NothingOpenFromHere, OpenOf, IsCheckIn
  <2>3. /\ sessions'[r].in = r /\ sessions'[r].emp = emp[r]
        /\ \A s \in Requests \ {r} : sessions'[s] = sessions[s]
    BY <1>0, <1>3 DEF CommitOpen
  <2> QED
    BY <2>1, <2>2, <2>3 DEF OneOpenPerEntrance
<1>4. ASSUME NEW r \in Requests, CommitClose(r) \/ CommitAnomaly(r) PROVE OneOpenPerEntrance'
  <2>1. \A s \in Requests : sessions'[s].status = "open" => sessions'[s] = sessions[s]
    BY <1>0, <1>4 DEF CommitClose, CommitAnomaly, SessionRow
  <2> QED
    BY <1>2, <2>1
<1>5. CASE UNCHANGED sessions
  BY <1>2, <1>5
<1> QED
  BY <1>0, <1>3, <1>4, <1>5, RowWriters

\* With commits faster than the cooldown all of it holds, for any number of doors.
LEMMA DoorsInductive == ASSUME Prompt PROVE Spec => [](Prompted /\ DoorInvariant)
<1> DEFINE Inv == KeyIsHeld /\ OneTransactionPerKey /\ RowsAreLogged /\ DoorInvariant
<1>1. Init => Inv
  BY DEF Init, KeyIsHeld, OneTransactionPerKey, InTransaction, RowsAreLogged, DoorInvariant,
         SourcesCommitted, ColumnsFit, NothingOpenFromHere, FoundOpenOrElsewhere,
         OneOpenPerEntrance, IsOpen, Absent
<1>2. BaseInvariant /\ Inv /\ [Next]_vars => Inv'
  BY LockStep, RowsLoggedStep, ColumnsFitStep, NothingOpenFromHereStep,
     FoundOpenOrElsewhereStep, OneOpenPerEntranceStep
     DEF Prompted, DoorInvariant
<1>3. BaseInvariant /\ Inv => Prompted /\ DoorInvariant
  BY DEF Prompted
<1> HIDE DEF Inv
<1> QED
  BY <1>1, <1>2, <1>3, Base, PTL DEF Spec

\* Every commit is a step of the ledger of doors.
LEMMA DoorLedgerStep ==
  ASSUME Prompted, DoorInvariant, [Next]_vars
  PROVE  [PerDoor!Next]_DoorRows
<1> USE DEF DoorInvariant
<1>0. /\ sessions \in [Requests -> SessionRow] /\ TypeOK /\ None \notin Requests
      /\ found \in [Requests -> Requests \cup {None}]
  BY ConstantsOK DEF Prompted, BaseInvariant, TypeOK
<1>1. ASSUME NEW s \in Requests, sessions'[s] = sessions[s] PROVE DoorRows'[s] = DoorRows[s]
  <2>1. ASSUME NEW x \in {sessions[s].in, sessions[s].out} \ {None} PROVE dev'[x] = dev[x]
    <3>1. x \in Requests /\ pc[x] \in Committed
      BY <2>1 DEF SourcesCommitted
    <3> QED
      BY <1>0, <3>1, DoorsStay
  <2> QED
    BY <1>1, <2>1 DEF DoorRows, Stamp
<1>2. ASSUME NEW r \in Requests, pc[r] = "commit" PROVE PerDoor!Fresh(r)
  <2> SUFFICES ASSUME NEW s \in Requests, NEW x \in {sessions[s].in, sessions[s].out},
                      Stamp(x) # None, Stamp(x)[1] = r
               PROVE  FALSE
    BY DEF PerDoor!Fresh, PerDoor!Stamps, DoorRows
  <2>1. x # None /\ x = r
    BY DEF Stamp
  <2>2. pc[x] \in Committed
    BY <2>1 DEF SourcesCommitted
  <2> QED
    BY <1>2, <2>1, <2>2 DEF Committed
<1>3. CASE UNCHANGED sessions
  <2>1. \A s \in Requests : DoorRows'[s] = DoorRows[s]
    BY <1>1, <1>3
  <2>2. UNCHANGED DoorRows
    BY <2>1 DEF DoorRows
  <2> QED
    BY <2>2
<1>4. ASSUME NEW r \in Requests, CommitOpen(r)
      PROVE  dev[r] \in Entrances /\ emp[r] \in Employees /\ PerDoor!Open(r, emp[r], dev[r])
  <2>1. /\ pc[r] = "commit" /\ dev[r] \in Entrances /\ emp[r] \in Employees /\ found[r] = None
        /\ UNCHANGED dev /\ sessions[r] = Absent
    BY <1>4, WriterFacts DEF CommitOpen, IsCheckIn
  <2>2. DoorRows[r] = PerDoor!Absent /\ PerDoor!Fresh(r)
    BY <1>2, <2>1 DEF DoorRows, PerDoor!Absent, Absent, Stamp
  <2>3. PerDoor!OpenFrom(emp[r], dev[r]) = {}
    <3>1. ASSUME NEW s \in Requests, sessions[s].status = "open", sessions[s].emp = emp[r]
          PROVE  DoorRows[s].in[2] # dev[r]
      <4>1. dev[sessions[s].in] # dev[r]
        BY <2>1, <3>1 DEF NothingOpenFromHere, OpenOf, IsOpen, IsCheckIn
      <4>2. DoorRows[s].in = <<sessions[s].in, dev[sessions[s].in]>>
        BY <3>1 DEF ColumnsFit, IsOpen, DoorRows, Stamp
      <4> QED
        BY <4>1, <4>2
    <3> QED
      BY <3>1 DEF PerDoor!OpenFrom, PerDoor!Door, DoorRows
  <2>4. DoorRows'[r] = [status |-> "open", emp |-> emp[r], in |-> <<r, dev[r]>>, out |-> None]
    BY <1>0, <1>4, <2>1 DEF CommitOpen, DoorRows, Stamp
  <2>5. \A s \in Requests \ {r} : DoorRows'[s] = DoorRows[s]
    BY <1>0, <1>1, <1>4 DEF CommitOpen
  <2>6. DoorRows' = [DoorRows EXCEPT ![r] = [status |-> "open", emp |-> emp[r],
                                             in |-> <<r, dev[r]>>, out |-> None]]
    BY <2>4, <2>5 DEF DoorRows
  <2> QED
    BY <2>1, <2>2, <2>3, <2>6 DEF PerDoor!Open
<1>5. ASSUME NEW r \in Requests, CommitAnomaly(r)
      PROVE  dev[r] \in Exits /\ emp[r] \in Employees /\ PerDoor!File(r, emp[r], dev[r])
  <2>1. /\ pc[r] = "commit" /\ dev[r] \in Exits /\ emp[r] \in Employees
        /\ UNCHANGED dev /\ sessions[r] = Absent
    BY <1>5, WriterFacts DEF CommitAnomaly, IsCheckIn, Devices
  <2>2. DoorRows[r] = PerDoor!Absent /\ PerDoor!Fresh(r)
    BY <1>2, <2>1 DEF DoorRows, PerDoor!Absent, Absent, Stamp
  <2>3. DoorRows'[r] = [status |-> "anomaly", emp |-> emp[r], in |-> None, out |-> <<r, dev[r]>>]
    BY <1>0, <1>5, <2>1 DEF CommitAnomaly, DoorRows, Stamp
  <2>4. \A s \in Requests \ {r} : DoorRows'[s] = DoorRows[s]
    BY <1>0, <1>1, <1>5 DEF CommitAnomaly
  <2>5. DoorRows' = [DoorRows EXCEPT ![r] = [status |-> "anomaly", emp |-> emp[r],
                                             in |-> None, out |-> <<r, dev[r]>>]]
    BY <2>3, <2>4 DEF DoorRows
  <2> QED
    BY <2>1, <2>2, <2>5 DEF PerDoor!File
<1>6. ASSUME NEW r \in Requests, CommitClose(r)
      PROVE  dev[r] \in Exits /\ found[r] \in Requests /\ PerDoor!Close(found[r], r, dev[r])
  <2>0. PICK t \in Requests : t = found[r]
    BY <1>0, <1>6 DEF CommitClose
  <2>1. /\ pc[r] = "commit" /\ dev[r] \in Exits /\ t \in Requests
        /\ UNCHANGED dev /\ dev[r] \notin Entrances /\ t # None
    BY <1>0, <1>6, <2>0, WriterFacts DEF CommitClose, IsCheckIn, Devices
  <2>2. \/ sessions[t].status = "open"
        \/ sessions[t].status = "closed" /\ dev[sessions[t].out] # dev[r]
    BY <2>0, <2>1 DEF Prompted, BaseInvariant, FoundIsTheirs, FoundOpenOrElsewhere, IsOpen, IsCheckIn
  <2>3. PerDoor!Fresh(r)
    BY <1>2, <2>1
  <2>4. /\ sessions'[t].status = "closed" /\ sessions'[t].out = r
        /\ sessions'[t].in = sessions[t].in /\ sessions'[t].emp = sessions[t].emp
    BY <1>0, <1>6, <2>0 DEF CommitClose, SessionRow
  <2>5. \A s \in Requests \ {t} : DoorRows'[s] = DoorRows[s]
    BY <1>0, <1>1, <1>6, <2>0 DEF CommitClose
  <2>6. DoorRows'[t] = [status |-> "closed", emp |-> sessions[t].emp,
                        in |-> Stamp(sessions[t].in), out |-> <<r, dev[r]>>]
    <3>1. DoorRows'[t] = [status |-> sessions'[t].status, emp |-> sessions'[t].emp,
                          in |-> Stamp(sessions[t].in)', out |-> Stamp(sessions[t].out)']
      BY DEF DoorRows
    <3>2. Stamp(sessions[t].in)' = Stamp(sessions[t].in)
      BY <2>1, <2>4 DEF Stamp
    <3>3. Stamp(sessions[t].out)' = <<r, dev[r]>>
      <4>1. r # None /\ dev' = dev /\ sessions'[t].out = r
        BY <1>0, <2>1, <2>4
      <4> QED
        BY ONLY <4>1 DEF Stamp
    <3> QED
      BY <2>4, <3>1, <3>2, <3>3
  <2>7. DoorRows' = [DoorRows EXCEPT ![t] = [status |-> "closed", emp |-> DoorRows[t].emp,
                                             in |-> DoorRows[t].in, out |-> <<r, dev[r]>>]]
    BY <2>5, <2>6 DEF DoorRows
  <2>8. \/ DoorRows[t].status = "open"
        \/ DoorRows[t].status = "closed" /\ PerDoor!Door(DoorRows[t].out) # dev[r]
    BY <2>1, <2>2 DEF ColumnsFit, DoorRows, Stamp, PerDoor!Door
  <2>9. PerDoor!Close(t, r, dev[r])
    BY <2>3, <2>7, <2>8 DEF PerDoor!Close
  <2> QED
    BY <2>0, <2>1, <2>9
<1>7. ASSUME NEW r \in Requests, CommitOpen(r) \/ CommitClose(r) \/ CommitAnomaly(r)
      PROVE  PerDoor!Next
  BY <1>4, <1>5, <1>6, <1>7 DEF PerDoor!Next
<1> QED
  BY <1>0, <1>3, <1>7, RowWriters

\* For any number of entrances and exits, and commits faster than the cooldown,
\* concurrent submissions implement the ledger of doors: whatever races with whatever,
\* one door never opens a second session of a person nor closes a session twice.
THEOREM PipelineImplementsDoorLedger == ASSUME Prompt PROVE Spec => ImplementsDoorLedger
<1>1. Init => PerDoor!Init
  BY DEF Init, PerDoor!Init, PerDoor!Absent, Absent, DoorRows, Stamp
<1>2. Prompted /\ DoorInvariant /\ [Next]_vars => [PerDoor!Next]_DoorRows
  BY DoorLedgerStep
<1> QED
  BY <1>1, <1>2, DoorsInductive, PTL DEF Spec, ImplementsDoorLedger, PerDoor!Spec

\* An employee has at most as many open sessions as the office has entrances.
AtMostOnePerEntrance ==
  \A e \in Employees : Cardinality(OpenOf(e)) <= Cardinality(Entrances)

\* So with any doors an employee never has more open sessions than there are entrances.
THEOREM OpenSessionsPerEntrance ==
  ASSUME Prompt, IsFiniteSet(Entrances) PROVE Spec => []AtMostOnePerEntrance
<1>1. Prompted /\ DoorInvariant /\ RowsAreLogged => AtMostOnePerEntrance
  <2> SUFFICES ASSUME Prompted, DoorInvariant, RowsAreLogged, NEW e \in Employees
               PROVE  Cardinality(OpenOf(e)) <= Cardinality(Entrances)
    BY DEF AtMostOnePerEntrance
  <2> DEFINE door == [s \in OpenOf(e) |-> dev[sessions[s].in]]
  <2>1. ASSUME NEW s \in OpenOf(e) PROVE door[s] \in Entrances
    <3>1. s \in Requests /\ sessions[s].in # None
      BY <2>1 DEF OpenOf, DoorInvariant, ColumnsFit
    <3> QED
      BY <3>1 DEF RowsAreLogged
  <2>2. \A s, t \in OpenOf(e) : door[s] = door[t] => s = t
    BY DEF OpenOf, DoorInvariant, OneOpenPerEntrance
  <2>3. door \in Injection(OpenOf(e), Entrances)
    <3>1. door \in [OpenOf(e) -> Entrances] /\ DOMAIN door = OpenOf(e)
      BY <2>1
    <3> HIDE DEF door
    <3> QED
      BY <2>2, <3>1 DEF Injection, IsInjective
  <2> QED
    BY <2>3, FS_Injection
<1> QED
  BY <1>1, DoorsInductive, EveryRowIsLogged, PTL
================================================================================
