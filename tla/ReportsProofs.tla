------------------------------- MODULE ReportsProofs -------------------------------
(***************************************************************************)
(* What the reports promise, for any number of people, submissions, keys   *)
(* and days.                                                               *)
(*                                                                         *)
(* Every column of a session is from a submission that was recorded        *)
(* (RowsAreRecorded), so its time does not change any more; and a check-   *)
(* out that is under way is no older than Latency (SubmissionsArePrompt),  *)
(* while what it closes was recorded before.  What a submission found is   *)
(* what it commits to, as one of a person and a role at a time may look    *)
(* (FoundHolds).                                                           *)
(***************************************************************************)
EXTENDS Reports, FiniteSetTheorems, TLAPS

\* What concerns the rows, and what concerns the submissions that have looked.
RowsInv == TypeOK /\ SubmissionsArePrompt /\ RowsAreRecorded /\ DurationsBounded
IInv == RowsInv /\ FoundHolds

\* A time has a day.
LEMMA DayIsNat == ASSUME ReportConstantsOK, NEW t \in Nat  PROVE  Day(t) \in Nat
  BY DEF ReportConstantsOK, Day

\* The invariant holds at the start.
LEMMA InitEstablishes == ASSUME ReportConstantsOK  PROVE  Init => IInv
  <1> SUFFICES ASSUME Init  PROVE IInv
    OBVIOUS
  <1>1. Absent \in SessionRow
    BY DEF Absent, SessionRow
  <1>4. TypeOK
    BY <1>1 DEF Init, TypeOK
  <1>2. SubmissionsArePrompt
    BY DEF Init, SubmissionsArePrompt, InFlight
  <1>3. Rows = {} /\ audit = {}
    BY DEF Init, Rows, Absent
  <1>5. FoundHolds
    BY DEF Init, FoundHolds
  <1> QED BY <1>2, <1>3, <1>4, <1>5 DEF IInv, RowsInv, RowsAreRecorded, DurationsBounded

\* What every recording does to a submission, whatever it does to the sessions.
LEMMA LogKeeps ==
  ASSUME ReportConstantsOK, IInv, NEW r \in Submissions, NEW from \in {"slow", "selected"},
         NEW to \in {"recorded", "rejected"}, Log(r, from, to)
  PROVE  /\ at' = at /\ clock' = clock /\ locals' = locals
         /\ pc[r] = from
         /\ \A q \in Submissions : pc'[q] = IF q = r THEN to ELSE pc[q]
         /\ r \notin Rows
         /\ \A a \in audit' : pc'[a] \in {"recorded", "rejected"}
         /\ SubmissionsArePrompt'
         /\ sessions' \in [Submissions -> SessionRow] => TypeOK'
  <1> USE DEF Log, Goto
  <1>1. at' = at /\ clock' = clock /\ locals' = locals /\ pc[r] = from
    BY DEF locals
  <1>2. pc \in [Submissions -> {"new", "slow", "selected", "recorded", "rejected", "over"}]
    BY DEF IInv, RowsInv, TypeOK
  <1>3. /\ pc' \in [Submissions -> {"new", "slow", "selected", "recorded", "rejected", "over"}]
        /\ \A q \in Submissions : pc'[q] = IF q = r THEN to ELSE pc[q]
    BY <1>2
  <1>4. r \notin Rows
    BY <1>1 DEF IInv, RowsInv, RowsAreRecorded
  <1>5. \A a \in audit' : pc'[a] \in {"recorded", "rejected"}
    BY <1>3 DEF IInv, RowsInv, TypeOK, RowsAreRecorded
  <1>6. SubmissionsArePrompt'
    BY <1>1, <1>3 DEF IInv, RowsInv, SubmissionsArePrompt, InFlight
  <1>7. ASSUME sessions' \in [Submissions -> SessionRow]  PROVE TypeOK'
    <2>1. stored' \in [Submissions -> Keys \cup {"missing", "plain"}]
      BY DEF SaveCapture, IInv, RowsInv, TypeOK
    <2> QED BY <1>3, <1>7, <2>1 DEF locals, IInv, RowsInv, TypeOK
  <1> QED BY <1>1, <1>3, <1>4, <1>5, <1>6, <1>7

\* A new row, whose columns are all from the submission that inserts it.
LEMMA InsertKeeps ==
  ASSUME ReportConstantsOK, IInv, NEW r \in Submissions, NEW row \in SessionRow,
         Log(r, "selected", "recorded"), sessions' = [sessions EXCEPT ![r] = row],
         row.status \in {"open", "anomaly"}, row.status = "open" => row.in = r
  PROVE  RowsInv'
  <1>1. sessions \in [Submissions -> SessionRow]
    BY DEF IInv, RowsInv, TypeOK
  <1>2. /\ sessions' \in [Submissions -> SessionRow]
        /\ \A s \in Submissions : sessions'[s] = IF s = r THEN row ELSE sessions[s]
    BY <1>1
  <1>3. TypeOK' /\ SubmissionsArePrompt'
    BY <1>2, LogKeeps
  <1>4. /\ at' = at /\ \A q \in Submissions : pc'[q] = IF q = r THEN "recorded" ELSE pc[q]
        /\ pc[r] = "selected"
    BY LogKeeps
  <1>5. RowsAreRecorded'
    <2>1. \A a \in audit' : pc'[a] \in {"recorded", "rejected"}
      BY LogKeeps
    <2> QED BY <1>2, <1>4, <2>1 DEF IInv, RowsInv, RowsAreRecorded, Rows
  <1>6. DurationsBounded'
    BY <1>2, <1>4 DEF IInv, RowsInv, DurationsBounded, RowsAreRecorded, Rows
  <1> QED BY <1>3, <1>5, <1>6 DEF IInv, RowsInv

\* A row that is closed was recorded before, by a submission that arrived before.
LEMMA CloseKeeps ==
  ASSUME ReportConstantsOK, IInv, NEW r \in Submissions, RecordClose(r)
  PROVE  RowsInv'
  <1>1. Log(r, "selected", "recorded") /\ pc[r] = "selected" /\ ~ checkIn[r] /\ found[r] # None
    BY DEF RecordClose, Log, Goto
  <1>0. PICK s \in Submissions : s = found[r]
    BY <1>1 DEF IInv, FoundHolds, OpenOf
  <1>2. sessions \in [Submissions -> SessionRow] /\ sessions[s].status = "open"
    BY <1>0, <1>1 DEF IInv, RowsInv, TypeOK, FoundHolds, OpenOf
  <1>3. s \in Rows /\ sessions[s].in = s /\ pc[s] = "recorded"
    BY <1>2 DEF Rows, IInv, RowsInv, RowsAreRecorded
  <1>4. sessions' = [sessions EXCEPT ![s] = [sessions[s] EXCEPT !.status = "closed", !.out = r]]
    BY <1>0, <1>2 DEF RecordClose
  <1> DEFINE closed == [sessions[s] EXCEPT !.status = "closed", !.out = r]
  <1>5. /\ closed \in SessionRow
        /\ closed.status = "closed" /\ closed.out = r /\ closed.in = s
    BY <1>2, <1>3 DEF SessionRow
  <1>6. /\ sessions' \in [Submissions -> SessionRow]
        /\ \A q \in Submissions : sessions'[q] = IF q = s THEN closed ELSE sessions[q]
    BY <1>2, <1>4, <1>5
  <1>7. TypeOK' /\ SubmissionsArePrompt'
    BY <1>1, <1>6, LogKeeps
  <1>8. /\ at' = at /\ \A q \in Submissions : pc'[q] = IF q = r THEN "recorded" ELSE pc[q]
        /\ pc[r] = "selected" /\ \A a \in audit' : pc'[a] \in {"recorded", "rejected"}
    BY <1>1, LogKeeps
  <1>9. at[s] <= at[r] + Latency
    <2>1. at[s] <= clock /\ clock <= at[r] + Latency
      BY <1>8 DEF IInv, RowsInv, SubmissionsArePrompt, InFlight
    <2> QED BY <2>1 DEF IInv, RowsInv, TypeOK, ReportConstantsOK
  <1> HIDE DEF closed
  <1>10. RowsAreRecorded'
    BY <1>3, <1>5, <1>6, <1>8 DEF IInv, RowsInv, RowsAreRecorded, Rows
  <1>11. DurationsBounded'
    BY <1>5, <1>6, <1>8, <1>9 DEF IInv, RowsInv, DurationsBounded, Rows
  <1> QED BY <1>7, <1>10, <1>11 DEF IInv, RowsInv

\* What a submission records keeps the invariant.
LEMMA RecordsKeep ==
  ASSUME ReportConstantsOK, IInv, NEW r \in Submissions,
         \/ RecordOpen(r) \/ RecordDuplicate(r) \/ RecordClose(r) \/ RecordAnomaly(r)
         \/ RecordRejection(r)
  PROVE  RowsInv'
  <1>1. emp[r] \in Employees \cup {None} /\ Day(at[r]) \in Nat
    BY DayIsNat DEF IInv, RowsInv, TypeOK
  <1>2. CASE RecordOpen(r)
    <2> DEFINE row == [status |-> "open", emp |-> emp[r], date |-> Day(at[r]), in |-> r,
                       out |-> None]
    <2>1. row \in SessionRow /\ row.status = "open" /\ row.in = r
      BY <1>1 DEF SessionRow
    <2>2. Log(r, "selected", "recorded") /\ sessions' = [sessions EXCEPT ![r] = row]
      BY <1>2 DEF RecordOpen
    <2> HIDE DEF row
    <2> QED BY <2>1, <2>2, InsertKeeps
  <1>3. CASE RecordAnomaly(r)
    <2> DEFINE row == [status |-> "anomaly", emp |-> emp[r], date |-> Day(at[r]), in |-> None,
                       out |-> r]
    <2>1. row \in SessionRow /\ row.status = "anomaly"
      BY <1>1 DEF SessionRow
    <2>2. Log(r, "selected", "recorded") /\ sessions' = [sessions EXCEPT ![r] = row]
      BY <1>3 DEF RecordAnomaly
    <2> HIDE DEF row
    <2> QED BY <2>1, <2>2, InsertKeeps
  <1>4. CASE RecordDuplicate(r) \/ RecordRejection(r)
    <2> DEFINE to == IF RecordDuplicate(r) THEN "recorded" ELSE "rejected"
           from == IF RecordDuplicate(r) THEN "selected" ELSE "slow"
    <2>1. /\ Log(r, from, to) /\ sessions' = sessions
          /\ to \in {"recorded", "rejected"} /\ from \in {"slow", "selected"}
      BY <1>4 DEF RecordDuplicate, RecordRejection
    <2> HIDE DEF to, from
    <2>2. TypeOK' /\ SubmissionsArePrompt'
      BY <2>1, LogKeeps DEF IInv, RowsInv, TypeOK
    <2>3. /\ at' = at /\ \A q \in Submissions : pc'[q] = IF q = r THEN to ELSE pc[q]
          /\ pc[r] = from /\ \A a \in audit' : pc'[a] \in {"recorded", "rejected"}
      BY <2>1, LogKeeps
    <2>4. RowsAreRecorded' /\ DurationsBounded'
      BY <2>1, <2>3 DEF IInv, RowsInv, RowsAreRecorded, DurationsBounded, Rows
    <2> QED BY <2>2, <2>4 DEF IInv, RowsInv
  <1> QED BY <1>2, <1>3, <1>4, CloseKeeps

\* Steps that write no session: what was recorded stays so, and a time that a row refers
\* to does not change.
LEMMA OtherStepsKeep ==
  ASSUME IInv, TypeOK', SubmissionsArePrompt', sessions' = sessions, audit' = audit,
         \A q \in Submissions : pc[q] \in {"recorded", "rejected"} => pc'[q] = pc[q] /\ at'[q] = at[q]
  PROVE  RowsInv'
  <1>1. RowsAreRecorded'
    BY DEF IInv, RowsInv, TypeOK, RowsAreRecorded, Rows
  <1>2. DurationsBounded'
    BY DEF IInv, RowsInv, RowsAreRecorded, DurationsBounded, Rows
  <1> QED BY <1>1, <1>2 DEF IInv, RowsInv

\* Every action keeps it.
LEMMA RowsKept ==
  ASSUME ReportConstantsOK, IInv, [Next]_vars  PROVE  RowsInv'
  <1>1. pc \in [Submissions -> {"new", "slow", "selected", "recorded", "rejected", "over"}]
    BY DEF IInv, RowsInv, TypeOK
  <1>2. ASSUME NEW r \in Submissions, NEW e \in Employees, NEW in \in BOOLEAN, Arrive(r, e, in)
        PROVE  RowsInv'
    <2>1. TypeOK'
      BY <1>2 DEF Arrive, Goto, IInv, RowsInv, TypeOK
    <2>2. SubmissionsArePrompt'
      BY <1>2 DEF Arrive, Goto, IInv, RowsInv, TypeOK, SubmissionsArePrompt, InFlight,
             ReportConstantsOK
    <2>3. \A q \in Submissions :
             pc[q] \in {"recorded", "rejected"} => pc'[q] = pc[q] /\ at'[q] = at[q]
      BY <1>1, <1>2 DEF Arrive, Goto, IInv, RowsInv, TypeOK
    <2> QED BY <1>2, <2>1, <2>2, <2>3, OtherStepsKeep DEF Arrive
  <1>7. ASSUME NEW r \in Submissions, Select(r)  PROVE RowsInv'
    <2>1. TypeOK'
      BY <1>7 DEF Select, OpenOf, Goto, IInv, RowsInv, TypeOK
    <2>2. SubmissionsArePrompt'
      BY <1>1, <1>7 DEF Select, Goto, IInv, RowsInv, SubmissionsArePrompt, InFlight
    <2> QED BY <1>1, <1>7, <2>1, <2>2, OtherStepsKeep DEF Select, Goto
  <1>3. ASSUME NEW r \in Submissions, Leave(r) \/ Abort(r)  PROVE RowsInv'
    <2>1. TypeOK'
      BY <1>3 DEF Leave, Abort, SaveCapture, Goto, locals, IInv, RowsInv, TypeOK
    <2>2. SubmissionsArePrompt'
      BY <1>1, <1>3 DEF Leave, Abort, Goto, locals, IInv, RowsInv, SubmissionsArePrompt, InFlight
    <2> QED BY <1>1, <1>3, <2>1, <2>2, OtherStepsKeep DEF Leave, Abort, Goto, locals, InFlight
  <1>4. ASSUME NEW k \in Keys \cup {None}, Restart(k)  PROVE RowsInv'
    <2>1. TypeOK'
      BY <1>4 DEF Restart, InFlight, locals, IInv, RowsInv, TypeOK
    <2>2. SubmissionsArePrompt'
      BY <1>1, <1>4 DEF Restart, locals, IInv, RowsInv, SubmissionsArePrompt, InFlight
    <2> QED BY <1>1, <1>4, <2>1, <2>2, OtherStepsKeep DEF Restart, InFlight, locals
  <1>5. CASE Tick
    <2>1. TypeOK'
      BY <1>5 DEF Tick, locals, IInv, RowsInv, TypeOK
    <2>2. SubmissionsArePrompt'
      BY <1>5 DEF Tick, locals, IInv, RowsInv, TypeOK, SubmissionsArePrompt, InFlight,
             ReportConstantsOK
    <2> QED BY <1>5, <2>1, <2>2, OtherStepsKeep DEF Tick, locals
  <1>6. CASE UNCHANGED vars
    BY <1>6 DEF vars, locals, IInv, RowsInv, TypeOK, SubmissionsArePrompt, InFlight,
           RowsAreRecorded, Rows, DurationsBounded
  <1> QED BY <1>2, <1>3, <1>4, <1>5, <1>6, <1>7, RecordsKeep DEF Next, Submit

\* What a submission found stays so until it commits: only its own role writes what it
\* depends on, and of a person and a role no other one has looked.
LEMMA FoundKept ==
  ASSUME ReportConstantsOK, IInv, [Next]_vars  PROVE  FoundHolds'
  <1>t. /\ sessions \in [Submissions -> SessionRow]
        /\ pc \in [Submissions -> {"new", "slow", "selected", "recorded", "rejected", "over"}]
        /\ emp \in [Submissions -> Employees \cup {None}]
        /\ checkIn \in [Submissions -> BOOLEAN]
        /\ found \in [Submissions -> Submissions \cup {None}]
    BY DEF IInv, RowsInv, TypeOK
  <1>1. ASSUME sessions' = sessions,
               \A q \in Submissions : pc'[q] = "selected" =>
                 /\ pc[q] = "selected" /\ emp'[q] = emp[q]
                 /\ checkIn'[q] = checkIn[q] /\ found'[q] = found[q]
        PROVE  FoundHolds'
    BY <1>1 DEF IInv, FoundHolds, OpenOf
  <1>2. ASSUME NEW r \in Submissions, Select(r)  PROVE FoundHolds'
    <2>1. /\ sessions' = sessions /\ emp' = emp /\ checkIn' = checkIn
          /\ \A q \in Submissions : pc'[q] = IF q = r THEN "selected" ELSE pc[q]
          /\ \A q \in Submissions : q # r => found'[q] = found[q]
      BY <1>2, <1>t DEF Select, Goto
    <2>2. found'[r] \in IF OpenOf(emp[r]) = {} THEN {None} ELSE OpenOf(emp[r])
      BY <1>2, <1>t DEF Select
    <2>3. None \notin OpenOf(emp[r])
      BY DEF OpenOf, ReportConstantsOK
    <2>4. \A q \in Submissions : pc[q] = "selected" /\ emp[q] = emp[r] => checkIn[q] # checkIn[r]
      BY <1>2 DEF Select
    <2>5. \A e : OpenOf(e)' = OpenOf(e)
      BY <2>1 DEF OpenOf
    <2> QED BY <1>t, <2>1, <2>2, <2>3, <2>4, <2>5 DEF IInv, FoundHolds
  <1>3. ASSUME NEW r \in Submissions, RecordOpen(r) \/ RecordAnomaly(r) \/ RecordClose(r)
        PROVE  FoundHolds'
    <2>1. /\ pc[r] = "selected"
          /\ \A q \in Submissions : pc'[q] = IF q = r THEN "recorded" ELSE pc[q]
          /\ emp' = emp /\ checkIn' = checkIn /\ found' = found
      BY <1>3, <1>t DEF RecordOpen, RecordAnomaly, RecordClose, Log, Goto, locals
    <2>2. ASSUME NEW q \in Submissions, pc'[q] = "selected"
          PROVE  pc[q] = "selected" /\ q # r /\ (emp[q] = emp[r] => checkIn[q] # checkIn[r])
      BY <2>1, <2>2 DEF IInv, FoundHolds
    <2>3. r \notin Rows
      BY <2>1 DEF IInv, RowsInv, RowsAreRecorded
    <2>4. ASSUME NEW q \in Submissions, pc'[q] = "selected"
          PROVE  IF checkIn[q] THEN found[q] = None => OpenOf(emp[q])' = {}
                               ELSE found[q] # None => found[q] \in OpenOf(emp[q])'
      <3>1. CASE RecordOpen(r)
        <4>1. /\ checkIn[r] /\ sessions'[r].status = "open" /\ sessions'[r].emp = emp[r]
              /\ \A s \in Submissions : s # r => sessions'[s] = sessions[s]
          BY <3>1, <1>t DEF RecordOpen
        <4> QED BY <1>t, <2>1, <2>2, <2>3, <2>4, <4>1 DEF IInv, FoundHolds, OpenOf, Rows
      <3>2. CASE RecordAnomaly(r)
        <4>1. /\ ~ checkIn[r] /\ sessions'[r].status = "anomaly"
              /\ \A s \in Submissions : s # r => sessions'[s] = sessions[s]
          BY <3>2, <1>t DEF RecordAnomaly
        <4> QED BY <1>t, <2>1, <2>2, <2>3, <2>4, <4>1 DEF IInv, FoundHolds, OpenOf, Rows
      <3>3. CASE RecordClose(r)
        <4>1. ~ checkIn[r] /\ found[r] \in OpenOf(emp[r])
          BY <3>3, <2>1 DEF RecordClose, IInv, FoundHolds
        <4>2. PICK s \in Submissions : s = found[r] /\ s \in OpenOf(emp[r])
          BY <4>1 DEF OpenOf
        <4>3. sessions' = [sessions EXCEPT ![s] = [sessions[s] EXCEPT !.status = "closed", !.out = r]]
          BY <3>3, <4>2, <1>t DEF RecordClose
        <4>4. /\ sessions'[s].status = "closed"
              /\ \A q1 \in Submissions : q1 # s => sessions'[q1] = sessions[q1]
          BY <1>t, <4>3 DEF SessionRow
        <4> QED BY <1>t, <2>1, <2>2, <2>4, <4>1, <4>2, <4>4 DEF IInv, FoundHolds, OpenOf
      <3> QED BY <1>3, <3>1, <3>2, <3>3
    <2>5. \A q1, q2 \in Submissions :
             pc'[q1] = "selected" /\ pc'[q2] = "selected" /\ emp[q1] = emp[q2]
               /\ checkIn[q1] = checkIn[q2] => q1 = q2
      BY <2>2 DEF IInv, FoundHolds
    <2> QED BY <2>1, <2>4, <2>5 DEF FoundHolds
  <1>4. ASSUME NEW r \in Submissions, NEW e \in Employees, NEW in \in BOOLEAN, Arrive(r, e, in)
        PROVE  FoundHolds'
    BY <1>1, <1>4, <1>t DEF Arrive, Goto
  <1>5. ASSUME NEW r \in Submissions,
               RecordDuplicate(r) \/ RecordRejection(r) \/ Leave(r) \/ Abort(r)
        PROVE  FoundHolds'
    BY <1>1, <1>5, <1>t DEF RecordDuplicate, RecordRejection, Log, Leave, Abort, Goto, locals
  <1>6. CASE (\E k \in Keys \cup {None} : Restart(k)) \/ Tick \/ UNCHANGED vars
    BY <1>1, <1>6, <1>t DEF Restart, InFlight, Tick, vars, locals
  <1> QED BY <1>2, <1>3, <1>4, <1>5, <1>6 DEF Next, Submit

\* Every action keeps the invariant.
LEMMA NextKeeps ==
  ASSUME ReportConstantsOK, IInv, [Next]_vars  PROVE  IInv'
  BY RowsKept, FoundKept DEF IInv

\* So it always holds.
LEMMA Inductive == ASSUME ReportConstantsOK  PROVE  Spec => []IInv
  <1>1. Init => IInv
    BY InitEstablishes
  <1>2. IInv /\ [Next]_vars => IInv'
    BY NextKeeps
  <1> QED BY <1>1, <1>2, PTL DEF Spec

\* Every variable of the reports stays in its type.
THEOREM TypeCorrect == ASSUME ReportConstantsOK  PROVE  Spec => []TypeOK
  BY Inductive, PTL DEF IInv, RowsInv

\* No session ends before it began by more than a submission takes, on whatever day.
THEOREM DurationsAreBounded == ASSUME ReportConstantsOK  PROVE  Spec => []DurationsBounded
  BY Inductive, PTL DEF IInv, RowsInv

\* Only a recording writes a session, and only its own or the one it closes.
LEMMA SessionsChangeByRecording ==
  ASSUME IInv, [Next]_vars
  PROVE  \/ sessions' = sessions
         \/ \E r \in Submissions : RecordOpen(r) \/ RecordAnomaly(r) \/ RecordClose(r)
  BY DEF Next, Submit, vars, locals, Arrive, Select, RecordDuplicate, RecordRejection, Leave, Abort,
         Restart, Tick

\* The history of a day that is over, and whose submissions are all answered, changes
\* only by check-outs of rows that were left open.
THEOREM SettledDaysAreFixed == ASSUME ReportConstantsOK  PROVE  Spec => SettledDaysKeepRows
  <1> DEFINE Fixed ==
        \A d \in Days : Settled(d) =>
          /\ History(None, d, d)' = History(None, d, d)
          /\ \A s \in History(None, d, d) :
               \/ sessions'[s] = sessions[s]
               \/ /\ sessions[s].status = "open" /\ sessions'[s].status = "closed"
                  /\ sessions'[s].in = sessions[s].in
  <1>1. ASSUME IInv, [Next]_vars  PROVE Fixed
    <2> SUFFICES ASSUME NEW d \in Days, Settled(d)
                 PROVE  /\ History(None, d, d)' = History(None, d, d)
                        /\ \A s \in History(None, d, d) :
                             \/ sessions'[s] = sessions[s]
                             \/ /\ sessions[s].status = "open" /\ sessions'[s].status = "closed"
                                /\ sessions'[s].in = sessions[s].in
      OBVIOUS
    <2>1. sessions \in [Submissions -> SessionRow]
      BY <1>1 DEF IInv, RowsInv, TypeOK
    <2>2. CASE sessions' = sessions
      BY <2>2 DEF History, Rows
    <2>3. ASSUME NEW r \in Submissions, RecordOpen(r) \/ RecordAnomaly(r)
          PROVE  /\ History(None, d, d)' = History(None, d, d)
                 /\ \A s \in History(None, d, d) : sessions'[s] = sessions[s]
      <3>1. pc[r] = "selected" /\ r \notin Rows
        BY <1>1, <2>3, LogKeeps DEF RecordOpen, RecordAnomaly
      <3>2. Day(at[r]) # d
        BY <3>1 DEF Settled, InFlight
      <3>3. sessions'[r].date = Day(at[r])
        BY <2>1, <2>3 DEF RecordOpen, RecordAnomaly
      <3>4. \A s \in Submissions : s # r => sessions'[s] = sessions[s]
        BY <2>1, <2>3 DEF RecordOpen, RecordAnomaly
      <3>5. Day(at[r]) \in Nat /\ d \in Int
        BY <1>1, DayIsNat DEF IInv, RowsInv, TypeOK, Days
      <3> QED BY <3>1, <3>2, <3>3, <3>4, <3>5 DEF History, Rows
    <2>4. ASSUME NEW r \in Submissions, RecordClose(r)
          PROVE  /\ History(None, d, d)' = History(None, d, d)
                 /\ \A q \in Submissions :
                      \/ sessions'[q] = sessions[q]
                      \/ /\ sessions[q].status = "open" /\ sessions'[q].status = "closed"
                         /\ sessions'[q].in = sessions[q].in
      <3>1. PICK s \in Submissions : s = found[r] /\ sessions[s].status = "open"
        BY <1>1, <2>4 DEF RecordClose, Log, Goto, IInv, FoundHolds, OpenOf
      <3>2. sessions' = [sessions EXCEPT ![s] = [sessions[s] EXCEPT !.status = "closed", !.out = r]]
        BY <2>1, <2>4, <3>1 DEF RecordClose
      <3>3. \A q \in Submissions : q # s => sessions'[q] = sessions[q]
        BY <2>1, <3>2
      <3>4. /\ sessions'[s].status = "closed" /\ sessions'[s].in = sessions[s].in
            /\ sessions'[s].date = sessions[s].date
        BY <2>1, <3>2 DEF SessionRow
      <3>5. History(None, d, d)' = History(None, d, d)
        BY <3>1, <3>3, <3>4 DEF History, Rows
      <3> QED BY <3>1, <3>3, <3>4, <3>5
    <2> QED BY <1>1, <2>2, <2>3, <2>4, SessionsChangeByRecording DEF History, Rows
  <1> QED BY <1>1, Inductive, PTL DEF Spec, SettledDaysKeepRows

\* A frame that can be opened stays so: it is never written again, and a key that was
\* not set before cannot be the one it is encrypted under.
THEOREM FramesStayOpen == ASSUME ReportConstantsOK  PROVE  Spec => FramesStayReadable
  <1> DEFINE Stay ==
        \A r \in Submissions :
          Capture(r) = "image" /\ setting \in {setting', None} => Capture(r)' = "image"
  <1>1. ASSUME IInv, [Next]_vars  PROVE Stay
    <2> SUFFICES ASSUME NEW r \in Submissions, Capture(r) = "image", setting \in {setting', None}
                 PROVE  Capture(r)' = "image"
      OBVIOUS
    <2>1. r \in audit /\ stored[r] # "missing"
          /\ (stored[r] = "plain" \/ (stored[r] # "plain" /\ stored[r] = setting))
      BY DEF Capture, ReadCapture
    <2>2. ~ InFlight(r)
      BY <1>1, <2>1 DEF IInv, RowsInv, RowsAreRecorded, InFlight
    <2>3. stored \in [Submissions -> Keys \cup {"missing", "plain"}]
      BY <1>1 DEF IInv, RowsInv, TypeOK
    <2>4. stored'[r] = stored[r] /\ r \in audit'
      BY <1>1, <2>1, <2>2, <2>3
         DEF Next, Submit, vars, locals, InFlight, Arrive, Select, Log, Goto, SaveCapture, RecordOpen,
             RecordDuplicate, RecordClose, RecordAnomaly, RecordRejection, Leave, Abort, Restart, Tick
    <2>5. stored[r] = "plain" \/ setting' = setting
      BY <2>1, <2>3 DEF ReportConstantsOK
    <2> QED BY <2>1, <2>4, <2>5 DEF Capture, ReadCapture
  <1> QED BY <1>1, Inductive, PTL DEF Spec, FramesStayReadable

\* ---- The headcount --------------------------------------------------------------------
\* People are matched before they are recorded; what is no row is blank, at most one row
\* of a person is open, and there are finitely many.
LedgerInv ==
  /\ \A r \in Submissions : InFlight(r) => emp[r] \in Employees
  /\ \A s \in Submissions : s \notin Rows => sessions[s] = Absent
  /\ \A s \in Submissions : sessions[s].status = "open" => sessions[s].emp \in Employees
  /\ \A s, t \in Submissions :
       sessions[s].status = "open" /\ sessions[t].status = "open" /\ sessions[s].emp = sessions[t].emp
         => s = t
  /\ IsFiniteSet(Rows)

\* A submission under way has a person.
LEMMA ComersAreKnown ==
  ASSUME IInv, LedgerInv, [Next]_vars, NEW r \in Submissions, InFlight(r)'
  PROVE  emp'[r] \in Employees
  <1> USE DEF InFlight, Goto, locals, IInv, RowsInv, LedgerInv, TypeOK
  <1>1. CASE \E q \in Submissions : Submit(q)
    BY <1>1 DEF Submit, Arrive, Select, RecordOpen, RecordDuplicate, RecordClose, RecordAnomaly,
                RecordRejection, Log, Leave, Abort
  <1>2. CASE (\E k \in Keys \cup {None} : Restart(k)) \/ Tick \/ UNCHANGED vars
    BY <1>2 DEF Restart, Tick, vars
  <1> QED BY <1>1, <1>2 DEF Next

\* Every action keeps it.
LEMMA LedgerInvKept ==
  ASSUME ReportConstantsOK, IInv, LedgerInv, [Next]_vars  PROVE LedgerInv'
  <1>t. sessions \in [Submissions -> SessionRow] /\ emp \in [Submissions -> Employees \cup {None}]
    BY DEF IInv, RowsInv, TypeOK
  <1>0. \A r \in Submissions : InFlight(r)' => emp'[r] \in Employees
    BY ComersAreKnown
  <1>1. CASE sessions' = sessions
    BY <1>0, <1>1 DEF LedgerInv, Rows
  <1>2. ASSUME NEW r \in Submissions, RecordOpen(r) \/ RecordAnomaly(r)  PROVE LedgerInv'
    <2>1. emp[r] \in Employees
      BY <1>2 DEF LedgerInv, RecordOpen, RecordAnomaly, Log, Goto, InFlight
    <2>2. PICK row : /\ sessions' = [sessions EXCEPT ![r] = row]
                     /\ (row.status = "open" /\ OpenOf(emp[r]) = {}) \/ row.status = "anomaly"
                     /\ row.emp = emp[r]
      <3>1. CASE RecordOpen(r)
        <4>1. PICK row : row = [status |-> "open", emp |-> emp[r], date |-> Day(at[r]), in |-> r, out |-> None]
          OBVIOUS
        <4>2. sessions' = [sessions EXCEPT ![r] = row] /\ OpenOf(emp[r]) = {}
          BY <3>1, <4>1 DEF RecordOpen, Log, Goto, IInv, FoundHolds
        <4>3. row.status = "open" /\ row.emp = emp[r]
          BY <4>1
        <4> QED BY <4>2, <4>3
      <3>2. CASE RecordAnomaly(r)
        <4>1. PICK row : row = [status |-> "anomaly", emp |-> emp[r], date |-> Day(at[r]), in |-> None, out |-> r]
          OBVIOUS
        <4>2. sessions' = [sessions EXCEPT ![r] = row]
          BY <3>2, <4>1 DEF RecordAnomaly
        <4>3. row.status = "anomaly" /\ row.emp = emp[r]
          BY <4>1
        <4> QED BY <4>2, <4>3
      <3> QED BY <1>2, <3>1, <3>2
    <2>3. \A s \in Submissions : sessions'[s] = IF s = r THEN row ELSE sessions[s]
      BY <1>t, <2>2
    <2>4. IsFiniteSet(Rows')
      <3>1. PICK is, was : is = Rows' /\ was = Rows
        OBVIOUS
      <3>2. is \in SUBSET (was \cup {r})
        BY <2>3, <3>1 DEF Rows
      <3>3. IsFiniteSet(was \cup {r})
        BY <3>1, FS_AddElement DEF LedgerInv
      <3>4. IsFiniteSet(is)
        BY <3>2, <3>3, FS_Subset
      <3> QED BY <3>1, <3>4
    <2>5. \A s \in Submissions : s \notin Rows' => sessions'[s] = Absent
      BY <2>2, <2>3 DEF LedgerInv, Rows
    <2>6. \A s \in Submissions : sessions'[s].status = "open" => sessions'[s].emp \in Employees
      BY <2>1, <2>2, <2>3 DEF LedgerInv
    <2>7. ASSUME NEW s \in Submissions, NEW q \in Submissions, sessions'[s].status = "open",
                 sessions'[q].status = "open", sessions'[s].emp = sessions'[q].emp
          PROVE  s = q
      BY <2>2, <2>3, <2>7 DEF LedgerInv, OpenOf
    <2> QED BY <1>0, <2>4, <2>5, <2>6, <2>7 DEF LedgerInv
  <1>3. ASSUME NEW r \in Submissions, RecordClose(r)  PROVE LedgerInv'
    <2>0. PICK s \in Submissions : s = found[r] /\ sessions[s].status = "open"
      BY <1>3 DEF RecordClose, Log, Goto, IInv, FoundHolds, OpenOf
    <2>1. sessions' = [sessions EXCEPT ![s] = [sessions[s] EXCEPT !.status = "closed", !.out = r]]
      BY <1>3, <1>t, <2>0 DEF RecordClose
    <2>2. /\ sessions'[s].status = "closed" /\ sessions[s].status = "open"
          /\ \A q \in Submissions : q # s => sessions'[q] = sessions[q]
      BY <1>t, <2>0, <2>1 DEF SessionRow
    <2>3. Rows' = Rows
      BY <2>2 DEF Rows
    <2>4. \A q \in Submissions : q \notin Rows' => sessions'[q] = Absent
      BY <2>2 DEF LedgerInv, Rows
    <2> QED BY <1>0, <2>2, <2>3, <2>4 DEF LedgerInv
  <1> QED BY <1>1, <1>2, <1>3, SessionsChangeByRecording

\* So it always holds.
LEMMA LedgerInductive == ASSUME ReportConstantsOK  PROVE  Spec => []LedgerInv
  <1>1. Init => LedgerInv
    <2> SUFFICES ASSUME Init  PROVE LedgerInv
      OBVIOUS
    <2>1. Rows = {} /\ \A s \in Submissions : sessions[s] = Absent /\ sessions[s].status = "absent"
      BY DEF Init, Rows, Absent
    <2> QED BY <2>1, FS_EmptySet DEF Init, LedgerInv, InFlight
  <1>2. IInv /\ LedgerInv /\ [Next]_vars => LedgerInv'
    BY LedgerInvKept
  <1> QED BY <1>1, <1>2, Inductive, PTL DEF Spec

\* The headcount is right about today's sessions: nobody is counted twice, and nobody is
\* missed but those whose session began on an earlier day.
THEOREM HeadcountIsExact == ASSUME ReportConstantsOK  PROVE  Spec => []HeadcountIsOfToday
  <1>1. IInv /\ LedgerInv => HeadcountIsOfToday
    <2> SUFFICES ASSUME IInv, LedgerInv  PROVE HeadcountIsOfToday
      OBVIOUS
    <2> DEFINE S == {s \in TodayRows : sessions[s].status = "open"}
               T == {e \in Employees : \E s \in OpenOf(e) : sessions[s].date = Today}
               f == [s \in S |-> sessions[s].emp]
    <2>1. S = {s \in Submissions : sessions[s].status = "open" /\ sessions[s].date = Today}
      <3>1. clock \in Nat /\ Today \in Nat
        BY DayIsNat DEF IInv, RowsInv, TypeOK, Today
      <3>2. \A s \in Submissions : sessions[s].date \in Nat
        BY DEF IInv, RowsInv, TypeOK, SessionRow
      <3> QED BY <3>1, <3>2 DEF TodayRows, History, Rows
    <2>2. IsFiniteSet(S)
      <3>1. PICK today, all : today = S /\ all = Rows
        OBVIOUS
      <3>2. IsFiniteSet(all) /\ today \in SUBSET all
        BY <2>1, <3>1 DEF LedgerInv, Rows
      <3> QED BY <3>1, <3>2, FS_Subset
    <2>3. f \in Bijection(S, T)
      <3>1. f \in [S -> T]
        BY <2>1 DEF LedgerInv, OpenOf
      <3>2. \A s, t \in S : f[s] = f[t] => s = t
        BY <2>1 DEF LedgerInv
      <3>3. \A e \in T : \E s \in S : f[s] = e
        BY <2>1 DEF OpenOf
      <3> HIDE DEF f, S, T
      <3> QED BY <3>1, <3>2, <3>3 DEF Bijection, Injection, Surjection, IsInjective
    <2>4. PICK counted, there : counted = S /\ there = T
      OBVIOUS
    <2>5. ExistsBijection(counted, there)
      BY <2>3, <2>4 DEF ExistsBijection
    <2>6. Cardinality(counted) = Cardinality(there)
      BY <2>2, <2>4, <2>5, FS_Bijection
    <2> QED BY <2>4, <2>6 DEF HeadcountIsOfToday, CurrentlyIn
  <1> QED BY <1>1, Inductive, LedgerInductive, PTL
================================================================================
