--------------------------------- MODULE Reports ---------------------------------
(***************************************************************************)
(* What admins read: the headcount of today, the history of a day, and the *)
(* captured frame of a submission, over days, slow submissions and         *)
(* restarts with another encryption key.                                   *)
(*                                                                         *)
(* A submission reads the clock on arrival, looks for an open session      *)
(* later, and commits later still, on another day perhaps.  There is one   *)
(* entrance and one exit, so that the cooldown key lets one submission of  *)
(* a person and a role at a time look and commit.  A row's columns are the *)
(* submissions they were copied from, and a row is named by the submission *)
(* that inserted it.                                                       *)
(***************************************************************************)
EXTENDS Integers, FiniteSets

CONSTANTS
  Employees, Submissions,
  Keys,       \* values of IMAGE_ENCRYPTION_KEY
  None,       \* no key; NULL
  DayLength,  \* clock units in a day
  Latency,    \* longest time from a submission's arrival to its commit
  MaxTime,    \* bound: last value of the clock
  MaxRestarts \* bound: restarts of the backend

\* What is assumed of them.
ReportConstantsOK ==
  /\ None \notin Keys \cup Submissions \cup Employees
  /\ DayLength \in Nat \ {0} /\ Latency \in Nat
  /\ MaxTime \in Nat /\ MaxRestarts \in Nat

VARIABLES
  clock,
  setting,  \* IMAGE_ENCRYPTION_KEY of the running backend
  sessions, \* attendance_sessions
  audit,    \* submissions with a row in attendance_raw_events
  stored,   \* submission -> how its frame lies on disk: "missing", "plain", or
            \*   the key it is encrypted under
  pc, emp, checkIn, at, \* locals of a submission
  found,    \* the open session it read; None: no row
  restarts

locals == <<emp, checkIn, at, found>>
vars == <<clock, setting, sessions, audit, stored, pc, locals, restarts>>

Day(t) == t \div DayLength
Today == Day(clock)
Days == 0..Day(MaxTime)

SessionRow ==
  [status : {"absent", "open", "closed", "anomaly"}, emp : Employees \cup {None},
   date : Nat, in : Submissions \cup {None}, out : Submissions \cup {None}]
Absent == [status |-> "absent", emp |-> None, date |-> 0, in |-> None, out |-> None]
OpenOf(e) == {s \in Submissions : sessions[s].status = "open" /\ sessions[s].emp = e}
InFlight(r) == pc[r] \in {"slow", "selected"}

Init ==
  /\ clock = 1
  /\ setting \in Keys \cup {None}
  /\ sessions = [r \in Submissions |-> Absent]
  /\ audit = {}
  /\ stored = [r \in Submissions |-> "missing"]
  /\ pc = [r \in Submissions |-> "new"]
  /\ emp = [r \in Submissions |-> None]
  /\ checkIn = [r \in Submissions |-> FALSE]
  /\ at = [r \in Submissions |-> 0]
  /\ found = [r \in Submissions |-> None]
  /\ restarts = 0

Goto(r, from, to) == pc[r] = from /\ pc' = [pc EXCEPT ![r] = to]

\* ---- Submissions -----------------------------------------------------------------
\* A slip: the time is the kiosk's, that of a frame that lay in its queue.
ArriveBackdated(r, e, in) ==
  /\ Goto(r, "new", "slow")
  /\ emp' = [emp EXCEPT ![r] = e]
  /\ checkIn' = [checkIn EXCEPT ![r] = in]
  /\ at' \in {[at EXCEPT ![r] = t] : t \in 1..clock}
  /\ UNCHANGED <<clock, setting, sessions, audit, stored, found, restarts>>

Arrive(r, e, in) ==
  /\ Goto(r, "new", "slow")
  /\ emp' = [emp EXCEPT ![r] = e]
  /\ checkIn' = [checkIn EXCEPT ![r] = in]
  /\ at' = [at EXCEPT ![r] = clock]
  /\ UNCHANGED <<clock, setting, sessions, audit, stored, found, restarts>>

\* It takes the cooldown key and looks for an open session: another one of this person
\* that did so at the same door holds the key until it commits.
Select(r) ==
  /\ Goto(r, "slow", "selected")
  /\ \A q \in Submissions :
       pc[q] = "selected" /\ emp[q] = emp[r] => checkIn[q] # checkIn[r]
  /\ found' \in {[found EXCEPT ![r] = s] :
                   s \in IF OpenOf(emp[r]) = {} THEN {None} ELSE OpenOf(emp[r])}
  /\ UNCHANGED <<clock, setting, sessions, audit, stored, emp, checkIn, at, restarts>>

\* The frame goes to disk under the running backend's key, the log row refers to it.
SaveCapture(r) ==
  stored' = [stored EXCEPT ![r] = IF setting = None THEN "plain" ELSE setting]

Log(r, from, to) ==
  /\ Goto(r, from, to)
  /\ SaveCapture(r)
  /\ audit' = audit \cup {r}
  /\ UNCHANGED <<clock, setting, locals, restarts>>

\* What is committed was decided by what was found: another door may have opened or
\* closed a session meanwhile.
RecordOpen(r) ==
  /\ Log(r, "selected", "recorded")
  /\ checkIn[r] /\ found[r] = None
  /\ sessions' = [sessions EXCEPT ![r] =
       [status |-> "open", emp |-> emp[r], date |-> Day(at[r]), in |-> r, out |-> None]]

RecordDuplicate(r) ==
  /\ Log(r, "selected", "recorded")
  /\ checkIn[r] /\ found[r] # None
  /\ UNCHANGED sessions

\* A slip: the session moves to the day of its check-out.
RecordCloseToday(r) ==
  /\ Log(r, "selected", "recorded")
  /\ ~ checkIn[r] /\ found[r] # None
  /\ sessions' = [sessions EXCEPT ![found[r]].status = "closed", ![found[r]].out = r,
                                  ![found[r]].date = Day(at[r])]

RecordClose(r) ==
  /\ Log(r, "selected", "recorded")
  /\ ~ checkIn[r] /\ found[r] # None
  /\ sessions' = [sessions EXCEPT ![found[r]].status = "closed", ![found[r]].out = r]

RecordAnomaly(r) ==
  /\ Log(r, "selected", "recorded")
  /\ ~ checkIn[r] /\ found[r] = None
  /\ sessions' = [sessions EXCEPT ![r] =
       [status |-> "anomaly", emp |-> emp[r], date |-> Day(at[r]), in |-> None, out |-> r]]

\* Refused by liveness or recognition: logged, with its frame.
RecordRejection(r) == Log(r, "slow", "rejected") /\ UNCHANGED sessions

\* Swallowed by the cooldown, or failed before anything was written.
Leave(r) ==
  /\ InFlight(r) /\ Goto(r, pc[r], "over")
  /\ UNCHANGED <<clock, setting, sessions, audit, stored, locals, restarts>>

\* The transaction fails after the frame was written.
Abort(r) ==
  /\ InFlight(r) /\ Goto(r, pc[r], "over")
  /\ SaveCapture(r)
  /\ UNCHANGED <<clock, setting, sessions, audit, locals, restarts>>

\* ---- Restarts and time ---------------------------------------------------------------
\* The backend starts again with this key or without one; what was in flight is lost.
Restart(k) ==
  /\ restarts < MaxRestarts /\ restarts' = restarts + 1
  /\ setting' = k
  /\ pc' = [r \in Submissions |-> IF InFlight(r) THEN "over" ELSE pc[r]]
  /\ UNCHANGED <<clock, sessions, audit, stored, locals>>

Tick ==
  /\ clock < MaxTime
  /\ \A r \in Submissions : InFlight(r) => clock < at[r] + Latency
  /\ clock' = clock + 1
  /\ UNCHANGED <<setting, sessions, audit, stored, pc, locals, restarts>>

\* ---- Specification ---------------------------------------------------------------------
Submit(r) ==
  \/ \E e \in Employees, in \in BOOLEAN : Arrive(r, e, in)
  \/ Select(r)
  \/ RecordOpen(r) \/ RecordDuplicate(r) \/ RecordClose(r) \/ RecordAnomaly(r)
  \/ RecordRejection(r)
  \/ Leave(r) \/ Abort(r)

Next ==
  \/ \E r \in Submissions : Submit(r)
  \/ \E k \in Keys \cup {None} : Restart(k)
  \/ Tick

Spec == Init /\ [][Next]_vars

\* ---- The reports -------------------------------------------------------------------------
Rows == {s \in Submissions : sessions[s].status # "absent"}

\* GET /history and /export: the rows of an employee, or of all, from one day to another.
History(e, from, to) ==
  {s \in Rows : (e # None => sessions[s].emp = e) /\ sessions[s].date \in from..to}

\* GET /today.
TodayRows == History(None, Today, Today)
CurrentlyIn == Cardinality({s \in TodayRows : sessions[s].status = "open"})

\* A slip: whether to decrypt is decided by the setting, not by the file.
ReadBySetting(r) ==
  CASE stored[r] = "missing" -> "404"
    [] setting = None -> IF stored[r] = "plain" THEN "image" ELSE "noise"
    [] OTHER -> IF stored[r] = setting THEN "image" ELSE "500"

\* The file's suffix tells whether it is encrypted; without the key, or with another
\* one, reading it raises.
ReadCapture(r) ==
  CASE stored[r] = "missing" -> "404"
    [] stored[r] = "plain" -> "image"
    [] OTHER -> IF stored[r] = setting THEN "image" ELSE "500"

\* GET /capture/{event_id}.
Capture(r) == IF r \in audit THEN ReadCapture(r) ELSE "404"

\* ---- Properties --------------------------------------------------------------------------
TypeOK ==
  /\ clock \in Nat
  /\ setting \in Keys \cup {None}
  /\ sessions \in [Submissions -> SessionRow]
  /\ audit \subseteq Submissions
  /\ stored \in [Submissions -> Keys \cup {"missing", "plain"}]
  /\ pc \in [Submissions -> {"new", "slow", "selected", "recorded", "rejected", "over"}]
  /\ emp \in [Submissions -> Employees \cup {None}]
  /\ checkIn \in [Submissions -> BOOLEAN]
  /\ at \in [Submissions -> Nat]
  /\ found \in [Submissions -> Submissions \cup {None}]
  /\ restarts \in Nat

\* No day that is over, and whose submissions are all answered, gains or loses a row
\* in the history or the export: from then on the only change is that a check-out
\* closes a row that was left open, and that row keeps its check-in.
Settled(d) == d < Today /\ \A r \in Submissions : InFlight(r) => Day(at[r]) # d

SettledDaysKeepRows ==
  [][\A d \in Days : Settled(d) =>
       /\ History(None, d, d)' = History(None, d, d)
       /\ \A s \in History(None, d, d) :
            \/ sessions'[s] = sessions[s]
            \/ /\ sessions[s].status = "open" /\ sessions'[s].status = "closed"
               /\ sessions'[s].in = sessions[s].in]_vars

\* A session never lasts a negative time by more than the longest submission takes:
\* a check-out that overtook the check-in it closes was under way while it committed.
DurationsBounded ==
  \A s \in Rows : sessions[s].status = "closed" =>
    at[sessions[s].in] <= at[sessions[s].out] + Latency

\* A frame an admin can open stays openable whatever is submitted, and across restarts
\* that keep the key or turn encryption on.
FramesStayReadable ==
  [][\A r \in Submissions :
       Capture(r) = "image" /\ setting \in {setting', None} => Capture(r)' = "image"]_vars

\* What the headcount counts: the people whose open session began today, each once.
HeadcountIsOfToday ==
  CurrentlyIn = Cardinality({e \in Employees : \E s \in OpenOf(e) : sessions[s].date = Today})

\* ---- The inductive invariant behind them -----------------------------------------------
\* No submission is older than it may get.
SubmissionsArePrompt ==
  \A r \in Submissions :
    /\ at[r] <= clock
    /\ InFlight(r) => clock <= at[r] + Latency

\* What is logged, or is a column of a session, was recorded: nothing is from a
\* submission that has yet to arrive or to commit.
RowsAreRecorded ==
  /\ \A r \in audit : pc[r] \in {"recorded", "rejected"}
  /\ \A s \in Rows :
       /\ pc[s] = "recorded"
       /\ sessions[s].status \in {"open", "closed"} => sessions[s].in = s
       /\ sessions[s].status = "closed" =>
            sessions[s].out \in Submissions /\ pc[sessions[s].out] = "recorded"

\* Of a person and a role one submission at a time has looked and not committed; what a
\* check-in found missing is missing, and what a check-out found open is open, until then.
FoundHolds ==
  /\ \A r, q \in Submissions :
       pc[r] = "selected" /\ pc[q] = "selected" /\ emp[r] = emp[q] /\ checkIn[r] = checkIn[q]
         => r = q
  /\ \A r \in Submissions : pc[r] = "selected" =>
       IF checkIn[r] THEN found[r] = None => OpenOf(emp[r]) = {}
                     ELSE found[r] # None => found[r] \in OpenOf(emp[r])

\* ---- A claim ----------------------------------------------------------------------------
\* A claim the code does not keep: the "current in-office headcount" is the number of
\* people whose session is open, whatever the time of day.
HeadcountIsWhoIsIn ==
  CurrentlyIn = Cardinality({e \in Employees : OpenOf(e) # {}})
================================================================================
