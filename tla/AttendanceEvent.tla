----------------------------- MODULE AttendanceEvent -----------------------------
(***************************************************************************)
(* POST /api/attendance/event and the state it shares with concurrent      *)
(* copies of itself: the sessions and the audit log in Postgres, the       *)
(* cooldown keys in Redis, captured frames on disk, and the broadcast to   *)
(* dashboards.  Its first await, rate_limited, is RateLimiter: here a      *)
(* submission is refused or goes on.                                       *)
(*                                                                         *)
(* One uvicorn process serves every kiosk.  The handler is a coroutine: it *)
(* runs from one await to the next without interruption, so each action is *)
(* what happens between two awaits.  A request's writes belong to its own  *)
(* transaction and show in `sessions` and `audit` only when it commits;    *)
(* the files and the Redis keys show at once and survive a rollback.       *)
(*                                                                         *)
(* A column copied from a request (check_in_at, check_in_device_id,        *)
(* check_in_confidence, ...) is modelled by the request it was copied from *)
(* and a row is identified by the request that inserted it.                *)
(***************************************************************************)
EXTENDS Integers

CONSTANTS
  Employees,        \* employee rows; also the subjects recognition can name
  Entrances, Exits, \* registered devices by role
  Requests,         \* submissions the kiosks may make
  None,             \* NULL
  Frames,           \* what submitted frames may show: "empty", "spoof",
                    \*   "stranger", "blurred" (below the threshold), "known"
  CooldownSeconds,  \* settings.cooldown_seconds, in clock units
  Prompt,           \* TRUE: a request leaves its transaction before its own
                    \*   cooldown key expires (30 s against one commit)
  MaxTime,          \* bound: last value of the clock
  MaxFaults,        \* bound: failed calls and crashes
  MaxEdits          \* bound: changes of an employee's `active`

ASSUME ConstantsOK ==
  /\ None \notin Employees \cup Requests \cup Entrances \cup Exits
  /\ Entrances \cap Exits = {}
  /\ CooldownSeconds \in Nat \ {0}
  /\ Prompt \in BOOLEAN
  /\ MaxTime \in Nat /\ MaxFaults \in Nat /\ MaxEdits \in Nat

VARIABLES
  clock,     \* server time
  active,    \* Employee.active
  sessions,  \* attendance_sessions, committed
  audit,     \* attendance_raw_events, committed
  lastSeen,  \* Device.last_seen_at, 0 for NULL
  captures,  \* requests whose frame was saved under data/captured
  cooldown,  \* when the key cooldown:<device>:<employee> expires
  feed,      \* requests whose event went out to the dashboards
  pc, dev, at, emp, found, reason, \* locals of each request
  faults, edits

db == <<sessions, audit, lastSeen, active>>
locals == <<dev, at, emp, found, reason>>
bounds == <<faults, edits>>
vars == <<clock, db, cooldown, captures, feed, pc, locals, bounds>>

Devices == Entrances \cup Exits
IsCheckIn(r) == dev[r] \in Entrances

\* Where a request can be.  The first line waits for an external service, the
\* second has its session open, the last is over.
Upstream == {"liveness", "recognition", "lookup", "cooldown"}
InTransaction == {"select", "flush", "commit"}
InFlight == Upstream \cup InTransaction \cup {"reject", "publish"}
Over == {"limited", "empty", "rejected", "swallowed", "recorded", "error", "lost"}

\* ---- Rows ------------------------------------------------------------------
SessionRow ==
  [status : {"absent", "open", "closed", "anomaly"},
   emp    : Employees \cup {None},
   in     : Requests \cup {None},
   out    : Requests \cup {None}]
Absent == [status |-> "absent", emp |-> None, in |-> None, out |-> None]
NoAudit == [reason |-> "absent", emp |-> None]

IsOpen(s) == sessions[s].status = "open"
OpenOf(e) == {s \in Requests : IsOpen(s) /\ sessions[s].emp = e}
\* A slip: rows of any status are taken.
NewestRow(e) == {s \in Requests : sessions[s].in # None /\ sessions[s].emp = e}
\* ORDER BY check_in_at DESC, first: the rows that may come first.
NewestOpen(e) == {s \in OpenOf(e) : \A t \in OpenOf(e) :
                                      at[sessions[t].in] <= at[sessions[s].in]}

Init ==
  /\ clock = 1
  /\ active = [e \in Employees |-> TRUE]
  /\ sessions = [r \in Requests |-> Absent]
  /\ audit = [r \in Requests |-> NoAudit]
  /\ lastSeen = [d \in Devices |-> 0]
  /\ captures = {}
  /\ cooldown = [d \in Devices |-> [e \in Employees |-> 0]]
  /\ feed = {}
  /\ pc = [r \in Requests |-> "new"]
  /\ dev = [r \in Requests |-> None]
  /\ at = [r \in Requests |-> 0]
  /\ emp = [r \in Requests |-> None]
  /\ found = [r \in Requests |-> None]
  /\ reason = [r \in Requests |-> "matched"]
  /\ faults = 0
  /\ edits = 0

Goto(r, from, to) == pc[r] = from /\ pc' = [pc EXCEPT ![r] = to]

\* ---- Arrival ---------------------------------------------------------------
\* A submission of device d is refused with 429, or its check of the limit failed and it is
\* answered 500: it has left nothing here.
Throttle(r, d) ==
  /\ Goto(r, "new", "limited")
  /\ dev' = [dev EXCEPT ![r] = d]
  /\ UNCHANGED <<clock, db, cooldown, captures, feed, at, emp, found, reason, bounds>>

\* Past the limiter `now` is read, before any verdict on the frame: an empty
\* frame is answered 400, any other goes to the liveness service.
Admit(r, d, to) ==
  /\ Goto(r, "new", to)
  /\ dev' = [dev EXCEPT ![r] = d]
  /\ at' = [at EXCEPT ![r] = clock]
  /\ UNCHANGED <<clock, db, cooldown, captures, feed, emp, found, reason, bounds>>

RefuseEmpty(r, d) == "empty" \in Frames /\ Admit(r, d, "empty")
Accept(r, d) == Admit(r, d, "liveness")

\* ---- Liveness and recognition ----------------------------------------------
PassLiveness(r) ==
  /\ Goto(r, "liveness", "recognition")
  /\ UNCHANGED <<clock, db, cooldown, captures, feed, locals, bounds>>

\* A refused frame is saved before the rejection is logged.
Refuse(r, from, why, whom) ==
  /\ Goto(r, from, "reject")
  /\ captures' = captures \cup {r}
  /\ reason' = [reason EXCEPT ![r] = why]
  /\ emp' = [emp EXCEPT ![r] = whom]
  /\ UNCHANGED <<clock, db, cooldown, feed, dev, at, found, bounds>>

FailLiveness(r) == "spoof" \in Frames /\ Refuse(r, "liveness", "liveness", None)

\* best_match names nobody, or a subject with a similarity that reaches the
\* threshold or not.
FindNobody(r) == "stranger" \in Frames /\ Refuse(r, "recognition", "unrecognized", None)

Recognize(r, e, similar) ==
  /\ Goto(r, "recognition", "lookup")
  /\ (IF similar THEN "known" ELSE "blurred") \in Frames
  /\ emp' = [emp EXCEPT ![r] = e]
  /\ reason' = [reason EXCEPT ![r] = IF similar THEN "matched" ELSE "low_confidence"]
  /\ UNCHANGED <<clock, db, cooldown, captures, feed, dev, at, found, bounds>>

\* The active employee of that subject, read once.
MatchEmployee(r) ==
  /\ Goto(r, "lookup", "cooldown")
  /\ active[emp[r]] /\ reason[r] = "matched"
  /\ UNCHANGED <<clock, db, cooldown, captures, feed, locals, bounds>>

FailMatch(r) ==
  \/ /\ Refuse(r, "lookup", "low_confidence", emp[r])
     /\ active[emp[r]] /\ reason[r] = "low_confidence"
  \/ /\ Refuse(r, "lookup", "unrecognized", None)
     /\ ~ active[emp[r]]

CommitReject(r) ==
  /\ Goto(r, "reject", "rejected")
  /\ audit' = [audit EXCEPT ![r] = [reason |-> reason[r], emp |-> emp[r]]]
  /\ UNCHANGED <<clock, sessions, lastSeen, active, cooldown, captures, feed, locals, bounds>>

\* ---- Cooldown: SET key NX EX -----------------------------------------------
\* A slip: SET without NX.
KeyOverwritten(d, e) == FALSE
KeyLives(d, e) == clock < cooldown[d][e]

Swallow(r) ==
  /\ Goto(r, "cooldown", "swallowed")
  /\ KeyLives(dev[r], emp[r])
  /\ UNCHANGED <<clock, db, cooldown, captures, feed, locals, bounds>>

\* A slip: SET without EX.
TakeCooldownForever(r) ==
  /\ Goto(r, "cooldown", "select")
  /\ cooldown' = [cooldown EXCEPT ![dev[r]][emp[r]] = None]
  /\ UNCHANGED <<clock, db, captures, feed, locals, bounds>>

\* A slip: the key forgets the employee.
TakeCooldownOfDevice(r) ==
  /\ Goto(r, "cooldown", "select")
  /\ ~ KeyLives(dev[r], emp[r])
  /\ cooldown' = [cooldown EXCEPT ![dev[r]] = [e \in Employees |-> clock + CooldownSeconds]]
  /\ UNCHANGED <<clock, db, captures, feed, locals, bounds>>

TakeCooldown(r) ==
  /\ Goto(r, "cooldown", "select")
  /\ ~ KeyLives(dev[r], emp[r])
  /\ cooldown' = [cooldown EXCEPT ![dev[r]][emp[r]] = clock + CooldownSeconds]
  /\ UNCHANGED <<clock, db, captures, feed, locals, bounds>>

\* ---- Business rules: SELECT, then INSERT or UPDATE, then COMMIT -------------
\* What the SELECT finds is all the handler will know.  A check-in that finds an
\* open row writes none: its frame is saved and only the log is left to commit.
SelectDuplicate(r, s) ==
  /\ Goto(r, "select", "commit")
  /\ IsCheckIn(r) /\ s \in NewestOpen(emp[r])
  /\ found' = [found EXCEPT ![r] = s]
  /\ captures' = captures \cup {r}
  /\ UNCHANGED <<clock, db, cooldown, feed, dev, at, emp, reason, bounds>>

\* A slip: the query forgets the employee.
SelectAnyToClose(r, s) ==
  /\ Goto(r, "select", "flush")
  /\ ~ IsCheckIn(r) /\ IsOpen(s)
  /\ found' = [found EXCEPT ![r] = s]
  /\ UNCHANGED <<clock, db, cooldown, captures, feed, dev, at, emp, reason, bounds>>

SelectToClose(r, s) ==
  /\ Goto(r, "select", "flush")
  /\ ~ IsCheckIn(r) /\ s \in NewestOpen(emp[r])
  /\ found' = [found EXCEPT ![r] = s]
  /\ UNCHANGED <<clock, db, cooldown, captures, feed, dev, at, emp, reason, bounds>>

\* A slip: a row is inserted without looking for an open one.
InsertUnasked(r) ==
  /\ Goto(r, "select", "flush")
  /\ found' = [found EXCEPT ![r] = None]
  /\ UNCHANGED <<clock, db, cooldown, captures, feed, dev, at, emp, reason, bounds>>

SelectNone(r) ==
  /\ Goto(r, "select", "flush")
  /\ OpenOf(emp[r]) = {}
  /\ found' = [found EXCEPT ![r] = None]
  /\ UNCHANGED <<clock, db, cooldown, captures, feed, dev, at, emp, reason, bounds>>

\* The flush of an UPDATE waits for the transaction that holds the row's lock;
\* under READ COMMITTED it then writes over what that one wrote.
RowLocked(s, r) ==
  \E q \in Requests \ {r} : pc[q] = "commit" /\ ~ IsCheckIn(q) /\ found[q] = s

\* Slips: the frame is not saved; the event goes out before the commit; the UPDATE is
\* tried again until it finds the row open.
FlushWithoutCapture(r) ==
  /\ Goto(r, "flush", "commit")
  /\ found[r] # None => ~ RowLocked(found[r], r)
  /\ UNCHANGED <<clock, db, cooldown, captures, feed, locals, bounds>>

FlushAndPublish(r) ==
  /\ Goto(r, "flush", "commit")
  /\ found[r] # None => ~ RowLocked(found[r], r)
  /\ captures' = captures \cup {r}
  /\ feed' = feed \cup {r}
  /\ UNCHANGED <<clock, db, cooldown, locals, bounds>>

FlushUntilOpen(r) ==
  /\ Goto(r, "flush", "commit")
  /\ found[r] # None => ~ RowLocked(found[r], r) /\ IsOpen(found[r])
  /\ captures' = captures \cup {r}
  /\ UNCHANGED <<clock, db, cooldown, feed, locals, bounds>>

Flush(r) ==
  /\ Goto(r, "flush", "commit")
  /\ found[r] # None => ~ RowLocked(found[r], r)
  /\ captures' = captures \cup {r}
  /\ UNCHANGED <<clock, db, cooldown, feed, locals, bounds>>

\* A slip: only rejections are logged.
CommitUnlogged(r) ==
  /\ Goto(r, "commit", "publish")
  /\ lastSeen' = [lastSeen EXCEPT ![dev[r]] = at[r]]
  /\ UNCHANGED <<clock, audit, active, cooldown, captures, feed, locals, bounds>>

\* What every accepted submission commits besides its row.
CommitLog(r) ==
  /\ Goto(r, "commit", "publish")
  /\ audit' = [audit EXCEPT ![r] = [reason |-> "matched", emp |-> emp[r]]]
  /\ lastSeen' = [lastSeen EXCEPT ![dev[r]] = at[r]]
  /\ UNCHANGED <<clock, active, cooldown, captures, feed, locals, bounds>>

CommitOpen(r) ==
  /\ CommitLog(r)
  /\ IsCheckIn(r) /\ found[r] = None
  /\ sessions' = [sessions EXCEPT ![r] =
                    [status |-> "open", emp |-> emp[r], in |-> r, out |-> None]]

\* A slip: a duplicate check-in moves check_in_at.
CommitDuplicateMoves(r) ==
  /\ CommitLog(r)
  /\ IsCheckIn(r) /\ found[r] # None
  /\ sessions' = [sessions EXCEPT ![found[r]].in = r]

CommitDuplicate(r) ==
  /\ CommitLog(r)
  /\ IsCheckIn(r) /\ found[r] # None
  /\ UNCHANGED sessions

CommitClose(r) ==
  /\ CommitLog(r)
  /\ ~ IsCheckIn(r) /\ found[r] # None
  /\ sessions' = [sessions EXCEPT ![found[r]].status = "closed", ![found[r]].out = r]

\* A slip: a check-out with nothing to close leaves no row.
CommitAnomalyUnfiled(r) ==
  /\ CommitLog(r)
  /\ ~ IsCheckIn(r) /\ found[r] = None
  /\ UNCHANGED sessions

CommitAnomaly(r) ==
  /\ CommitLog(r)
  /\ ~ IsCheckIn(r) /\ found[r] = None
  /\ sessions' = [sessions EXCEPT ![r] =
                    [status |-> "anomaly", emp |-> emp[r], in |-> None, out |-> r]]

\* Broadcast, then the answer.
Publish(r) ==
  /\ Goto(r, "publish", "recorded")
  /\ feed' = feed \cup {r}
  /\ UNCHANGED <<clock, db, cooldown, captures, locals, bounds>>

\* ---- Faults ----------------------------------------------------------------
Fault == faults < MaxFaults /\ faults' = faults + 1

\* An awaited call raises (an error status, a timeout, a lost connection): the
\* session is closed without a commit and the answer is a 500.  Files and
\* Redis keys written so far stay.  Publishing catches every exception.
Abort(r) ==
  /\ Fault
  /\ pc[r] \in InFlight \ {"publish"}
  /\ pc' = [pc EXCEPT ![r] = "error"]
  /\ UNCHANGED <<clock, db, cooldown, captures, feed, locals, edits>>

\* The process dies with every request in it; what was committed but not yet
\* broadcast is never broadcast.
Crash ==
  /\ Fault
  /\ \E r \in Requests : pc[r] \in InFlight
  /\ pc' = [r \in Requests |-> CASE pc[r] = "publish" -> "lost"
                                 [] pc[r] \in InFlight \ {"publish"} -> "error"
                                 [] OTHER -> pc[r]]
  /\ UNCHANGED <<clock, db, cooldown, captures, feed, locals, edits>>

\* ---- The rest of the system, as far as this state sees it --------------------
Heartbeat(d) ==
  /\ lastSeen' = [lastSeen EXCEPT ![d] = clock]
  /\ UNCHANGED <<clock, sessions, audit, active, cooldown, captures, feed, pc, locals, bounds>>

\* An admin's PATCH of `active`.
SetActive(e) ==
  /\ edits < MaxEdits /\ edits' = edits + 1
  /\ active' = [active EXCEPT ![e] = ~ @]
  /\ UNCHANGED <<clock, sessions, audit, lastSeen, cooldown, captures, feed, pc, locals, faults>>

Tick ==
  /\ clock < MaxTime
  /\ Prompt => \A r \in Requests :
                 pc[r] \in InTransaction => clock + 1 < cooldown[dev[r]][emp[r]]
  /\ clock' = clock + 1
  /\ UNCHANGED <<db, cooldown, captures, feed, pc, locals, bounds>>

\* ---- Specification -----------------------------------------------------------
Arrive(r) == \E d \in Devices : Throttle(r, d) \/ RefuseEmpty(r, d) \/ Accept(r, d)

Judge(r) ==
  \/ PassLiveness(r) \/ FailLiveness(r) \/ FindNobody(r)
  \/ \E e \in Employees, similar \in BOOLEAN : Recognize(r, e, similar)
  \/ MatchEmployee(r) \/ FailMatch(r) \/ CommitReject(r)

Record(r) ==
  \/ Swallow(r) \/ TakeCooldown(r)
  \/ \E s \in Requests : SelectDuplicate(r, s) \/ SelectToClose(r, s)
  \/ SelectNone(r) \/ Flush(r)
  \/ CommitOpen(r) \/ CommitDuplicate(r) \/ CommitClose(r) \/ CommitAnomaly(r)
  \/ Publish(r)

Next ==
  \/ \E r \in Requests : Arrive(r) \/ Judge(r) \/ Record(r) \/ Abort(r)
  \/ Crash
  \/ \E d \in Devices : Heartbeat(d)
  \/ \E e \in Employees : SetActive(e)
  \/ Tick

Spec == Init /\ [][Next]_vars

\* Every awaited call returns or raises (30 s timeouts in the HTTP clients, a
\* commit or a rollback in the database), the event loop runs every coroutine
\* that can go on, and time passes.
Fairness == WF_vars(Tick) /\ \A r \in Requests : WF_vars(Judge(r) \/ Record(r))

FairSpec == Spec /\ Fairness

\* ---- Properties --------------------------------------------------------------
\* Every variable stays in its type.
TypeOK ==
  /\ clock \in Nat \ {0}
  /\ active \in [Employees -> BOOLEAN]
  /\ sessions \in [Requests -> SessionRow]
  /\ audit \in [Requests ->
       [reason : {"absent", "matched", "liveness", "low_confidence", "unrecognized"},
        emp : Employees \cup {None}]]
  /\ lastSeen \in [Devices -> Nat]
  /\ captures \subseteq Requests
  /\ cooldown \in [Devices -> [Employees -> Nat]]
  /\ feed \subseteq Requests
  /\ pc \in [Requests -> {"new"} \cup InFlight \cup Over]
  /\ dev \in [Requests -> Devices \cup {None}]
  /\ at \in [Requests -> Nat]
  /\ emp \in [Requests -> Employees \cup {None}]
  /\ found \in [Requests -> Requests \cup {None}]
  /\ reason \in [Requests -> {"matched", "liveness", "low_confidence", "unrecognized"}]
  /\ faults \in Nat /\ edits \in Nat

\* An employee has at most one open session (apply_checkin's "already checked in
\* and not yet out -> duplicate / no-op"), however many check-ins race between
\* the SELECT and the COMMIT.
OneOpenSession ==
  \A s, t \in Requests :
    IsOpen(s) /\ IsOpen(t) /\ sessions[s].emp = sessions[t].emp => s = t

\* A closed or anomalous row is never written again: a check-out closes the open
\* one (apply_checkout), not one that another check-out closed meanwhile.
FinishedRowsStay ==
  [][\A s \in Requests : sessions[s].status \in {"closed", "anomaly"}
                           => sessions'[s] = sessions[s]]_vars

\* Whoever a row's columns were copied from is logged, as a match of the row's
\* employee, at a device of the right role: row and log commit together.
RowsAreLogged ==
  \A s \in Requests : \A r \in {sessions[s].in, sessions[s].out} \ {None} :
    /\ audit[r] = [reason |-> "matched", emp |-> sessions[s].emp]
    /\ IF r = sessions[s].in THEN dev[r] \in Entrances ELSE dev[r] \in Exits

\* Conversely every logged check-out stands on a row, and every logged check-in
\* opened a row or found one of the same person: no row loses what was logged.
LogsHaveRows ==
  \A r \in Requests : audit[r].reason = "matched" =>
    IF IsCheckIn(r)
    THEN \E s \in Requests : sessions[s].in # None /\ sessions[s].emp = audit[r].emp
    ELSE \E s \in Requests : sessions[s].out = r

\* While a submission's transaction is open no other one of the same person on
\* the same device has its own open: the cooldown key is their lock (as long as
\* it outlives the transaction, Prompt).
OneTransactionPerKey ==
  \A r, q \in Requests :
    /\ pc[r] \in InTransaction /\ pc[q] \in InTransaction
    /\ dev[r] = dev[q] /\ emp[r] = emp[q]
    => r = q

\* A logged frame can be opened: GET /capture finds the file of every row of the
\* review queue.  Frames are written before the commit that refers to them, so one
\* that no row refers to is of a submission still under way or of one that failed.
FramesMatchLog ==
  /\ \A r \in Requests : audit[r].reason # "absent" => r \in captures
  /\ \A r \in captures : audit[r].reason # "absent" \/ pc[r] \in {"reject", "commit", "error"}

\* Dashboards hear only of what is committed, and a device is answered
\* "recorded" only after both.
FeedIsCommitted ==
  /\ \A r \in feed : audit[r].reason = "matched"
  /\ \A r \in Requests : pc[r] = "recorded" => r \in feed

\* Every submission is answered, whatever it waits for: the services, another
\* request's row lock, or the database.
EventuallyAnswered == \A r \in Requests : (pc[r] \in InFlight) ~> (pc[r] \in Over)

\* A claim the code does not keep: whoever is told "Already registered a moment ago"
\* was registered on that device, or is being registered by a submission still in
\* its transaction ("swallow rapid re-triggers of the same person on this device").
SwallowedIsRegistered ==
  \A r \in Requests : pc[r] = "swallowed" =>
    \E q \in Requests :
      /\ dev[q] = dev[r] /\ emp[q] = emp[r]
      /\ audit[q].reason = "matched" \/ pc[q] \in InTransaction

\* As long as no call fails and the process lives it is kept, however slow the commit
\* is and however often a kiosk asks: the keys of Redis tell what the log will say.
SwallowedWithoutFaults == faults = 0 => SwallowedIsRegistered

\* The sessions implement the ledger.
Ledger == INSTANCE SessionLedger WITH Rows <- Requests
ImplementsLedger == Ledger!Spec

\* With any number of doors they implement what is left of it per door.
Stamp(r) == IF r = None THEN None ELSE <<r, dev[r]>>
DoorRows ==
  [s \in Requests |-> [status |-> sessions[s].status, emp |-> sessions[s].emp,
                       in |-> Stamp(sessions[s].in), out |-> Stamp(sessions[s].out)]]
PerDoor == INSTANCE DoorLedger WITH Rows <- Requests, sessions <- DoorRows
ImplementsDoorLedger == PerDoor!Spec

\* ---- The inductive invariant -------------------------------------------------
\* A request knows its device once it is admitted, and its employee once one is
\* recognized.
KnowsItself ==
  \A r \in Requests :
    /\ pc[r] \in InFlight => dev[r] \in Devices
    /\ pc[r] \in InTransaction \cup {"lookup", "cooldown"} => emp[r] \in Employees

\* Whoever is in its transaction holds a live cooldown key.
KeyIsHeld ==
  \A r \in Requests : pc[r] \in InTransaction => KeyLives(dev[r], emp[r])

\* A row appears with its request's commit.
RowsAppearAtCommit ==
  \A r \in Requests :
    sessions[r] # Absent => pc[r] \in {"publish", "recorded", "lost"}

\* What a SELECT found is a row of its employee's that a check-in opened.
FoundIsTheirs ==
  \A r \in Requests : pc[r] \in {"flush", "commit"} /\ found[r] # None =>
    /\ sessions[found[r]].status \in {"open", "closed"}
    /\ sessions[found[r]].emp = emp[r]

\* What the SELECT of a check-in found absent is still absent.
NothingFoundNothingOpen ==
  \A r \in Requests :
    pc[r] \in {"flush", "commit"} /\ IsCheckIn(r) /\ found[r] = None
      => OpenOf(emp[r]) = {}

\* What the SELECT of a check-out found open is still open.
FoundIsOpen ==
  \A r \in Requests :
    pc[r] \in {"flush", "commit"} /\ ~ IsCheckIn(r) /\ found[r] # None
      => IsOpen(found[r])

\* Whoever took a cooldown key was registered, is being registered, or failed.
TookKey(q, d, e) ==
  /\ dev[q] = d /\ emp[q] = e
  /\ audit[q].reason = "matched" \/ pc[q] \in InTransaction \cup {"error"}

KeysHaveTakers ==
  \A d \in Devices, e \in Employees :
    cooldown[d][e] # 0 => \E q \in Requests : TookKey(q, d, e)

\* With one entrance, one exit and prompt commits all of it is inductive: the
\* cooldown key makes SELECT and COMMIT one step as far as others can tell.
PipelineInvariant ==
  /\ KnowsItself /\ KeyIsHeld /\ OneTransactionPerKey
  /\ RowsAppearAtCommit /\ FoundIsTheirs /\ NothingFoundNothingOpen /\ FoundIsOpen
  /\ KeysHaveTakers
================================================================================
