# A specification of the office face-attendance system

Two or more phones run as fixed kiosks at the doors of an office.  A kiosk
captures a face, the backend judges whether it is live and whose it is, opens or
closes an attendance session, and tells the dashboards.  These TLA+ modules model
that program: what its concurrent requests, its three stores without a common
transaction, its offline queue, its clocks and its restarts may do to each other.
TLC checks them on small instances; TLAPS proves every safety property the runs check for
any number of people, doors, submissions, admins, frames and sockets.

Paths below are relative to the repository root; `attendance.py`, `employees.py`
and `devices.py` are in `backend/app/api/routers/`, `attendance_rules.py`,
`cache.py`, `compreface.py`, `storage.py` and `broadcast.py` in
`backend/app/services/`.

## 1. The system

### Components, their state and their operations

| Component | State | Operations | Correct when |
|---|---|---|---|
| Attendance pipeline (`attendance.py`, `attendance_rules.py`) | tables `attendance_sessions`, `attendance_raw_events`; locals of each request | `POST /api/attendance/event` | one open session a person, finished sessions final, sessions and log agree, every request answered |
| Cooldown and rate limit (`cache.py`) | Redis keys `cooldown:<device>:<employee>`, `rl:<device>:<window>` | `in_cooldown`, `rate_limited` | one transaction per key, a device over its limit by no more than the windows allow |
| Files (`storage.py`) | captured frames, plain or encrypted; reference photos | `save_capture`, `save_reference_photo`, `read_capture` | what a row refers to exists and can be opened |
| Employee registry (`employees.py`) | table `employees`, and what it keeps in CompreFace and on disk | enrol, list, patch, delete | the three stores agree, the erased stay erased |
| CompreFace (external) and its client (`compreface.py`) | faces per subject | `add_face`, `recognize`, `delete_subject` | |
| Liveness service (`liveness/`) and its client | none | `check-liveness` | no model is outvoted |
| Devices (`devices.py`, `api/deps.py`) | table `devices` | register, list, rotate key, heartbeat | the key shown last is the key that works |
| Admin login (`auth.py`, `core/security.py`) | none (JWT) | login, verify | |
| Reports (`attendance.py`) | none | today, history, export, review, capture | the past does not change, durations make sense |
| Live feed (`broadcast.py`, `ws.py`) | set of sockets | connect, disconnect, publish | only committed events go out |
| Kiosk page (`kiosk/app.js`) | page state, throttle, IndexedDB queue | capture, flush, heartbeat, reload | no queued frame lost, never stuck |
| Dashboard page (`dashboard/app.js`) | token, socket, headcount | login, logout, refresh, receive | shows the newest state in the end |
| Start-up, settings, schemas, deployment, vendored inference | | | |

### How they interact

A kiosk POSTs a frame with its device key.  The backend is one uvicorn process:
each request is a coroutine that runs undisturbed between two `await`s, and any
other may run at an `await`.  A request asks Redis (rate limit), the liveness
service, CompreFace, Postgres (the employee), Redis (cooldown), then reads and
writes the session in a transaction of its own, writes the frame to disk, commits,
and awaits every dashboard socket before it answers.  A kiosk that gets no answer,
or one that is not 2xx, puts the frame in IndexedDB and posts it again later.
Admins enrol and delete employees through the same process, over the table,
CompreFace and the disk, register devices and rotate their keys, and read reports made
from the sessions and the log.

### What is hard

* Every check of the pipeline reads state that another request may change before
  it commits.  No row is locked before it is written, and no index enforces one
  open session a person.  The Redis cooldown key is the only mutual exclusion, and
  it names the device.
* Redis keys and files are written before the commit and survive a rollback.
* `now` is read on arrival, the session after a minute or more of external calls.
* The window of the rate limit is read before the counter, whose key expires by itself.
* Enrolment and deletion span three stores; any call of theirs may fail after it
  took effect.
* The kiosk has no guard against overlapping captures and flushes, and resends
  what may have been processed or may be under way still.
* A device's row is loaded when its request arrives and written when it ends; a rotation
  of its key may come in between.
* Days are UTC days of different clock readings, and the encryption key is a setting that a
  restart may change under the files.

`PROJECT.json` lists these hazards line by line, with the properties that cover
each, or the reason why none does.

## 2. The modules

| Module | What it is | Code |
|---|---|---|
| `SessionLedger` | abstract specification: rows opened, closed, filed | what `attendance_rules.py` promises |
| `DoorLedger` | abstract specification: the same for an office with several doors | what is left of that promise then |
| `AttendanceEvent` | the pipeline with the cooldown, files, broadcast, faults | `attendance.py` 44-141, `attendance_rules.py`, `cache.py` 11-19, `models.py` |
| `MCAttendanceEvent` | symmetry and view for TLC | |
| `RateLimiter` | the check before the pipeline, and its counters in Redis | `cache.py` 22-28, `attendance.py` 50-53 |
| `Registry` | enrolment, edit, erasure over three stores | `employees.py` 14-57, 75-99, `compreface.py`, `models.py` |
| `MCRegistry` | symmetry for TLC | |
| `KioskClient` | captures, throttle, offline queue | `kiosk/app.js` 64-201 |
| `KioskDelivery` | that page before a backend with its cooldown key | `kiosk/app.js`, `attendance.py` 61-141, `cache.py` 11-19 |
| `DashboardFeed` | one dashboard page: socket, reconnection, headcount | `dashboard/app.js` 11-98, 232-238, `ws.py`, `broadcast.py` |
| `DeviceKeys` | registration, key rotation, heartbeats | `devices.py`, `deps.py` |
| `Reports` | today, history, captured frames over days and restarts | `attendance.py` 144-269, `storage.py` |
| `FrameVerdict` | detector, models' votes, mean, threshold | `liveness/app.py`, `predictor.py`, `liveness.py` |
| `Backoffice` | `RateLimiter`, `DeviceKeys`, `Reports`, `FrameVerdict`, `KioskDelivery`, one a behaviour, for TLC | |
| `AttendanceEventProofs`, `RegistryProofs`, `KioskClientProofs`, `KioskDeliveryProofs`, `DashboardFeedProofs`, `RateLimiterProofs`, `ReportsProofs`, `BackofficeProofs` | theorems about them | |

Definitions whose comment begins "A slip:" are not part of a specification: each is
a plausible mistake in the definition that follows it (a dropped guard, a forgotten
write).  Put in its place it breaks the property `PROJECT.json` names under
"mutants", which shows that the property depends on that line of the code.

### AttendanceEvent

A request `r` walks through the awaits of `attendance_event`; `pc[r]` names the call
it waits for:

    new --> limited | empty
        --> liveness --> recognition --> lookup --> reject --> rejected
                                               --> cooldown --> swallowed
                                                            --> select --> flush --> commit --> publish --> recorded

`Abort` leads from any wait but the last to `error`, a 500 with the transaction rolled
back, and `Crash` does so to all requests at once (one that has committed but not
published is `lost`).  The variables are the tables (`sessions`, `audit`, `lastSeen`,
`active`), the cooldown keys of Redis (`cooldown`), the captured frames, the events broadcast
(`feed`), and the locals of each request: `dev`, `at` (`now`), `emp`
(`matched_emp`), `found` (`open_s`), `reason`.  What the rate limiter answers is a free choice
here (`Throttle` or `Admit`); how it comes to it is the next module.

Three decisions of the model deserve a word.

* *Identities.*  A row is named by the request that inserted it, and a column copied from
  a request (`check_in_at`, `check_in_device_id`, `check_in_confidence`, and the same
  three of the check-out) is modelled by that request: `in` and `out`.  `at[in]` is
  `check_in_at`.
* *Transactions.*  Postgres runs READ COMMITTED.  A SELECT sees what is committed; a
  request's own writes show at its commit.  An UPDATE of a session holds the row from
  `flush` to `commit` (`RowLocked`); one that waited then overwrites the columns
  whatever they are by now, as the ORM's UPDATE names the row by its id only.
* *Time.*  `Tick` may come anywhere.  With `Prompt` it does not let a request's own
  cooldown key expire while that request is in its transaction: 30 seconds against a
  SELECT, a flush and a commit.  The code assumes this and does not ensure it.

### RateLimiter

    new --> count --> expire --> counted --> limited | admitted

A request takes its window from the clock (`Arrive`, `read[r]`), counts in Redis (`Incr`), gives
the counter a time to live if it was the first (`Expire`), and then is refused or reads
`now` (`Admit`, `at[r]`).  The clock may tick, and other requests may run, between any two of
these, for any time: the Redis client has no timeout.  `hits[d][w]` is the counter
`rl:<d>:<w>` with the time it expires; `Fail` and `Crash` end a check anywhere, so that a counter
may be left without one.

### Registry

An enrolment `e` adds its photos to the subject named by the code one by one, writes the
first photo to disk, and inserts the row; the unique index decides there.  If CompreFace
answers with an error it purges the subject.  A deletion reads the row, purges the
subject by name, and deletes the row, which fails if any session refers to it: the
relationship `Employee.sessions` has neither cascade nor `passive_deletes`, so the ORM
first sets `employee_id` of those sessions to NULL, which the column does not allow.
`Fail` is a call that raises, with or without having taken effect.  `serial` is chosen at the
start and never changes: if TRUE, an operation begins only when none is under way, and
nothing fails.  Two properties speak of such admins, the others of all.

### KioskClient

A capture checks state and throttle, awaits the frame, then posts; the outcome is shown or
the frame queued.  A flush takes a snapshot of the queue and posts frame after frame,
deleting each answered one, up to the first failure.  The backend is three outcomes:
`Accepted`, `Refused` (a frame in `Poison` always is), `Lost` (with or without having
been processed).  A request the page gave up, by a timeout or a reload, may reach the backend
any time later (`late`, `ArriveLate`).  Two flushes overlap when the timer fires during a slow
one.  Whether IndexedDB can be opened is decided when the page is loaded (`hasDB`): without it
a failed frame is dropped (`Drop`) and nothing is flushed, and a later load may find
the old frames again.  A write to an open database is assumed to succeed.

### KioskDelivery

The page of `KioskClient` (`Kiosk == INSTANCE KioskClient`) and what its one person and one
device have in the backend: the cooldown key, the frame that took it, an open transaction and
the log.  A frame that meets a live key is swallowed (`Swallow`: 200 for what another frame
does), else it takes the key and registers.  One in which no live face is seen or nobody recognized
is logged so and answered 200 as well (`Reject`), after which the page is done with it just the
same.  A submission whose answer the page gets is one step, as whatever comes meanwhile finds the key taken; a late one takes the key
(`BeginLate`) and commits or aborts in a later step.  `cover[f]` is the frame `f` was
answered for.

### DashboardFeed

Every event makes `publish` send to a snapshot of `broadcaster.active`, while pages come and
go; a message makes the page fetch `/today`, and so does its 15 s timer.  An event stands for
any change of the headcount, so that a headcount is the number of events it counted, and a
token is the number of its login.  `Connect` closes the socket in use and opens another
(`connectWS`); `Close` is `onclose`, which runs for a socket the page closed itself as well,
and sets the timer that `Fire` ends by reconnecting if there is a token.  `Fetch` computes the
answer when the page asks, the oldest it may be; answers are shown in any order, and a 401
(`LogoutDenied`) logs the page out.  `Fault` bounds broken sockets, lost requests, publications
cut off and expired tokens.

### DeviceKeys

A key is named by the registration or rotation that generated it; the row holds its hash, and
only the answer of that operation shows it.  Each operation loads the row in one step and
writes it in a later one, without a lock: two registrations race for the unique index
(`LoseRegistration`), two rotations overwrite each other.  A request authenticates with a
key somebody was shown (`Authenticate`, `Reject`) and writes `last_seen_at`, the time it
arrived, when it commits (`See`), or does not (`Leave`).  Only that column is in its UPDATE:
the slip `WriteBack` is what an ORM that writes whole rows would do.  `Tick` lets no
request be under way for longer than `Patience`.

### Reports

A submission arrives and reads the clock (`Arrive`), looks for an open session (`Select`), and
commits what it found (`RecordOpen`, `RecordDuplicate`, `RecordClose`, `RecordAnomaly`), at most
`Latency` after it arrived and possibly on another day.  Between the two another door may open or
close a session.  There is one entrance and one exit, and `Select` waits for another submission of
the same person and role to commit or leave, as the cooldown key makes it; that the key does is
`OneTransactionPerKey` of the pipeline, which assumes `Prompt`.  `date` is the UTC day of the
arrival that inserted the row.  `Restart` runs the backend with another `IMAGE_ENCRYPTION_KEY` or
none; `stored[r]` is how the frame of `r` lies on disk, `Capture(r)` what `GET /capture` makes of
it.  `History` and `CurrentlyIn` are the queries.

### FrameVerdict

Scores are integers in units of `1/Unit`.  Each model answers any softmax output, the service
takes the argmax of the sum and the mean for the label "real", rounded (a tie either way), and
the backend holds it against `Threshold`.  A frame with no image, or with one detection at
most, is an error.

### Backoffice

The five components above that write no common state, in one specification: `part` says which
of them moves.  A behaviour of it is a behaviour of one component beside initial states of
the others, so checking it checks each.  It instantiates the components with their proofs, and
`BackofficeProofs` shows their properties of all its behaviours.

## 3. What TLC checks

| Run | Instance | Shows |
|---|---|---|
| `Doors` | 2 people, 1 entrance, 1 exit, 3 submissions, 3 clock values, 1 fault | with the two phones the product is made for, the session table is right under every interleaving, nobody is told they are registered who is not, until something fails; the pipeline implements `SessionLedger` |
| `Submissions` | 1 person, 2 doors, 2 submissions, all five kinds of frame, 1 fault, 1 edit of `active` | every rejection path; files before rows and no other orphans than of failures, rows before broadcast |
| `Answers` | 1 person, 1 entrance, 2 exits, 3 submissions, clock standing still, 1 fault, fairness | every submission is answered, also one that waits for another's row lock; with two exits the pipeline implements `DoorLedger` |
| `TwoEntrances` | as `Doors` with 2 entrances, 2 submissions | **violated**: two open sessions |
| `RetryAfterFault` | 2 submissions, 1 fault | **violated**: told "already registered", not registered |
| `Admins` | 1 code, 3 enrolments, 1 patch, 2 deletions, up to 2 photos, 1 fault, serial or not | what a 204 erased stays erased; rows have photos; one admin at a time: faces and table agree, a PATCH takes effect |
| `LostAnswer` | 1 enrolment, 1 fault | **violated**: faces of nobody are left |
| `DeleteAttended` | 1 enrolment, 1 deletion, no fault | **violated**: faces purged, record kept |
| `Queue` | 3 frames (1 always refused), 2 flushes, 2 losses, 1 reload, database or not, fairness | no queued frame dropped; order kept; the queue drains up to a refused frame; the page returns to idle |
| `PoisonFrame` | 2 frames, 1 always refused, fairness | **violated**: the other is never sent |
| `Backoffice` | 3 submissions of 1 device, limit 1 in a window of 2, 1 fault; 1 device, 2 registrations, 2 rotations, 2 requests, 1 fault; 3 submissions over two days, 1 key, 1 restart; 2 models, tenths; 2 frames, 2 flushes, cooldown 2, 2 losses, 1 reload, 1 fault | the limiter, keys, reports, verdicts and delivery, below |
| `LiveFloor` | 1 event, 2 logins, 2 sockets, 2 requests, 1 fault, fairness | a page that stays logged in is fresh in the end; one socket, one loop a login; `publish` ends, and with it the kiosk's wait |

### The properties

* `OneOpenSession`: nobody has two open sessions.
* `FinishedRowsStay`: a closed or anomalous row is never written again.
* `RowsAreLogged`, `LogsHaveRows`: each column of a session comes from a submission logged as
  a match of that person at a door of the right role; each logged check-out stands on a
  row and each logged check-in has one of that person.
* `OneTransactionPerKey`: the cooldown key excludes a second transaction of that person on that
  device.
* `FramesMatchLog`: every logged frame has its file, and a file no row refers to is of a submission
  that failed or is under way.
* `FeedIsCommitted`: row before broadcast, broadcast before the answer.
* `SwallowedWithoutFaults`: until a call fails or the process dies, whoever is told "Already
  registered a moment ago" is registered, or is being registered, on that device.
* `WithinRateLimit`: of what a device begins in one window, at most the limit is let past while the
  window lasts, and at most twice the limit by the end of the next.  A counter lives for a window
  from its `EXPIRE`, so a submission that is slow to count may find it gone and start another.
* `EventuallyAnswered`: no submission waits for ever.
* `ImplementsLedger`: every step of the pipeline is a step of `SessionLedger` or leaves the table
  alone.
* `ImplementsDoorLedger`: with any doors, nobody has two open sessions from one entrance, a closed
  row is closed again only from another exit, nothing else of a row changes, and no submission
  is on two rows.
* `ErasedStaysErased`: what a 204 erased has no row and no face, and gets none back.
* `RowsHavePhotos`: a row's reference photo is on disk.
* `FacesMatchRows`, `PatchTakesEffect`: with one admin at a time, codes nobody is working on have
  the faces of their row and no others (rows that sessions refer to apart, see `DeleteAttended`); a PATCH answered 200 left what it asked for.
* `QueuedUntilServed`, `QueueIsFifo`: a queued frame stays until it was answered; frames leave in
  the order they came.
* `EventuallyFlushed`, `BackToIdle`: frames before the first refused one leave while the database
  is open; the page always comes back to idle.
* `NothingIsLost`: every frame the page no longer keeps is logged as nobody's, or was answered for
  by a frame that took the key (itself or another), and of those that took it no more are neither
  registered nor in a transaction than transactions failed.  What a failure costs is `RetryAfterFault`.
* `WorkingKeyIsKnown`: when nothing is under way and nothing failed, the key that works was shown.
* `ReplacedKeyIsDead`: no step makes a key work that was committed and replaced.
* `LastSeenKeepsUp`: `last_seen_at` may be set back by a submission that took long, but never by
  more than a request takes, however many overtake each other.
* `DurationsBounded`: a session ends before it began by no more than `Latency`.
* `SettledDaysKeepRows`: rows of a day on which no submission can still be recorded are neither
  added, removed nor changed, except closed.
* `FramesStayReadable`: a frame that opens does so after a restart with the same key, or with a
  key where there was none.
* `Unanimous`: a frame passes only if each model alone calls it real.
* `EventuallyFresh`: a page that stays logged in shows the true headcount in the end, though
  events reached nobody and answers overtook each other.
* `OneSocket`, `LoopsPerLogin`: however logins, closings and timers interleave, the page
  keeps one usable socket, and only a login adds a reconnection loop.
* `Settles`: with one loop, the socket is open in the end.
* `KioskIsAnswered`: `publish` ends whatever becomes of the pages, if each send returns or raises.

### The bounds and why they are enough

*Three submissions* are a check-in, a check-out and one that races either, or two that race and
one that meets the outcome; a row has two writers and a third is what `FinishedRowsStay`
needs.  *Two people* let a row of one be mistaken for a row of the other.  *Cooldown 1* with
three clock values lets keys expire between submissions.
*One fault* puts a failure at every await of every request; what a failure leaves behind is
seen by the requests still to come.  *Three enrolments and two deletions of one code* are what it
takes to erase a person, enrol the code again and race a late deletion with it; they share one code because operations
on different codes touch nothing in common.  *Three
frames and two flushes* make one flush work from a snapshot the other has changed.
`Doors` and `Answers` leave `lastSeen` out of the view, since no guard and no property of theirs
reads it (states that differ in it alone have the same futures); they take only frames
that match.  `Submissions` has both.  In `Answers` the check-in opens the row two check-outs
contend for; its clock stands still, as waiting for a lock does not depend on it.  So no key
expires in it either; that one door never opens or closes twice when keys do expire between
submissions is what `Doors` shows for one door of each role, and the proof for all.
In `LiveFloor` *two logins* make two reconnection loops, *two requests* overtake each
other, *two sockets* are one closing and one opening, and the *fault* is any of its kinds.
A name free again stands for a new socket (`Spare`, `NewSocket`).
In `Backoffice` *two registrations and two rotations* race each other and themselves while *two
requests* hold what they loaded, of which a *patience of one* lets the later overtake the earlier.
A *limit of 1* is met by the first of *three submissions*; the second is over it, or is slow and
starts the second life of the counter, and the third is over the limit there.  *Windows of two ticks*, with
clock values 1 to 3, are one that has begun and the next one whole; a third life begins later than
that, and is for the proof.  *Days of two ticks* with a *latency of one* let a submission cross
midnight, and *three submissions* are a session and a late one.  *Tenths* make every output of two
models, 66 each, and *nine* of ten is the least threshold `VerdictConstantsOK` admits.
*Two frames* are what it takes to swallow one for the other, and *two losses* lose both answers.

### Fairness

`AttendanceEvent` assumes weak fairness of each request's own steps (`Judge`, `Record`) and of the
clock, nothing of arrivals, faults or heartbeats.  The HTTP clients have 30 s timeouts and
every await of Postgres or Redis returns or raises, so a call that never returns is a
fault, which need not happen; the event loop runs whatever is ready.  `Answers` needs no
fairness of a particular action: a check-out that waits for a row lock is enabled again
when the holder commits or aborts.
`KioskClient` assumes that `fetch` settles, that timers and intervals fire, and that the
network loses a bounded number of messages; nothing of the person in front of it.
`DashboardFeed` assumes that a send returns or raises, that handshakes and requests end, and that
timers fire; nothing of admins, faults or new events.

## 4. What is proved

For all values of the constants that satisfy the named assumptions (`ConstantsOK`,
`RegistryConstantsOK`, `KioskConstantsOK`, `FeedConstantsOK`, and `DevicesOK`, `ReportsOK`,
`VerdictsOK`, `DeliveryOK`, `LimiterOK` in `Backoffice`):

| Module | Theorem | States | Assumes besides |
|---|---|---|---|
| `AttendanceEventProofs` | `TypeCorrect` | `TypeOK` | |
| | `EveryRowIsLogged` | `RowsAreLogged` | |
| | `SwallowedAreRegistered` | `SwallowedWithoutFaults` | |
| | `LoggedFramesAreSaved`, `FeedFollowsCommit` | `FramesMatchLog`, `FeedIsCommitted` | |
| | `CooldownExcludes` | `OneTransactionPerKey` | `Prompt` |
| | `PipelineImplementsDoorLedger` | `ImplementsDoorLedger` | `Prompt` |
| | `OpenSessionsPerEntrance` | no more open sessions a person than entrances | `Prompt`, finitely many entrances |
| | `NoDoubleSession` | `OneOpenSession` | `Prompt`, `OneEntrance` |
| | `FinishedRowsAreFinal` | `FinishedRowsStay` | `Prompt`, `OneExit` |
| | `LogsKeepRows` | `LogsHaveRows` | `Prompt`, `OneExit` |
| | `PipelineIsInductive` | `PipelineInvariant` | `Prompt`, `OneEntrance`, `OneExit` |
| | `PipelineImplementsLedger` | `ImplementsLedger` | `Prompt`, `OneEntrance`, `OneExit` |
| `RegistryProofs` | `TypeCorrect`, `ErasureIsFinal`, `PhotosAreServed` | `TypeOK`, `ErasedStaysErased`, `RowsHavePhotos` | |
| | `FacesFollowRows`, `PatchesTakeEffect` | `FacesMatchRows`, `PatchTakesEffect` | (both say `serial =>`) |
| | `RefusalsLeaveNothing` | a refused enrolment has no face in the collection | |
| `KioskClientProofs` | `TypeCorrect`, `QueueLosesNothing`, `FramesLeaveInOrder` | `TypeOK`, `QueuedUntilServed`, `QueueIsFifo` | |
| `KioskDeliveryProofs` | `PageIsAKiosk` | `KioskClient!Spec`, refined by the page before its backend | |
| `RateLimiterProofs` | `LimitOfAnyInterval` | any interval as long as a window: at most three times the limit begun and passed in it | |
| `ReportsProofs` | `HeadcountIsExact` | `HeadcountIsOfToday` | |
| `DashboardFeedProofs` | `TypeCorrect`, `PageHasOneSocket`, `LoginsBoundLoops` | `TypeOK`, `OneSocket`, `LoopsPerLogin` | |
| `BackofficeProofs` | `TypeCorrect` | `TypeOK` of the five components | |
| | `LimitIsKept` | `WithinRateLimit` | |
| | `WorkingKeysAreKnown`, `ReplacedKeysAreDead`, `LastSeenIsRecent` | `WorkingKeyIsKnown`, `ReplacedKeyIsDead`, `LastSeenKeepsUp` | |
| | `DurationsAreBounded`, `SettledDaysAreFixed`, `FramesStayOpen` | `DurationsBounded`, `SettledDaysKeepRows`, `FramesStayReadable` | |
| | `FramesPassUnanimously` | `Unanimous` | |
| | `DeliveryLosesNothing` | `NothingIsLost` | |

`OneEntrance` says that no two devices are CHECK_IN, `OneExit` the same of CHECK_OUT.  The
assumptions are needed: run `TwoEntrances` is the counterexample without `OneEntrance`, two
exits overwrite a closed row in the same way, and without `Prompt` the key of a slow
transaction expires and a second one enters.  Of the other assumptions one has content:
the bound on the threshold in `VerdictConstantsOK`, which two models and 0.85 meet.

**The pipeline.**  `OneOpenSession` alone is not inductive: a request that has read "no open
session" and not yet committed can break it in one step.  What makes it inductive is the
lock.  `KeyIsHeld` says that whoever is between `select` and `commit` holds a live cooldown
key, because `TakeCooldown` set it and `Tick` (with `Prompt`) does not let it expire; so
`TakeCooldown` of another request on the same device for the same person is disabled, which
is `OneTransactionPerKey`.  With one entrance all check-ins of a person share the key,
hence what a check-in read as absent is still absent when it commits
(`NothingFoundNothingOpen`), as check-outs open nothing.  With one exit all check-outs of a
person share the key, and only check-outs finish rows, hence what a check-out read as open is
still open (`FoundIsOpen`).  Four parts hold without assumptions and support the rest:
`KnowsItself` (a request's device and person are set by then), `RowsAppearAtCommit`
(a row is named by a request that committed, so inserting overwrites nothing),
`FoundIsTheirs` (what was found is a row of that person that some check-in opened), and
`KeysHaveTakers` (who set a live key is logged, in its transaction, or failed), from which
`SwallowedWithoutFaults` follows.
`PipelineInvariant` is their conjunction and is checked by `Doors`.

The case analysis over `Next` is done once, in `StepCases`: a step either is one of the few
inside a transaction or leaves `sessions` and the transactions' locals alone.  `RowWriters`
does the same for the writers of `sessions`.  The refinement then maps `CommitOpen` to
`Open`, `CommitClose` to `Close`, `CommitAnomaly` to `File`, and all else to a stutter.
`LogsHaveRows` follows from rows never losing a column or their person (`RowsGrow`), which with
one exit includes that a closed row is not closed again.

**The rate limiter.**  A counter has lives: it expires, and a submission that counts after that
starts another.  In one life every submission counted got a number of its own from `INCR`
(`Numbered`), so no more than the limit of them pass.  A life ends a whole window after an `EXPIRE` that was sent after
the window began, hence the first one not before the window is over (`FirstLife`), the second not
before the next is over (`SecondLife`), and what passes in a later life does so after that
(`LaterLives`).  `CountersInv` says that each counter is in one of the three.  A window and the one
after it are all that an interval of that length meets, which gives `LimitOfAnyInterval`.

**Several doors.**  Without `OneEntrance` and `OneExit` the key still excludes two transactions of one
person at one door.  The same parts are then said per door: a check-in that found nothing open
commits when nothing is open *from its entrance*, and a check-out that found a row open commits
when it is open or was closed *from another exit*.  This is `DoorInvariant`; `CommitOpen`,
`CommitClose` and `CommitAnomaly` map to the steps of `DoorLedger`, the columns to pairs of a
submission and its door.  A person's open sessions then map one to one into the entrances, hence
`OpenSessionsPerEntrance`.  The runs `TwoEntrances` and `Answers` show the two sides: the promise of
`SessionLedger` is broken, that of `DoorLedger` is kept.

**The registry.**  An enrolment that has a row is over and stays so; a deletion has found such a row,
hence nothing adds a face or a row of that enrolment after the purge (`Deleting`).  With serial
admins at most one operation runs, `SerialOK` says what it has done so far to the faces and the
row of its code, and all other codes match.  `RefusalsLeaveNothing` is what is true of "we
never leave half-registered biometric data behind" (`employees.py:35`): a face is only ever added
by its own enrolment, which purges before it answers a refusal; `LostAnswer` is what is not.

**The kiosk.**  What a flush has still to post, and the queue, are in the order of the keys, so a
frame deleted by one flush was the head for it.  `KioskDeliveryProofs` shows that the page
before the real backend is a `KioskClient`, so that its theorems hold of it, and adds what the
backend keeps: while a key lives, the frame that took it is registered or its transaction
is open, and every answered frame is covered by such a one or logged as nobody's.  Frames that took the key and are
neither registered nor in a transaction are at most as many as transactions failed
(`OwingBounded`), as only an abort makes one.

**The dashboard.**  Each step does one of five things to the sockets: nothing, accept one, close one
(its timer takes its place), replace the page's own, or start closing it.  Hence the number of
sockets and timers grows with logins only.

**Keys, reports, verdict.**  The key of a row belongs to an operation that committed it
(`KeysHaveOwners`).  `LastSeenKeepsUp` is inductive with `RequestsArePrompt`: a
request under way, which may yet set `last_seen_at` to its own arrival, is no older than `Patience`.  Every column of a session is from a submission that was recorded
(`RowsAreRecorded`), whose time does not change, while one under way is no older than `Latency`
(`SubmissionsArePrompt`).  `FoundHolds` says that what a check-in found missing is missing until it commits, and
what a check-out found open is open, as with one door of each role nobody else opens or closes
meanwhile.  `LedgerInv` adds that nobody has two open rows and that there are finitely
many, so counting rows is counting people: `HeadcountIsExact` says that the headcount is right
about today's sessions, and what it misses are those begun on an earlier day.  The sum of the votes exceeds one model's vote by no more than the others
can give (`SumIsBounded`), so a mean above the threshold leaves each above one half.
`BackofficeProofs` shows that a behaviour of `Backoffice` is one of each component, and
concludes by the component's theorem.

Theorems without a run's property beside them (`OpenSessionsPerEntrance`, `LimitOfAnyInterval`,
`RefusalsLeaveNothing`, `PageIsAKiosk`, `HeadcountIsExact`) are corollaries or
refinements of the same invariants and cost no run.

**Only model-checked**: liveness under fairness, which TLAPS does not prove, namely
`EventuallyAnswered`, `EventuallyFlushed`, `BackToIdle`, `EventuallyFresh`, `Settles`
and `KioskIsAnswered`; and the violations, which are single behaviours.

## 5. Where the code and its words differ

Checked by the violation runs, with the quotations in `PROJECT.json`:

1. With two entrances a person gets two open sessions (`TwoEntrances`, `OneOpenSession`).
2. A submission that fails after taking the cooldown key makes its retry be swallowed as
   registered (`RetryAfterFault`, `SwallowedIsRegistered`).  The kiosk retries every five seconds, so the person is
   told they are registered, the frame is deleted from the queue, and no session exists.
3. An enrolment that ends by a timeout, a crash or a failed insert leaves its faces
   (`LostAnswer`, `NoHalfRegistered`).
4. Deleting an employee who ever attended purges the faces and fails (`DeleteAttended`, `DeletionCompletes`).
5. A frame the backend always refuses blocks the kiosk's queue (`PoisonFrame`, `QueueDrains`).

Seen while modelling, contained in the models as behaviours, and not given runs:

* With two exits the second check-out overwrites the first one's columns of a closed session
  (`attendance_rules.py:67`).  This is why `FinishedRowsAreFinal` assumes `OneExit`; `DoorLedger` allows no more than this.
* A frame posted again past the cooldown, because the first answer was lost or two flushes
  overlapped, is a second event: at an exit a spurious anomaly (`kiosk/app.js:161`).
* The headcount counts sessions of today's UTC date, so after midnight those still inside are
  missing from it (`attendance.py:146`).  `HeadcountIsWhoIsIn` in `Reports` states the claim,
  which no run checks; `HeadcountIsExact` says what is counted instead.
* `squeeze()` drops the detections' axis when there is one, and the frame is answered 500 however often
  it is posted (`predictor.py:88`): to the kiosk, a frame of `Poison`.
* A rotation whose refresh fails after its commit leaves a key nobody was shown
  (`devices.py:53`); another rotation mends it.
* A swallowed submission is not logged, though the log is called full (`models.py:94`).
* A check-out held up by a service closes a session opened after it was made, with
  `check_out_at` before `check_in_at` (`attendance.py:53`), by no more than
  `DurationsBounded` says.
* A check-in answered as a duplicate may commit after that session was closed
  (`attendance_rules.py:36`).
* An accepted submission may set `last_seen_at` back, over a later heartbeat
  (`attendance.py:121`).  It awaits two services with timeouts of 30 seconds a phase
  (`liveness.py:15`, `compreface.py:43`), so it may take longer than the 60 seconds that are left of the
  dashboard's 90 after a heartbeat every 30 (`dashboard/app.js:83`): a kiosk that
  beats in time may then be drawn offline until the next beat.  `LastSeenKeepsUp` bounds the
  setback by what a request takes, and says no more.
* The window of the rate limit is read before `INCR` (`cache.py:24`).  A submission whose command is held up until the counter
  of that window has expired starts a new one, with the limit afresh, and one admitted in the next
  window may have counted in the last.  A counter whose `EXPIRE` failed never expires; its window
  does not come again, so that costs memory only.
* Two concurrent enrolments of one code: if one fails, it purges the other's faces
  (`employees.py:41`).  `FacesMatchRows` therefore speaks of serial admins.
* Two captures may be grabbing at once and both be posted (`kiosk/app.js:124`).
* `onclose` outlives a logout (`dashboard/app.js:97`): after a logout and a login within three
  seconds two reconnection loops run, and each closes the socket of the other for ever.
  `Settles` therefore speaks of one loop.  The interval of `startApp` is not cleared either.
* A 401 that answers a request of an earlier login logs out the new one (`dashboard/app.js:13`).
* Nothing deletes a reference photo, flags a session past the cutoff, or deletes captured
  frames after the retention period; `config.py:31-32` are read by no code.

## 6. What is not modelled, and why

* *The connection pool* (`session.py:9`).  A request holds a connection across its external calls,
  so a slow service can starve the others.  Pool size and timeouts are defaults of
  libraries, and no line says what should hold.
* *Inference and vendored code.*  What a network answers is a free choice; loading models and
  cropping images are numerical code without state.
* *Redis losing keys*, by eviction or a restart, and a clock of Redis that differs from the backend's:
  `RateLimiter` and `AttendanceEvent` take both to be one clock, and a key to last until it expires.
* *The dashboard's dot* for a device, which it draws from `last_seen_at`.
* *Passwords and roles* of the admin login; a token is valid until it expires (`DashboardFeed`).
* *The review list, CSV and spreadsheets*: queries and formatting over what `Reports` models.
* *Retention and the cutoff of open sessions* (`config.py:31-32`): no code reads the settings.
* *Durability of a single IndexedDB write*: `queuePut` does not await its transaction, so a page that
  dies at once may lose the frame.
* *The service worker* never handles API requests; *start-up, settings and schemas* end, or act, before
  an operation of these models begins; *deployment and scripts* are configuration.
* *Reloading the dashboard* and its other views, whose loaders fetch and render.

Image encryption and key hashes are abstracted to which key was used.

## 7. Plan

Done: the modules of section 2 and the proofs of section 4.  What could follow, in this order:

1. `Registry` with `AttendanceEvent`: deletion and deactivation of somebody in the pipeline; the
   foreign key then meets an insert under way.
2. `KioskDelivery` with `AttendanceEvent` in place of its one-key backend: two devices, and sessions
   in the place of the log.
3. The connection pool as a bounded resource, once the code says what it may not do.
4. A dashboard page that is reloaded, and its interval that a logout does not clear.

Modules to be proved about contain no RECURSIVE operator; constants carry named assumptions.

## 8. Running

    tlc -workers 4 -config Doors.cfg MCAttendanceEvent
    tlc -workers 4 -config Admins.cfg MCRegistry
    tlc -workers 4 -config Queue.cfg KioskClient
    tlc -workers 4 -config Backoffice.cfg Backoffice
    tlapm AttendanceEventProofs.tla

The module of each configuration is in `PROJECT.json`.  `Doors`, `Answers`, `LiveFloor`
and `Backoffice` take one to two minutes, the others less; the proofs some minutes from nothing.
