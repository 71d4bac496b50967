-------------------------------- MODULE Backoffice --------------------------------
(***************************************************************************)
(* The components around the attendance pipeline, for TLC: the rate        *)
(* limiter, the device keys, the reports, the liveness verdict, and a      *)
(* kiosk with its backend.  No two of them write the same state, so a      *)
(* behaviour of `part` is one of its component, and the others keep an     *)
(* initial state.  A component comes with its proofs, where it has a       *)
(* module of them: what is shown there of each is what BackofficeProofs    *)
(* needs.                                                                  *)
(***************************************************************************)
EXTENDS Integers, Sequences, FiniteSets

CONSTANTS
  Devices, RateLimit, RateWindow,
  Registrations, Rotations, Requests, Patience, MaxFaults,
  Employees, Submissions, Keys, DayLength, Latency, MaxRestarts,
  Models, Unit, Threshold,
  Frames, Flushes, Poison, LocalCooldown, MaxLosses, MaxReloads, Cooldown,
  None, MaxTime

VARIABLES
  part,
  limitClock, hits, limitPc, limitDev, read, nth, limitAt, limitFaults,
  keyClock, key, lastSeen, keyPc, dev, cred, keyAt, faults,
  clock, setting, sessions, audit, stored, pc, emp, checkIn, at, found,
  restarts,
  verdictPc, outputs, prediction, isLive, score, passed,
  now, state, lastSubmit, cpc, timers, hasDB, queue, items, served, late, losses, reloads,
  keyUntil, holder, tx, registered, rejected, cover, aborts

Limit == INSTANCE RateLimiterProofs WITH
  Requests <- Submissions, clock <- limitClock, pc <- limitPc, dev <- limitDev, at <- limitAt,
  faults <- limitFaults
Device == INSTANCE DeviceKeys WITH clock <- keyClock, pc <- keyPc, at <- keyAt
Report == INSTANCE ReportsProofs
Verdict == INSTANCE FrameVerdict WITH pc <- verdictPc
Delivery == INSTANCE KioskDeliveryProofs WITH faults <- aborts

ASSUME LimiterOK == Limit!LimiterConstantsOK
ASSUME DevicesOK == Device!DeviceConstantsOK
ASSUME ReportsOK == Report!ReportConstantsOK
ASSUME VerdictsOK == Verdict!VerdictConstantsOK
ASSUME DeliveryOK == Delivery!Kiosk!KioskConstantsOK /\ Delivery!DeliveryConstantsOK

limitVars == <<limitClock, hits, limitPc, limitDev, read, nth, limitAt, limitFaults>>
deviceVars == <<keyClock, key, lastSeen, keyPc, dev, cred, keyAt, faults>>
reportVars == <<clock, setting, sessions, audit, stored, pc, emp, checkIn, at, found, restarts>>
verdictVars == <<verdictPc, outputs, prediction, isLive, score, passed>>
deliveryVars ==
  <<now, state, lastSubmit, cpc, timers, hasDB, queue, items, served, late, losses, reloads,
    keyUntil, holder, tx, registered, rejected, cover, aborts>>

Init ==
  /\ part \in {"limiter", "devices", "reports", "verdict", "kiosk"}
  /\ Limit!Init /\ Device!Init /\ Report!Init /\ Verdict!Init /\ Delivery!Init
  /\ part = "reports" \/ setting = None
  /\ part = "kiosk" \/ hasDB

Next ==
  /\ UNCHANGED part
  /\ \/ part = "limiter" /\ Limit!Next
        /\ UNCHANGED <<deviceVars, reportVars, verdictVars, deliveryVars>>
     \/ part = "devices" /\ Device!Next
        /\ UNCHANGED <<limitVars, reportVars, verdictVars, deliveryVars>>
     \/ part = "reports" /\ Report!Next
        /\ UNCHANGED <<limitVars, deviceVars, verdictVars, deliveryVars>>
     \/ part = "verdict" /\ Verdict!Next
        /\ UNCHANGED <<limitVars, deviceVars, reportVars, deliveryVars>>
     \/ part = "kiosk" /\ Delivery!Next
        /\ UNCHANGED <<limitVars, deviceVars, reportVars, verdictVars>>

Spec == Init /\ [][Next]_<<part, limitVars, deviceVars, reportVars, verdictVars, deliveryVars>>

\* Every variable of the five components stays in its type.
TypeOK == Limit!TypeOK /\ Device!TypeOK /\ Report!TypeOK /\ Verdict!TypeOK /\ Delivery!TypeOK

\* Of RateLimiter: what a device begins in one window is let past no more often than the
\* limit while the window lasts, and than twice the limit by the end of the next one.
WithinRateLimit == Limit!WithinRateLimit

\* Of DeviceKeys: what loaded a row before a rotation and writes after it does not bring
\* back the key that was replaced.
ReplacedKeyIsDead == Device!ReplacedKeyIsDead

\* Of DeviceKeys: however registrations and rotations raced, the key that works was
\* shown to somebody.
WorkingKeyIsKnown == Device!WorkingKeyIsKnown

\* Of DeviceKeys: last_seen_at is set back by no more than a request takes.
LastSeenKeepsUp == Device!LastSeenKeepsUp

\* Of Reports: the history of a day that is over only changes by check-outs.
SettledDaysKeepRows == Report!SettledDaysKeepRows

\* Of Reports: no session ends before it began by more than a submission takes.
DurationsBounded == Report!DurationsBounded

\* Of Reports: a frame that could be opened stays so when encryption is turned on.
FramesStayReadable == Report!FramesStayReadable

\* Of FrameVerdict: a frame that passes is real by each model's own verdict.
Unanimous == Verdict!Unanimous

\* Of KioskDelivery: a frame the page no longer keeps is logged as nobody's, registered, or
\* covered by one that is or is about to be, but for those that failed transactions cost.
NothingIsLost == Delivery!NothingIsLost
================================================================================
