------------------------------ MODULE KioskDelivery ------------------------------
(***************************************************************************)
(* A kiosk's page and the backend it submits to: one person before one     *)
(* device, whose frames are posted, lost, queued and posted again, and a   *)
(* cooldown key that answers a frame with 200 for what another frame does. *)
(* A frame in which nobody is recognized is answered 200 as well, and the  *)
(* page is done with it just the same.                                     *)
(*                                                                         *)
(* A submission whose answer the page gets is one step here: whatever else *)
(* arrives meanwhile finds the key taken.  One the page has given up takes *)
(* the key in one step and commits, or does not, in a later one.           *)
(***************************************************************************)
EXTENDS Integers, Sequences, FiniteSets

CONSTANTS
  Frames, Flushes, Poison, LocalCooldown, MaxTime, MaxLosses, MaxReloads,
  Cooldown,  \* settings.cooldown_seconds, in clock units
  None,
  MaxFaults  \* bound: transactions that fail

\* What is assumed of them.
DeliveryConstantsOK == Cooldown \in Nat \ {0} /\ None \notin Frames /\ MaxFaults \in Nat

VARIABLES
  now, state, lastSubmit, cpc, timers, hasDB, queue, items, served, late, losses, reloads,
  keyUntil,    \* when the cooldown key expires
  holder,      \* the frame whose submission took it last
  tx,          \* the frame whose transaction is open
  registered,  \* frames with a row in attendance_raw_events that says matched
  rejected,    \* frames with a row there that does not
  cover,       \* frame -> the frame it was answered for; None: never as matched
  faults

Kiosk == INSTANCE KioskClient

backend == <<keyUntil, holder, tx, registered, rejected, cover, faults>>
page == <<now, state, lastSubmit, cpc, timers, hasDB, queue, items, served, late, losses, reloads>>

Init ==
  /\ Kiosk!Init
  /\ keyUntil = 0 /\ holder = None /\ tx = None
  /\ registered = {} /\ rejected = {}
  /\ cover = [f \in Frames |-> None]
  /\ faults = 0

\* ---- The backend -------------------------------------------------------------------
KeyLives == now < keyUntil

\* "Already registered a moment ago", though that registration may still be under way.
Swallow(f) ==
  /\ KeyLives
  /\ cover' = [cover EXCEPT ![f] = holder]
  /\ UNCHANGED <<keyUntil, holder, tx, registered, rejected, faults>>

TakeKey(f) ==
  /\ ~ KeyLives
  /\ keyUntil' = now + Cooldown /\ holder' = f
  /\ cover' = [cover EXCEPT ![f] = f]
  /\ UNCHANGED <<rejected, faults>>

Register(f) ==
  /\ TakeKey(f)
  /\ registered' = registered \cup {f}
  /\ UNCHANGED tx

\* No live face, nobody known, or not similar enough: a log row says so, and neither the
\* key nor a session is touched.
Reject(f) ==
  /\ rejected' = rejected \cup {f}
  /\ UNCHANGED <<keyUntil, holder, tx, registered, cover, faults>>

Handle(f) == Swallow(f) \/ Register(f) \/ Reject(f)

BeginLate(f) ==
  /\ TakeKey(f)
  /\ tx' = f
  /\ UNCHANGED registered

\* A slip: a handler stops when its client is gone.
CancelLate ==
  /\ tx # None /\ tx' = None
  /\ UNCHANGED <<page, keyUntil, holder, registered, rejected, cover, faults>>

\* That the client is gone makes no difference to the handler.
CommitLate ==
  /\ tx # None /\ tx' = None
  /\ registered' = registered \cup {tx}
  /\ UNCHANGED <<page, keyUntil, holder, rejected, cover, faults>>

\* The transaction is rolled back and the key stays.
AbortLate ==
  /\ faults < MaxFaults /\ faults' = faults + 1
  /\ tx # None /\ tx' = None
  /\ UNCHANGED <<page, keyUntil, holder, registered, rejected, cover>>

\* ---- Kiosk and backend ----------------------------------------------------------------
\* Steps of the page that the backend does not see.
PageOnly ==
  \/ \E f \in Frames : Kiosk!Capture(f) \/ Kiosk!QueuePut(f) \/ Kiosk!Drop(f)
  \/ \E k \in Flushes : Kiosk!StartFlush(k) \/ Kiosk!FlushFails(k)
  \/ Kiosk!ResetIdle \/ Kiosk!Reload

\* A transaction is over before its own key expires.
Tick == Kiosk!Tick /\ (tx # None => now' < keyUntil)

Next ==
  \/ PageOnly /\ UNCHANGED backend
  \/ Tick /\ UNCHANGED backend
  \/ \E f \in Frames : Kiosk!ShowResult(f) /\ Handle(f)
  \/ \E k \in Flushes : Kiosk!FlushOne(k) /\ Handle(Head(items[k]))
  \/ \E f \in Frames : Kiosk!ArriveLate(f) /\ (Swallow(f) \/ BeginLate(f) \/ Reject(f))
  \/ CommitLate \/ AbortLate

Spec == Init /\ [][Next]_<<page, backend>>

\* ---- Properties ----------------------------------------------------------------------
TypeOK ==
  /\ Kiosk!TypeOK
  /\ keyUntil \in Nat /\ holder \in Frames \cup {None} /\ tx \in Frames \cup {None}
  /\ registered \subseteq Frames /\ rejected \subseteq Frames
  /\ cover \in [Frames -> Frames \cup {None}]
  /\ faults \in Nat

\* What the page has of a frame is a 200: its answer was shown, or it left the queue.
Acknowledged(f) ==
  cpc[f] = "answered" \/ (cpc[f] = "queued" /\ ~ Kiosk!InQueue(f))

\* The frames that such frames were answered for as matched: themselves, or the one that
\* held the key.
Answering == {cover[f] : f \in {g \in Frames : Acknowledged(g)}} \ {None}

\* No frame is forgotten by both sides, but for what failed transactions cost.  A frame that
\* the page no longer keeps is logged as nobody's, or was answered for by a frame that is
\* registered or about to be.  Each failed transaction costs the registration of one
\* frame, and with it of those it answered for, through the key it leaves behind.
NothingIsLost ==
  /\ \A f \in Frames : Acknowledged(f) => f \in rejected \/ cover[f] # None
  /\ Cardinality(Answering \ (registered \cup {tx})) <= faults
================================================================================
