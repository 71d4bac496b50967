-------------------------------- MODULE DeviceKeys --------------------------------
(***************************************************************************)
(* The devices table: registering a kiosk, rotating its key, and the       *)
(* requests that authenticate with a key and write last_seen_at.           *)
(*                                                                         *)
(* Every operation loads a row in one transaction step and writes in a     *)
(* later one, and none locks what it loaded.  A key is named by the        *)
(* registration or rotation that generated it; the row holds its hash, and *)
(* only the answer to that operation ever shows it.                        *)
(***************************************************************************)
EXTENDS Integers

CONSTANTS
  Devices,       \* device_ids
  Registrations, \* POST /api/devices
  Rotations,     \* POST /api/devices/{device_id}/rotate-key
  Requests,      \* heartbeats and submissions
  None,          \* no row, NULL
  Patience,      \* longest time from a request's arrival to its commit
  MaxTime,       \* bound: last value of the clock
  MaxFaults      \* bound: failed calls and crashes

Ops == Registrations \cup Rotations

\* What is assumed of them.
DeviceConstantsOK ==
  /\ None \notin Ops \cup Devices
  /\ Registrations \cap Rotations = {} /\ Ops \cap Requests = {}
  /\ Patience \in Nat /\ MaxTime \in Nat /\ MaxFaults \in Nat

VARIABLES
  clock,
  key,       \* device -> whose key's hash its row holds; None: no row
  lastSeen,  \* device -> last_seen_at; 0: NULL
  pc,
  dev,       \* the device an operation or a request is about
  cred,      \* the key a request authenticated with, so also the one it loaded
  at,        \* when it did
  faults

row == <<key, lastSeen>>
locals == <<dev, cred, at>>
vars == <<clock, row, pc, locals, faults>>

Running == {"insert", "update", "refresh", "busy"}

Init ==
  /\ clock = 1
  /\ key = [d \in Devices |-> None]
  /\ lastSeen = [d \in Devices |-> 0]
  /\ pc = [o \in Ops \cup Requests |-> "new"]
  /\ dev = [o \in Ops \cup Requests |-> None]
  /\ cred = [r \in Requests |-> None]
  /\ at = [r \in Requests |-> 0]
  /\ faults = 0

Goto(o, from, to) == pc[o] = from /\ pc' = [pc EXCEPT ![o] = to]
Choose(o, d) == dev' = [dev EXCEPT ![o] = d]

\* ---- Registration --------------------------------------------------------------
\* 409 if the device_id has a row.
RefuseRegistration(o, d) ==
  /\ Goto(o, "new", "refused")
  /\ key[d] # None
  /\ UNCHANGED <<clock, row, locals, faults>>

BeginRegistration(o, d) ==
  /\ Goto(o, "new", "insert")
  /\ key[d] = None
  /\ Choose(o, d)
  /\ UNCHANGED <<clock, row, cred, at, faults>>

CommitRegistration(o) ==
  /\ Goto(o, "insert", "refresh")
  /\ key[dev[o]] = None
  /\ key' = [key EXCEPT ![dev[o]] = o]
  /\ UNCHANGED <<clock, lastSeen, locals, faults>>

\* A slip: INSERT ... ON CONFLICT DO UPDATE, answered as a conflict.
UpsertRegistration(o) ==
  /\ Goto(o, "insert", "failed")
  /\ key[dev[o]] # None
  /\ key' = [key EXCEPT ![dev[o]] = o]
  /\ UNCHANGED <<clock, lastSeen, locals, faults>>

\* The unique index on device_id refuses the second of two: a 500.
LoseRegistration(o) ==
  /\ Goto(o, "insert", "failed")
  /\ key[dev[o]] # None
  /\ UNCHANGED <<clock, row, locals, faults>>

\* ---- Rotation --------------------------------------------------------------------
\* 404 if there is no row.
MissRotation(o, d) ==
  /\ Goto(o, "new", "refused")
  /\ key[d] = None
  /\ UNCHANGED <<clock, row, locals, faults>>

BeginRotation(o, d) ==
  /\ Goto(o, "new", "update")
  /\ key[d] # None
  /\ Choose(o, d)
  /\ UNCHANGED <<clock, row, cred, at, faults>>

\* Over whatever key the row holds by now.
CommitRotation(o) ==
  /\ Goto(o, "update", "refresh")
  /\ key' = [key EXCEPT ![dev[o]] = o]
  /\ UNCHANGED <<clock, lastSeen, locals, faults>>

\* The committed row is read again, and the answer shows the key of this operation,
\* which need not be the row's any more.
ShowKey(o) ==
  /\ Goto(o, "refresh", "shown")
  /\ UNCHANGED <<clock, row, locals, faults>>

\* ---- Requests of a kiosk -----------------------------------------------------------
\* A kiosk is configured with a key somebody was shown.
Authenticate(r, d, k) ==
  /\ Goto(r, "new", "busy")
  /\ pc[k] = "shown" /\ key[d] = k
  /\ Choose(r, d)
  /\ cred' = [cred EXCEPT ![r] = k]
  /\ at' = [at EXCEPT ![r] = clock]
  /\ UNCHANGED <<clock, row, faults>>

\* 401: no such row, or the hash of another key.
Reject(r, d, k) ==
  /\ Goto(r, "new", "refused")
  /\ pc[k] = "shown" /\ key[d] # k
  /\ UNCHANGED <<clock, row, locals, faults>>

\* Slips: the whole row is written back as it was loaded; last_seen_at is set only once.
WriteBack(r) ==
  /\ Goto(r, "busy", "seen")
  /\ lastSeen' = [lastSeen EXCEPT ![dev[r]] = at[r]]
  /\ key' = [key EXCEPT ![dev[r]] = cred[r]]
  /\ UNCHANGED <<clock, locals, faults>>

SeeOnce(r) ==
  /\ Goto(r, "busy", "seen")
  /\ lastSeen' = [lastSeen EXCEPT ![dev[r]] = IF @ = 0 THEN at[r] ELSE @]
  /\ UNCHANGED <<clock, key, locals, faults>>

\* A heartbeat, or a submission that is recorded: the time it arrived, over
\* whatever is there by now, and no other column.
See(r) ==
  /\ Goto(r, "busy", "seen")
  /\ lastSeen' = [lastSeen EXCEPT ![dev[r]] = at[r]]
  /\ UNCHANGED <<clock, key, locals, faults>>

\* A submission that is rejected or swallowed.
Leave(r) ==
  /\ Goto(r, "busy", "unseen")
  /\ UNCHANGED <<clock, row, locals, faults>>

\* ---- Faults and time -----------------------------------------------------------------
Fault == faults < MaxFaults /\ faults' = faults + 1

\* An awaited call raises.  What was committed stays: after a failed refresh the
\* row holds a key nobody was shown.
Fail(o) ==
  /\ Fault
  /\ pc[o] \in Running
  /\ pc' = [pc EXCEPT ![o] = "failed"]
  /\ UNCHANGED <<clock, row, locals>>

Crash ==
  /\ Fault
  /\ pc' = [o \in Ops \cup Requests |-> IF pc[o] \in Running THEN "failed" ELSE pc[o]]
  /\ UNCHANGED <<clock, row, locals>>

\* A request commits within Patience of its arrival, or not at all.
Tick ==
  /\ clock < MaxTime
  /\ \A r \in Requests : pc[r] = "busy" => clock < at[r] + Patience
  /\ clock' = clock + 1
  /\ UNCHANGED <<row, pc, locals, faults>>

\* ---- Specification ---------------------------------------------------------------------
Register(o) ==
  \/ \E d \in Devices : RefuseRegistration(o, d) \/ BeginRegistration(o, d)
  \/ CommitRegistration(o) \/ LoseRegistration(o) \/ ShowKey(o)

Rotate(o) ==
  \/ \E d \in Devices : MissRotation(o, d) \/ BeginRotation(o, d)
  \/ CommitRotation(o) \/ ShowKey(o)

Request(r) ==
  \/ \E d \in Devices, k \in Ops : Authenticate(r, d, k) \/ Reject(r, d, k)
  \/ See(r) \/ Leave(r)

Next ==
  \/ \E o \in Registrations : Register(o)
  \/ \E o \in Rotations : Rotate(o)
  \/ \E r \in Requests : Request(r)
  \/ \E o \in Ops \cup Requests : Fail(o)
  \/ Crash
  \/ Tick

Spec == Init /\ [][Next]_vars

\* ---- Properties --------------------------------------------------------------------------
TypeOK ==
  /\ clock \in Nat
  /\ key \in [Devices -> Ops \cup {None}]
  /\ lastSeen \in [Devices -> Nat]
  /\ pc \in [Ops \cup Requests ->
       {"new", "refused", "failed", "shown", "seen", "unseen"} \cup Running]
  /\ dev \in [Ops \cup Requests -> Devices \cup {None}]
  /\ cred \in [Requests -> Ops \cup {None}]
  /\ at \in [Requests -> Nat]
  /\ faults \in Nat

\* A key that was replaced never works again: of the operations that loaded the row
\* before a rotation and write to it after (heartbeats, submissions, other
\* rotations) none brings back the key it loaded.
ReplacedKeyIsDead ==
  [][\A k \in Ops : pc[k] \in {"refresh", "shown"} =>
       \A d \in Devices : key[d] # k => key'[d] # k]_vars

\* Once the operations on a device are over, and none met a fault, somebody was
\* shown the key that works, however registrations and rotations raced: the kiosk
\* is not locked out of the table.
WorkingKeyIsKnown ==
  \A d \in Devices :
    key[d] # None /\ faults = 0 /\ (\A o \in Ops : dev[o] = d => pc[o] \notin Running)
      => pc[key[d]] = "shown"

\* A submission that took long may set last_seen_at back over a heartbeat that came after
\* it, but never by more than a request takes: what a dashboard knows of a device is no
\* older than that, however many requests overtake each other.
LastSeenKeepsUp ==
  \A r \in Requests : pc[r] = "seen" =>
    lastSeen[dev[r]] # 0 /\ at[r] <= lastSeen[dev[r]] + Patience

\* ---- The inductive invariant behind them -----------------------------------------------
\* The key a row holds is that of an operation on it that was committed and, unless a
\* call failed, shown or about to be.
KeysHaveOwners ==
  /\ \A o \in Ops : pc[o] \in {"insert", "update", "refresh", "shown"} => dev[o] \in Devices
  /\ \A d \in Devices : key[d] # None =>
       /\ dev[key[d]] = d
       /\ pc[key[d]] \in {"refresh", "shown"} \/ (pc[key[d]] = "failed" /\ faults > 0)

\* No request is older than it may get.
RequestsArePrompt ==
  /\ clock >= 1
  /\ \A r \in Requests :
       /\ at[r] <= clock
       /\ pc[r] = "busy" => clock <= at[r] + Patience
       /\ pc[r] \in {"busy", "seen"} => at[r] >= 1 /\ dev[r] \in Devices
================================================================================
