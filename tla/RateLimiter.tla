------------------------------- MODULE RateLimiter -------------------------------
(***************************************************************************)
(* rate_limited, which POST /api/attendance/event awaits first, and the    *)
(* counters rl:<device>:<window> it keeps in Redis.                        *)
(*                                                                         *)
(* The window is taken from the clock before INCR is sent, EXPIRE is sent  *)
(* only by the request that INCR answered 1, and `now` is read after both. *)
(* Time passes, and other requests run, while a command or its answer is   *)
(* on the way, for as long as it takes: the Redis client has no timeout.   *)
(* A counter may therefore expire before a request of its window counts,   *)
(* and live for ever if its EXPIRE fails.                                  *)
(***************************************************************************)
EXTENDS Integers, FiniteSets

CONSTANTS
  Devices,    \* devices that submit
  Requests,   \* submissions
  None,
  RateLimit,  \* `limit` of rate_limited
  RateWindow, \* `window` of rate_limited, in clock units
  MaxTime,    \* bound: last value of the clock
  MaxFaults   \* bound: failed commands and crashes

\* What is assumed of them.
LimiterConstantsOK ==
  /\ None \notin Devices
  /\ RateLimit \in Nat /\ RateWindow \in Nat \ {0}
  /\ MaxTime \in Nat \ {0} /\ MaxFaults \in Nat

VARIABLES
  clock, \* of the backend and of Redis
  hits,  \* hits[d][w]: the counter rl:<d>:<w>
  pc, dev,
  read,  \* time.time() when the key was made
  nth,   \* what INCR answered
  at,    \* `now` of a request let past, 0 before
  faults

locals == <<dev, read, nth, at>>
vars == <<clock, hits, pc, locals, faults>>

WindowOf(t) == t \div RateWindow
WindowEnd(w) == (w + 1) * RateWindow
Windows == {WindowOf(t) : t \in 0..MaxTime}
Waiting == {"count", "expire", "counted"}

\* Until is 0 as long as the counter has no time to live.
Counter == [count : Nat, until : Nat]
Lives(h) == h.until = 0 \/ clock < h.until
HitsOf(r) == hits[dev[r]][WindowOf(read[r])]

Init ==
  /\ clock = 1
  /\ hits = [d \in Devices |-> [w \in Windows |-> [count |-> 0, until |-> 0]]]
  /\ pc = [r \in Requests |-> "new"]
  /\ dev = [r \in Requests |-> None]
  /\ read = [r \in Requests |-> 0]
  /\ nth = [r \in Requests |-> 0]
  /\ at = [r \in Requests |-> 0]
  /\ faults = 0

Goto(r, from, to) == pc[r] = from /\ pc' = [pc EXCEPT ![r] = to]

\* The handler has made its key.
Arrive(r, d) ==
  /\ Goto(r, "new", "count")
  /\ dev' = [dev EXCEPT ![r] = d]
  /\ read' = [read EXCEPT ![r] = clock]
  /\ UNCHANGED <<clock, hits, nth, at, faults>>

\* INCR, which makes a counter that is not there, without a time to live.
NextCount(h) ==
  IF Lives(h) THEN [count |-> h.count + 1, until |-> h.until] ELSE [count |-> 1, until |-> 0]

Incr(r) ==
  /\ pc[r] = "count"
  /\ LET h == NextCount(HitsOf(r)) IN
       /\ hits' = [hits EXCEPT ![dev[r]][WindowOf(read[r])] = h]
       /\ nth' = [nth EXCEPT ![r] = h.count]
       /\ pc' = [pc EXCEPT ![r] = IF h.count = 1 THEN "expire" ELSE "counted"]
  /\ UNCHANGED <<clock, dev, read, at, faults>>

\* A slip: the time to live is a unit short.
ExpireEarly(r) ==
  /\ Goto(r, "expire", "counted")
  /\ hits' = [hits EXCEPT ![dev[r]][WindowOf(read[r])] =
                [count |-> HitsOf(r).count, until |-> clock + RateWindow - 1]]
  /\ UNCHANGED <<clock, locals, faults>>

Expire(r) ==
  /\ Goto(r, "expire", "counted")
  /\ hits' = [hits EXCEPT ![dev[r]][WindowOf(read[r])] =
                [count |-> HitsOf(r).count, until |-> clock + RateWindow]]
  /\ UNCHANGED <<clock, locals, faults>>

RateLimited(r) == nth[r] > RateLimit

\* 429.
Throttle(r) ==
  /\ Goto(r, "counted", "limited")
  /\ RateLimited(r)
  /\ UNCHANGED <<clock, hits, locals, faults>>

Admit(r) ==
  /\ Goto(r, "counted", "admitted")
  /\ ~ RateLimited(r)
  /\ at' = [at EXCEPT ![r] = clock]
  /\ UNCHANGED <<clock, hits, dev, read, nth, faults>>

\* A command is lost or its answer is, which is a 500; what it did to Redis stays.
Fault == faults < MaxFaults /\ faults' = faults + 1

Fail(r) ==
  /\ Fault
  /\ pc[r] \in Waiting
  /\ pc' = [pc EXCEPT ![r] = "error"]
  /\ UNCHANGED <<clock, hits, locals>>

Crash ==
  /\ Fault
  /\ \E r \in Requests : pc[r] \in Waiting
  /\ pc' = [r \in Requests |-> IF pc[r] \in Waiting THEN "error" ELSE pc[r]]
  /\ UNCHANGED <<clock, hits, locals>>

Tick ==
  /\ clock < MaxTime
  /\ clock' = clock + 1
  /\ UNCHANGED <<hits, pc, locals, faults>>

Next ==
  \/ \E r \in Requests :
       \/ \E d \in Devices : Arrive(r, d)
       \/ Incr(r) \/ Expire(r) \/ Throttle(r) \/ Admit(r) \/ Fail(r)
  \/ Crash
  \/ Tick

Spec == Init /\ [][Next]_vars

\* ---- Properties -------------------------------------------------------------------
\* Every variable stays in its type.
TypeOK ==
  /\ clock \in 1..MaxTime
  /\ hits \in [Devices -> [Windows -> Counter]]
  /\ pc \in [Requests -> {"new", "limited", "admitted", "error"} \cup Waiting]
  /\ dev \in [Requests -> Devices \cup {None}]
  /\ read \in [Requests -> 0..MaxTime] /\ nth \in [Requests -> Nat] /\ at \in [Requests -> Nat]
  /\ faults \in Nat

\* Who of window w was let past before time t.
Passed(d, w, t) ==
  {r \in Requests : dev[r] = d /\ WindowOf(read[r]) = w /\ at[r] # 0 /\ at[r] < t}

\* Of the submissions a device begins in one window, at most RateLimit are let past while
\* the window lasts, and at most twice as many by the end of the next one: a counter lives
\* for a window from its EXPIRE, so a submission that was slow to count may find it gone
\* and start another, but no third before then.
WithinRateLimit ==
  \A d \in Devices, w \in Windows :
    /\ Cardinality(Passed(d, w, WindowEnd(w))) <= RateLimit
    /\ Cardinality(Passed(d, w, WindowEnd(w) + RateWindow)) <= 2 * RateLimit
================================================================================
