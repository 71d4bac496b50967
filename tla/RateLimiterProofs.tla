----------------------------- MODULE RateLimiterProofs -----------------------------
(***************************************************************************)
(* What the fixed window admits, for any number of devices, submissions,   *)
(* faults and any delay of Redis.                                          *)
(*                                                                         *)
(* A counter has lives.  In one life it gives each submission it counts a  *)
(* number of its own, so it lets past no more than RateLimit of them.  A   *)
(* life that ends does so a whole window after an EXPIRE, which is sent    *)
(* after its window began: so the first life lasts until the window is     *)
(* over (FirstLife), the second begins after that and lasts until the next *)
(* window is over (SecondLife), and all others begin later (LaterLives).   *)
(***************************************************************************)
EXTENDS RateLimiter, FiniteSetTheorems, TLAPS

\* A time is in its window.
LEMMA TimeInWindow ==
  ASSUME LimiterConstantsOK, NEW t \in Nat
  PROVE  /\ WindowOf(t) \in Nat
         /\ WindowOf(t) * RateWindow <= t /\ t < WindowEnd(WindowOf(t))
         /\ WindowEnd(WindowOf(t)) = WindowOf(t) * RateWindow + RateWindow
         /\ WindowEnd(WindowOf(t)) \in Nat
  <1>1. RateWindow \in Nat \ {0}
    BY DEF LimiterConstantsOK
  <1>2. WindowOf(t) \in Nat /\ WindowOf(t) * RateWindow <= t
        /\ t < WindowOf(t) * RateWindow + RateWindow
    BY <1>1 DEF WindowOf
  <1>3. WindowEnd(WindowOf(t)) = WindowOf(t) * RateWindow + RateWindow
        /\ WindowOf(t) * RateWindow \in Nat
    BY <1>1, <1>2 DEF WindowEnd
  <1> QED BY <1>1, <1>2, <1>3

\* Every window is one of some time.
LEMMA WindowsTyped ==
  ASSUME LimiterConstantsOK, NEW w \in Windows
  PROVE  w \in Nat /\ WindowEnd(w) \in Nat
  <1>1. PICK t \in Nat : w = WindowOf(t)
    BY DEF Windows, LimiterConstantsOK
  <1> QED BY <1>1, TimeInWindow

\* A request's locals are set as far as it has come.
LimiterLocals ==
  \A r \in Requests :
    /\ pc[r] \in {"new", "count"} => nth[r] = 0
    /\ pc[r] \in {"expire", "counted"} => nth[r] # 0
    /\ pc[r] # "admitted" => at[r] = 0
    /\ pc[r] # "new" => dev[r] \in Devices /\ read[r] <= clock
    /\ at[r] # 0 => nth[r] \in 1..RateLimit /\ read[r] <= at[r]

\* They do at the start.
LEMMA LimiterStarts ==
  ASSUME LimiterConstantsOK, Init  PROVE  TypeOK /\ LimiterLocals
  BY DEF LimiterConstantsOK, Init, TypeOK, LimiterLocals, Counter

\* Every action keeps the types and the locals.
LEMMA LimiterTyped ==
  ASSUME LimiterConstantsOK, TypeOK, LimiterLocals, [Next]_vars
  PROVE  TypeOK' /\ LimiterLocals'
  <1> USE DEF LimiterConstantsOK, TypeOK, LimiterLocals, Waiting, Goto, locals
  <1>1. ASSUME NEW r \in Requests, NEW d \in Devices, Arrive(r, d)
        PROVE  TypeOK' /\ LimiterLocals'
    BY <1>1 DEF Arrive
  <1>2. ASSUME NEW r \in Requests, pc[r] # "new"
        PROVE  WindowOf(read[r]) \in Windows /\ HitsOf(r) \in Counter
    <2>1. dev[r] \in Devices /\ read[r] \in 0..MaxTime
      BY <1>2
    <2>2. WindowOf(read[r]) \in Windows
      BY <2>1 DEF Windows
    <2> QED BY <2>1, <2>2 DEF HitsOf
  <1>3. ASSUME NEW r \in Requests, Incr(r)  PROVE  TypeOK' /\ LimiterLocals'
    <2> DEFINE h == NextCount(HitsOf(r))
    <2>1. h \in Counter /\ h.count \in Nat \ {0}
      BY <1>2, <1>3 DEF Incr, NextCount, Counter, Lives
    <2> HIDE DEF h
    <2>2. /\ pc[r] = "count"
          /\ hits' = [hits EXCEPT ![dev[r]][WindowOf(read[r])] = h]
          /\ nth' = [nth EXCEPT ![r] = h.count]
          /\ pc' = [pc EXCEPT ![r] = IF h.count = 1 THEN "expire" ELSE "counted"]
          /\ UNCHANGED <<clock, dev, read, at, faults>>
      BY <1>3 DEF Incr, h
    <2>3. hits' \in [Devices -> [Windows -> Counter]]
      BY <2>1, <2>2
    <2> QED BY <2>1, <2>2, <2>3
  <1>4. ASSUME NEW r \in Requests, Expire(r)  PROVE  TypeOK' /\ LimiterLocals'
    <2>1. [count |-> HitsOf(r).count, until |-> clock + RateWindow] \in Counter
      BY <1>2, <1>4 DEF Expire, Counter
    <2>2. hits' \in [Devices -> [Windows -> Counter]]
      BY <1>4, <2>1 DEF Expire
    <2> QED BY <1>4, <2>2 DEF Expire
  <1>5. ASSUME NEW r \in Requests, Throttle(r)  PROVE  TypeOK' /\ LimiterLocals'
    BY <1>5 DEF Throttle
  <1>8. CASE Crash
    BY <1>8 DEF Crash, Fault
  <1>9. CASE Tick \/ UNCHANGED vars
    BY <1>9 DEF Tick, vars
  <1>7. ASSUME NEW r \in Requests, Fail(r)  PROVE  TypeOK' /\ LimiterLocals'
    BY <1>7 DEF Fail, Fault
  <1>6. ASSUME NEW r \in Requests, Admit(r)  PROVE  TypeOK' /\ LimiterLocals'
    <2>1. nth[r] \in 1..RateLimit /\ read[r] <= clock
      BY <1>6 DEF Admit, RateLimited
    <2>2. /\ pc[r] = "counted" /\ pc' = [pc EXCEPT ![r] = "admitted"]
          /\ at' = [at EXCEPT ![r] = clock]
          /\ UNCHANGED <<clock, hits, dev, read, nth, faults>>
      BY <1>6 DEF Admit
    <2> QED BY <2>1, <2>2
  <1> QED BY <1>1, <1>3, <1>4, <1>5, <1>6, <1>7, <1>8, <1>9 DEF Next

\* The requests that the counter of d and w has counted.  In one life of it they have
\* different numbers, none of them above its value.
Counted(d, w) ==
  {r \in Requests : dev[r] = d /\ WindowOf(read[r]) = w /\ nth[r] # 0}
Distinct(S) == \A r, q \in S : nth[r] = nth[q] => r = q
Numbered(S, d, w) == Distinct(S) /\ \A r \in S : nth[r] <= hits[d][w].count
LivesUntil(d, w, t) == hits[d][w].until # 0 => hits[d][w].until >= t
NotPassedBefore(S, t) == \A r \in S : at[r] # 0 => at[r] >= t

\* The counter's first life ends after the window, the second after the next one.
FirstLife(d, w) ==
  /\ LivesUntil(d, w, WindowEnd(w))
  /\ Numbered(Counted(d, w), d, w)

SecondLife(d, w) ==
  /\ clock >= WindowEnd(w)
  /\ LivesUntil(d, w, WindowEnd(w) + RateWindow)
  /\ \E A \in SUBSET Counted(d, w) :
       /\ Distinct(A)
       /\ Numbered(Counted(d, w) \ A, d, w)
       /\ NotPassedBefore(Counted(d, w) \ A, WindowEnd(w))

LaterLives(d, w) ==
  /\ clock >= WindowEnd(w) + RateWindow
  /\ \E A, B \in SUBSET Counted(d, w) :
       /\ Distinct(A) /\ Distinct(B)
       /\ NotPassedBefore(Counted(d, w) \ A, WindowEnd(w))
       /\ NotPassedBefore(Counted(d, w) \ (A \cup B), WindowEnd(w) + RateWindow)

Life(d, w) == FirstLife(d, w) \/ SecondLife(d, w) \/ LaterLives(d, w)

CountersInv == \A d \in Devices, w \in Windows : Life(d, w)

LimiterInv == TypeOK /\ LimiterLocals /\ CountersInv

\* A step that does not write the counter or count anybody for it: who is let past now is
\* not let past before a time that is over.
LEMMA CounterAlone ==
  ASSUME LimiterConstantsOK, LimiterInv, NEW d \in Devices, NEW w \in Windows,
         clock' \in Nat, clock <= clock', hits'[d][w] = hits[d][w],
         Counted(d, w)' = Counted(d, w),
         \A q \in Counted(d, w) : nth'[q] = nth[q] /\ (at'[q] = at[q] \/ at'[q] = clock)
  PROVE  Life(d, w)'
  <1>0. PICK C \in SUBSET Requests, end \in Nat : C = Counted(d, w) /\ end = WindowEnd(w)
    BY WindowsTyped DEF Counted
  <1>1. end \in Nat /\ RateWindow \in Nat /\ clock \in Nat
    BY DEF LimiterConstantsOK, LimiterInv, TypeOK
  <1>2. Counted(d, w)' = C /\ WindowEnd(w)' = end
    BY <1>0 DEF WindowEnd
  <1>3. \A q \in C : at[q] \in Nat /\ nth[q] \in Nat
    BY <1>0 DEF LimiterInv, TypeOK, Counted
  <1>4. ASSUME NEW S \in SUBSET C  PROVE  Distinct(S) => Distinct(S)'
    BY <1>0, <1>4 DEF Distinct
  <1>5. ASSUME NEW S \in SUBSET C  PROVE  Numbered(S, d, w) => Numbered(S, d, w)'
    BY <1>0, <1>5 DEF Distinct, Numbered
  <1>6. ASSUME NEW S \in SUBSET C, NEW t \in Nat, clock >= t
        PROVE  NotPassedBefore(S, t) => NotPassedBefore(S, t)'
    BY <1>0, <1>6 DEF NotPassedBefore
  <1>7. ASSUME NEW t \in Nat, LivesUntil(d, w, t)  PROVE LivesUntil(d, w, t)'
    BY <1>7 DEF LivesUntil
  <1>8. CASE FirstLife(d, w)
    <2>1. FirstLife(d, w)'
      BY <1>0, <1>1, <1>2, <1>5, <1>7, <1>8 DEF FirstLife
    <2> QED BY <2>1 DEF Life
  <1>9. CASE SecondLife(d, w)
    <2>1. PICK A \in SUBSET C :
            Distinct(A) /\ Numbered(C \ A, d, w) /\ NotPassedBefore(C \ A, end)
      BY <1>0, <1>9 DEF SecondLife
    <2>2. clock >= end /\ LivesUntil(d, w, end + RateWindow)
      BY <1>0, <1>9 DEF SecondLife
    <2>3. Distinct(A)' /\ Numbered(C \ A, d, w)' /\ NotPassedBefore(C \ A, end)'
      BY <1>1, <1>4, <1>5, <1>6, <2>1, <2>2
    <2>4. clock' >= end /\ LivesUntil(d, w, end + RateWindow)'
      BY <1>1, <1>7, <2>2
    <2>5. SecondLife(d, w)'
      BY <1>0, <1>2, <2>3, <2>4 DEF SecondLife
    <2> QED BY <2>5 DEF Life
  <1>10. CASE LaterLives(d, w)
    <2>1. PICK A \in SUBSET C, B \in SUBSET C :
            /\ Distinct(A) /\ Distinct(B)
            /\ NotPassedBefore(C \ A, end) /\ NotPassedBefore(C \ (A \cup B), end + RateWindow)
      BY <1>0, <1>10 DEF LaterLives
    <2>2. clock >= end + RateWindow /\ clock >= end
      BY <1>0, <1>1, <1>10 DEF LaterLives
    <2>3. /\ Distinct(A)' /\ Distinct(B)'
          /\ NotPassedBefore(C \ A, end)' /\ NotPassedBefore(C \ (A \cup B), end + RateWindow)'
      BY <1>1, <1>4, <1>6, <2>1, <2>2
    <2>4. clock' >= end + RateWindow
      BY <1>1, <2>2
    <2>5. LaterLives(d, w)'
      BY <1>0, <1>2, <2>3, <2>4 DEF LaterLives
    <2> QED BY <2>5 DEF Life
  <1> QED BY <1>8, <1>9, <1>10 DEF LimiterInv, CountersInv, Life

\* EXPIRE: the counter lives for a window from now, and the request's window has begun.
LEMMA ExpireKeeps ==
  ASSUME LimiterConstantsOK, LimiterInv, NEW r \in Requests, Expire(r)
  PROVE  CountersInv'
  <1>0. PICK e \in Devices, v \in Windows : e = dev[r] /\ v = WindowOf(read[r])
    <2>1. pc[r] = "expire" /\ read[r] \in 0..MaxTime
      BY DEF Expire, Goto, LimiterInv, TypeOK
    <2> QED BY <2>1 DEF Windows, LimiterInv, LimiterLocals
  <1>1. /\ pc[r] = "expire" /\ read[r] \in Nat /\ read[r] <= clock
        /\ clock \in Nat /\ hits \in [Devices -> [Windows -> Counter]]
        /\ RateWindow \in Nat
    <2>1. pc[r] = "expire" /\ read[r] \in 0..MaxTime /\ MaxTime \in Nat
      BY DEF Expire, Goto, LimiterInv, TypeOK, LimiterConstantsOK
    <2> QED BY <2>1 DEF LimiterInv, LimiterLocals, TypeOK, LimiterConstantsOK
  <1>2. /\ UNCHANGED <<clock, dev, read, nth, at>>
        /\ hits' = [hits EXCEPT ![e][v] =
                      [count |-> hits[e][v].count, until |-> clock + RateWindow]]
    BY <1>0 DEF Expire, locals, HitsOf
  <1>3. \A d \in Devices, w \in Windows : Counted(d, w)' = Counted(d, w)
    BY <1>2 DEF Counted
  <1>4. v \in Nat /\ clock + RateWindow >= WindowEnd(v) /\ WindowEnd(v) \in Nat
    <2>1. WindowEnd(v) = v * RateWindow + RateWindow /\ v * RateWindow <= read[r]
          /\ v \in Nat /\ WindowEnd(v) \in Nat
      BY <1>0, <1>1, TimeInWindow
    <2>2. v * RateWindow \in Int
      BY <1>1, <2>1
    <2> QED BY <1>1, <2>1, <2>2
  <1>5. hits'[e][v] = [count |-> hits[e][v].count, until |-> clock + RateWindow]
    BY <1>1, <1>2
  <1>6. Life(e, v)'
    <2>1. \A S : Numbered(S, e, v) => Numbered(S, e, v)'
      BY <1>2, <1>5 DEF Numbered, Distinct
    <2>2. \A S, t : NotPassedBefore(S, t) => NotPassedBefore(S, t)'
      BY <1>2 DEF NotPassedBefore
    <2>3. \A S : Distinct(S) => Distinct(S)'
      BY <1>2 DEF Distinct
    <2>4. Counted(e, v)' = Counted(e, v) /\ WindowEnd(v)' = WindowEnd(v) /\ clock' = clock
      BY <1>1, <1>2, <1>3 DEF WindowEnd
    <2>5. CASE FirstLife(e, v)
      <3>1. LivesUntil(e, v, WindowEnd(v))'
        BY <1>4, <1>5, <2>4 DEF LivesUntil
      <3>2. FirstLife(e, v)'
        BY <2>1, <2>4, <2>5, <3>1 DEF FirstLife
      <3> QED BY <3>2 DEF Life
    <2>6. CASE SecondLife(e, v)
      <3>1. LivesUntil(e, v, WindowEnd(v) + RateWindow)'
        <4>1. clock + RateWindow >= WindowEnd(v) + RateWindow
          BY <1>1, <1>4, <2>6 DEF SecondLife
        <4> QED BY <1>5, <2>4, <4>1 DEF LivesUntil
      <3>2. SecondLife(e, v)'
        BY <2>1, <2>2, <2>3, <2>4, <2>6, <3>1 DEF SecondLife
      <3> QED BY <3>2 DEF Life
    <2>7. CASE LaterLives(e, v)
      <3>1. LaterLives(e, v)'
        BY <2>2, <2>3, <2>4, <2>7 DEF LaterLives
      <3> QED BY <3>1 DEF Life
    <2> QED BY <1>1, <2>5, <2>6, <2>7 DEF LimiterInv, CountersInv, Life
  <1>7. ASSUME NEW d \in Devices, NEW w \in Windows, ~ (d = e /\ w = v)  PROVE  Life(d, w)'
    <2>1. hits'[d][w] = hits[d][w]
      BY <1>1, <1>2, <1>7
    <2> QED BY <1>1, <1>2, <1>3, <2>1, CounterAlone
  <1> QED BY <1>6, <1>7 DEF CountersInv

\* INCR counts a request for the life the counter is in, or begins the next one if that is
\* over: then the time is past its end.
LEMMA IncrKeeps ==
  ASSUME LimiterConstantsOK, LimiterInv, NEW r \in Requests, Incr(r)
  PROVE  CountersInv'
  <1>0. PICK e \in Devices, v \in Windows : e = dev[r] /\ v = WindowOf(read[r])
    <2>1. pc[r] = "count" /\ read[r] \in 0..MaxTime
      BY DEF Incr, LimiterInv, TypeOK
    <2> QED BY <2>1 DEF Windows, LimiterInv, LimiterLocals
  <1>1. /\ clock \in Nat /\ RateWindow \in Nat /\ RateWindow * 1 = RateWindow
        /\ hits \in [Devices -> [Windows -> Counter]] /\ hits[e][v] \in Counter
        /\ nth \in [Requests -> Nat] /\ nth[r] = 0 /\ at[r] = 0
    BY DEF Incr, LimiterInv, LimiterLocals, TypeOK, LimiterConstantsOK
  <1>2. PICK n \in Nat \ {0}, u \in Nat :
          /\ [count |-> n, until |-> u] = NextCount(hits[e][v])
          /\ IF Lives(hits[e][v])
             THEN n = hits[e][v].count + 1 /\ u = hits[e][v].until
             ELSE n = 1 /\ u = 0
    BY <1>1 DEF NextCount, Counter
  <1>3. /\ UNCHANGED <<clock, dev, read, at>> /\ nth' = [nth EXCEPT ![r] = n]
        /\ hits' = [hits EXCEPT ![e][v] = [count |-> n, until |-> u]]
    <2>1. HitsOf(r) = hits[e][v]
      BY <1>0 DEF HitsOf
    <2>2. NextCount(HitsOf(r)).count = n
      BY <1>2, <2>1
    <2> QED BY <1>0, <1>2, <2>1, <2>2 DEF Incr
  <1>4. PICK C \in SUBSET Requests, end \in Nat : C = Counted(e, v) /\ end = WindowEnd(v)
    BY WindowsTyped DEF Counted
  <1>5. /\ r \notin C /\ Counted(e, v)' = C \cup {r} /\ WindowEnd(v)' = end
        /\ \A d \in Devices, w \in Windows : ~ (d = e /\ w = v) => Counted(d, w)' = Counted(d, w)
    BY <1>0, <1>1, <1>3, <1>4 DEF Counted, WindowEnd
  <1>6. /\ hits'[e][v].count = n /\ hits'[e][v].until = u
        /\ nth'[r] = n /\ \A q \in C : nth'[q] = nth[q]
    BY <1>1, <1>3, <1>5
  <1>7. Life(e, v)'
    <2>1. ASSUME NEW S \in SUBSET C, Distinct(S)  PROVE  Distinct(S)'
      BY <1>6, <2>1 DEF Distinct
    <2>2. ASSUME NEW S \in SUBSET C, Numbered(S, e, v), Lives(hits[e][v])
          PROVE  Numbered(S \cup {r}, e, v)'
      <3>1. hits[e][v].count \in Nat /\ n = hits[e][v].count + 1
        BY <1>1, <1>2, <2>2 DEF Counter
      <3>2. \A q \in S : nth[q] <= hits[e][v].count /\ nth[q] \in Nat
        BY <1>1, <2>2 DEF Numbered
      <3>3. \A q \in S : nth'[q] = nth[q] /\ nth'[q] < n
        BY <1>6, <3>1, <3>2
      <3>4. \A p, q \in S \cup {r} : nth'[p] = nth'[q] => p = q
        BY <1>6, <2>2, <3>1, <3>2, <3>3 DEF Numbered, Distinct
      <3> QED BY <1>6, <3>2, <3>3, <3>4 DEF Numbered, Distinct
    <2>3. Numbered({r}, e, v)'
      BY <1>6 DEF Numbered, Distinct
    <2>4. ASSUME NEW S \in SUBSET C, NEW t \in Nat, NotPassedBefore(S, t)
          PROVE  NotPassedBefore(S, t)' /\ NotPassedBefore(S \cup {r}, t)'
      BY <1>1, <1>3, <2>4 DEF NotPassedBefore
    <2>5. NotPassedBefore({r}, end)' /\ NotPassedBefore({r}, end + RateWindow)'
      BY <1>1, <1>3 DEF NotPassedBefore
    <2>6. CASE FirstLife(e, v)
      <3>1. Numbered(C, e, v) /\ LivesUntil(e, v, end)
        BY <1>4, <2>6 DEF FirstLife
      <3>2. CASE Lives(hits[e][v])
        <4>1. Numbered(C \cup {r}, e, v)' /\ LivesUntil(e, v, end)'
          BY <1>2, <1>6, <2>2, <3>1, <3>2 DEF LivesUntil
        <4>2. FirstLife(e, v)'
          BY <1>5, <4>1 DEF FirstLife
        <4> QED BY <4>2 DEF Life
      <3>3. CASE ~ Lives(hits[e][v])
        <4>1. clock' >= end /\ u = 0
          BY <1>1, <1>2, <1>3, <3>1, <3>3 DEF Lives, LivesUntil, Counter
        <4>2. LivesUntil(e, v, end + RateWindow)'
          BY <1>6, <4>1 DEF LivesUntil
        <4>3. Distinct(C)' /\ (C \cup {r}) \ C = {r} /\ C \in SUBSET (C \cup {r})
          BY <1>5, <2>1, <3>1 DEF Numbered
        <4>4. SecondLife(e, v)'
          BY <1>5, <2>3, <2>5, <4>1, <4>2, <4>3 DEF SecondLife
        <4> QED BY <4>4 DEF Life
      <3> QED BY <3>2, <3>3
    <2>7. CASE SecondLife(e, v)
      <3>1. PICK A \in SUBSET C :
              Distinct(A) /\ Numbered(C \ A, e, v) /\ NotPassedBefore(C \ A, end)
        BY <1>4, <2>7 DEF SecondLife
      <3>2. clock >= end /\ LivesUntil(e, v, end + RateWindow)
        BY <1>4, <2>7 DEF SecondLife
      <3>3. (C \cup {r}) \ A = (C \ A) \cup {r} /\ A \in SUBSET (C \cup {r})
        BY <1>5
      <3>4. Distinct(A)' /\ NotPassedBefore((C \ A) \cup {r}, end)'
        BY <2>1, <2>4, <3>1
      <3>5. CASE Lives(hits[e][v])
        <4>1. Numbered((C \ A) \cup {r}, e, v)'
          BY <2>2, <3>1, <3>5
        <4>2. LivesUntil(e, v, end + RateWindow)' /\ clock' >= end
          BY <1>2, <1>3, <1>6, <3>2, <3>5 DEF LivesUntil
        <4>3. SecondLife(e, v)'
          BY <1>5, <3>3, <3>4, <4>1, <4>2 DEF SecondLife
        <4> QED BY <4>3 DEF Life
      <3>6. CASE ~ Lives(hits[e][v])
        <4>1. clock' >= end + RateWindow
          BY <1>1, <1>3, <3>2, <3>6 DEF Lives, LivesUntil, Counter
        <4>2. /\ C \ A \in SUBSET (C \cup {r}) /\ Distinct(C \ A)'
              /\ (C \cup {r}) \ (A \cup (C \ A)) = {r}
          BY <1>5, <2>1, <3>1 DEF Numbered
        <4>3. /\ NotPassedBefore((C \cup {r}) \ A, end)'
              /\ NotPassedBefore((C \cup {r}) \ (A \cup (C \ A)), end + RateWindow)'
          BY <2>5, <3>3, <3>4, <4>2
        <4>4. LaterLives(e, v)'
          BY <1>5, <3>3, <3>4, <4>1, <4>2, <4>3 DEF LaterLives
        <4> QED BY <4>4 DEF Life
      <3> QED BY <3>5, <3>6
    <2>8. CASE LaterLives(e, v)
      <3>1. PICK A \in SUBSET C, B \in SUBSET C :
              /\ Distinct(A) /\ Distinct(B)
              /\ NotPassedBefore(C \ A, end) /\ NotPassedBefore(C \ (A \cup B), end + RateWindow)
        BY <1>4, <2>8 DEF LaterLives
      <3>2. /\ (C \cup {r}) \ A = (C \ A) \cup {r} /\ A \in SUBSET (C \cup {r})
            /\ (C \cup {r}) \ (A \cup B) = (C \ (A \cup B)) \cup {r} /\ B \in SUBSET (C \cup {r})
        BY <1>5
      <3>3. /\ Distinct(A)' /\ Distinct(B)' /\ NotPassedBefore((C \ A) \cup {r}, end)'
            /\ NotPassedBefore((C \ (A \cup B)) \cup {r}, end + RateWindow)'
        BY <1>1, <2>1, <2>4, <3>1
      <3>4. clock' >= end + RateWindow
        BY <1>3, <1>4, <2>8 DEF LaterLives
      <3>6. /\ NotPassedBefore((C \cup {r}) \ A, end)'
            /\ NotPassedBefore((C \cup {r}) \ (A \cup B), end + RateWindow)'
        BY <3>2, <3>3
      <3>5. LaterLives(e, v)'
        BY <1>5, <3>2, <3>3, <3>4, <3>6 DEF LaterLives
      <3> QED BY <3>5 DEF Life
    <2> QED BY <2>6, <2>7, <2>8 DEF LimiterInv, CountersInv, Life
  <1>8. ASSUME NEW d \in Devices, NEW w \in Windows, ~ (d = e /\ w = v)  PROVE  Life(d, w)'
    <2>1. hits'[d][w] = hits[d][w] /\ Counted(d, w)' = Counted(d, w)
      BY <1>1, <1>3, <1>5, <1>8
    <2>2. r \notin Counted(d, w)
      BY <1>1 DEF Counted
    <2>3. \A q \in Counted(d, w) : nth'[q] = nth[q] /\ at'[q] = at[q]
      BY <1>3, <2>2 DEF Counted
    <2> QED BY <1>1, <1>3, <2>1, <2>3, CounterAlone
  <1> QED BY <1>7, <1>8 DEF CountersInv

\* Every step keeps it.
LEMMA LimiterSteps ==
  ASSUME LimiterConstantsOK, LimiterInv, [Next]_vars
  PROVE  LimiterInv'
  <1>1. TypeOK' /\ LimiterLocals'
    BY LimiterTyped DEF LimiterInv
  <1>2. ASSUME clock' \in Nat, clock <= clock', hits' = hits, nth' = nth,
               \A d \in Devices, w \in Windows : Counted(d, w)' = Counted(d, w),
               \A q \in Requests : at'[q] = at[q] \/ at'[q] = clock
        PROVE  CountersInv'
    <2> SUFFICES ASSUME NEW d \in Devices, NEW w \in Windows  PROVE  Life(d, w)'
      BY DEF CountersInv
    <2>1. \A q \in Counted(d, w) : nth'[q] = nth[q] /\ (at'[q] = at[q] \/ at'[q] = clock)
      BY <1>2 DEF Counted
    <2> QED BY <1>2, <2>1, CounterAlone
  <1>3. clock \in Nat /\ clock <= clock /\ clock + 1 \in Nat /\ clock <= clock + 1
        /\ at \in [Requests -> Nat] /\ dev \in [Requests -> Devices \cup {None}]
        /\ nth \in [Requests -> Nat]
    BY DEF LimiterInv, TypeOK, LimiterConstantsOK
  <1>4. ASSUME NEW r \in Requests, NEW d \in Devices, Arrive(r, d)  PROVE CountersInv'
    <2>1. /\ nth[r] = 0 /\ UNCHANGED <<clock, hits, nth, at>>
          /\ \A q \in Requests \ {r} : dev'[q] = dev[q] /\ read'[q] = read[q]
      BY <1>3, <1>4 DEF Arrive, Goto, LimiterInv, LimiterLocals, TypeOK
    <2>2. \A c \in Devices, w \in Windows : Counted(c, w)' = Counted(c, w)
      BY <2>1 DEF Counted
    <2> QED BY <1>2, <1>3, <2>1, <2>2
  <1>5. ASSUME NEW r \in Requests, Throttle(r) \/ Fail(r) \/ Admit(r)  PROVE CountersInv'
    <2>1. /\ UNCHANGED <<clock, hits, dev, read, nth>>
          /\ \A q \in Requests : at'[q] = at[q] \/ at'[q] = clock
      BY <1>3, <1>5 DEF Throttle, Fail, Admit, locals
    <2>2. \A c \in Devices, w \in Windows : Counted(c, w)' = Counted(c, w)
      BY <2>1 DEF Counted
    <2> QED BY <1>2, <1>3, <2>1, <2>2
  <1>6. ASSUME Crash \/ Tick \/ UNCHANGED vars  PROVE CountersInv'
    <2>1. UNCHANGED <<hits, dev, read, nth, at>> /\ clock' \in {clock, clock + 1}
      BY <1>6 DEF Crash, Tick, vars, locals
    <2>2. \A c \in Devices, w \in Windows : Counted(c, w)' = Counted(c, w)
      BY <2>1 DEF Counted
    <2>3. clock' \in Nat /\ clock <= clock' /\ hits' = hits /\ nth' = nth
          /\ \A q \in Requests : at'[q] = at[q] \/ at'[q] = clock
      BY <1>3, <2>1
    <2> QED BY <1>2, <2>2, <2>3
  <1>7. CountersInv'
    <2>1. ASSUME NEW r \in Requests, Incr(r) \/ Expire(r)  PROVE CountersInv'
      BY <2>1, IncrKeeps, ExpireKeeps
    <2>2. CASE Next
      BY <1>4, <1>5, <1>6, <2>1, <2>2 DEF Next
    <2> QED BY <1>6, <2>2
  <1> QED BY <1>1, <1>7 DEF LimiterInv

\* At the start nobody is counted.
LEMMA CountersStart == ASSUME LimiterConstantsOK, Init  PROVE  LimiterInv
  <1>1. \A d \in Devices, w \in Windows : Life(d, w)
    BY DEF Init, Counted, Numbered, Distinct, LivesUntil, FirstLife, Life
  <1> QED BY <1>1, LimiterStarts DEF LimiterInv, CountersInv

\* Requests let past that have different numbers are no more than the limit.
LEMMA DistinctAreFew ==
  ASSUME LimiterConstantsOK, LimiterInv, NEW S \in SUBSET Requests, Distinct(S),
         \A r \in S : at[r] # 0
  PROVE  IsFiniteSet(S) /\ Cardinality(S) <= RateLimit
  <1>1. RateLimit \in Nat
    BY DEF LimiterConstantsOK
  <1>2. PICK f : f = [r \in S |-> nth[r]]
    OBVIOUS
  <1>3. f \in [S -> 1..RateLimit] /\ \A r, q \in S : f[r] = f[q] => r = q
    BY <1>2 DEF LimiterInv, LimiterLocals, Distinct
  <1>4. f \in Injection(S, 1..RateLimit)
    BY <1>3 DEF Injection, IsInjective
  <1>5. IsFiniteSet(1..RateLimit) /\ Cardinality(1..RateLimit) = RateLimit
    BY <1>1, FS_Interval
  <1> QED BY <1>4, <1>5, FS_Injection

\* A set that two sets cover is no larger than both.
LEMMA TwoSets ==
  ASSUME NEW S, NEW T, NEW n \in Nat, NEW m \in Nat,
         IsFiniteSet(S) /\ Cardinality(S) <= n, IsFiniteSet(T) /\ Cardinality(T) <= m,
         NEW P \in SUBSET (S \cup T)
  PROVE  IsFiniteSet(P) /\ Cardinality(P) <= n + m
  <1>1. IsFiniteSet(S \cup T) /\ IsFiniteSet(S \cap T)
        /\ Cardinality(S \cup T) = Cardinality(S) + Cardinality(T) - Cardinality(S \cap T)
    BY FS_Union, FS_Subset
  <1>2. IsFiniteSet(P) /\ Cardinality(P) <= Cardinality(S \cup T)
    BY <1>1, FS_Subset
  <1>3. /\ Cardinality(S) \in Nat /\ Cardinality(T) \in Nat /\ Cardinality(P) \in Nat
        /\ Cardinality(S \cup T) \in Nat /\ Cardinality(S \cap T) \in Nat
    BY <1>1, <1>2, FS_CardinalityType
  <1> QED BY <1>1, <1>2, <1>3

\* What is let past while the window lasts is of one life, by the end of the next of two.
LEMMA LivesBound ==
  ASSUME LimiterConstantsOK, LimiterInv, NEW d \in Devices, NEW w \in Windows
  PROVE  LET end == WindowEnd(w)  IN
         /\ IsFiniteSet(Passed(d, w, end)) /\ Cardinality(Passed(d, w, end)) <= RateLimit
         /\ IsFiniteSet(Passed(d, w, end + RateWindow))
         /\ Cardinality(Passed(d, w, end + RateWindow)) <= 2 * RateLimit
  <1>0. PICK C, P, Q \in SUBSET Requests, end \in Nat :
          /\ C = Counted(d, w) /\ end = WindowEnd(w)
          /\ P = Passed(d, w, end) /\ Q = Passed(d, w, end + RateWindow)
    <2>1. /\ Counted(d, w) \in SUBSET Requests /\ WindowEnd(w) \in Nat
          /\ \A t : Passed(d, w, t) \in SUBSET Requests
      BY WindowsTyped DEF Counted, Passed
    <2> QED BY <2>1
  <1> SUFFICES /\ IsFiniteSet(P) /\ Cardinality(P) <= RateLimit
               /\ IsFiniteSet(Q) /\ Cardinality(Q) <= 2 * RateLimit
    BY <1>0
  <1>1. RateLimit \in Nat /\ RateWindow \in Nat /\ at \in [Requests -> Nat]
    BY DEF LimiterConstantsOK, LimiterInv, TypeOK
  <1>2. /\ P \subseteq C /\ Q \subseteq C
        /\ \A r \in P : at[r] # 0 /\ at[r] < end
        /\ \A r \in Q : at[r] # 0 /\ at[r] < end + RateWindow
    BY <1>0, <1>1 DEF Passed, Counted, LimiterInv, LimiterLocals
  <1>3. ASSUME NEW A \in SUBSET C, NEW B \in SUBSET C, Distinct(A), Distinct(B),
               \A r \in P : r \in A, \A r \in Q : r \in A \cup B
        PROVE  /\ IsFiniteSet(P) /\ Cardinality(P) <= RateLimit
               /\ IsFiniteSet(Q) /\ Cardinality(Q) <= 2 * RateLimit
    <2>1. Distinct(P) /\ Distinct(Q \cap A) /\ Distinct(Q \cap B)
      BY <1>3 DEF Distinct
    <2>2. /\ Q \cap A \in SUBSET Requests /\ Q \cap B \in SUBSET Requests
          /\ Q \in SUBSET ((Q \cap A) \cup (Q \cap B)) /\ P \in SUBSET Requests
      BY <1>2, <1>3
    <2>3. IsFiniteSet(P) /\ Cardinality(P) <= RateLimit
      BY <1>2, <2>1, <2>2, DistinctAreFew
    <2>4. /\ IsFiniteSet(Q \cap A) /\ Cardinality(Q \cap A) <= RateLimit
          /\ IsFiniteSet(Q \cap B) /\ Cardinality(Q \cap B) <= RateLimit
      BY <1>2, <2>1, <2>2, DistinctAreFew
    <2>5. IsFiniteSet(Q) /\ Cardinality(Q) <= RateLimit + RateLimit
      BY <1>1, <2>2, <2>4, TwoSets
    <2> QED BY <1>1, <2>3, <2>5
  <1>4. CASE FirstLife(d, w)
    BY <1>0, <1>2, <1>3, <1>4 DEF FirstLife, Numbered
  <1>5. CASE SecondLife(d, w)
    <2>1. PICK A \in SUBSET C : Distinct(A) /\ Distinct(C \ A) /\ NotPassedBefore(C \ A, end)
      BY <1>0, <1>5 DEF SecondLife, Numbered
    <2>2. \A r \in P : r \in A
      BY <1>1, <1>2, <2>1 DEF NotPassedBefore
    <2> QED BY <1>2, <1>3, <2>1, <2>2
  <1>6. CASE LaterLives(d, w)
    <2>1. PICK A \in SUBSET C, B \in SUBSET C :
            /\ Distinct(A) /\ Distinct(B) /\ NotPassedBefore(C \ A, end)
            /\ NotPassedBefore(C \ (A \cup B), end + RateWindow)
      BY <1>0, <1>6 DEF LaterLives
    <2>2. (\A r \in P : r \in A) /\ \A r \in Q : r \in A \cup B
      BY <1>1, <1>2, <2>1 DEF NotPassedBefore
    <2> QED BY <1>3, <2>1, <2>2
  <1> QED BY <1>0, <1>4, <1>5, <1>6 DEF LimiterInv, CountersInv, Life

\* An interval that is no longer than a window meets at most two.
LEMMA TwoWindows ==
  ASSUME LimiterConstantsOK, NEW t \in Nat, NEW x \in Nat, t <= x, x < t + RateWindow
  PROVE  /\ WindowOf(x) \in {WindowOf(t), WindowOf(t) + 1}
         /\ t + RateWindow < WindowEnd(WindowOf(t)) + RateWindow
         /\ WindowEnd(WindowOf(t)) + RateWindow = WindowEnd(WindowOf(t) + 1)
  <1>1. RateWindow \in Nat \ {0}
    BY DEF LimiterConstantsOK
  <1>2. PICK a \in Nat, b \in Nat : a = WindowOf(t) /\ b = WindowOf(x)
    BY TimeInWindow
  <1>3. /\ a * RateWindow <= t /\ t < a * RateWindow + RateWindow
        /\ b * RateWindow <= x /\ x < b * RateWindow + RateWindow
        /\ WindowEnd(a) = a * RateWindow + RateWindow
        /\ a * RateWindow \in Nat /\ b * RateWindow \in Nat
    BY <1>1, <1>2, TimeInWindow
  <1>4. (a + 1) * RateWindow = a * RateWindow + RateWindow
        /\ (a + 2) * RateWindow = a * RateWindow + 2 * RateWindow
    BY <1>1, <1>2
  <1>5. \A i, j \in Nat : i < j => i * RateWindow + RateWindow <= j * RateWindow
    <2> SUFFICES ASSUME NEW i \in Nat, NEW j \in Nat, i < j
                 PROVE  i * RateWindow + RateWindow <= j * RateWindow
      OBVIOUS
    <2>1. PICK k \in Nat : j = i + 1 + k
      <3>1. j - i - 1 \in Nat /\ j = i + 1 + (j - i - 1)
        OBVIOUS
      <3> QED BY <3>1
    <2>2. (i + 1 + k) * RateWindow = i * RateWindow + RateWindow + k * RateWindow
      BY <1>1
    <2>3. i * RateWindow \in Nat /\ k * RateWindow \in Nat
      BY <1>1
    <2> QED BY <1>1, <2>1, <2>2, <2>3
  <1>6. ~ (b < a)
    <2>1. b < a => b * RateWindow + RateWindow <= a * RateWindow
      BY <1>5
    <2>2. PICK m \in Nat, n \in Nat : m = a * RateWindow /\ n = b * RateWindow
      BY <1>3
    <2>3. m < n + RateWindow
      BY <1>1, <1>3, <2>2
    <2> QED BY <1>1, <2>1, <2>2, <2>3
  <1>7. ~ (a + 1 < b)
    <2>1. a + 1 \in Nat /\ (a + 1 < b => (a + 1) * RateWindow + RateWindow <= b * RateWindow)
      BY <1>5
    <2>2. (a + 1) * RateWindow \in Nat
      BY <1>1, <2>1
    <2>3. PICK m \in Nat, n \in Nat : m = (a + 1) * RateWindow /\ n = b * RateWindow
      BY <1>3, <2>2
    <2>4. n < m + RateWindow
      BY <1>1, <1>3, <1>4, <2>3
    <2> QED BY <1>1, <2>1, <2>3, <2>4
  <1>8. b \in {a, a + 1}
    BY <1>6, <1>7
  <1>9. WindowEnd(a + 1) = WindowEnd(a) + RateWindow
    BY <1>1, <1>3, <1>4 DEF WindowEnd
  <1> QED BY <1>1, <1>2, <1>3, <1>8, <1>9

\* Of a window there is no time in, nobody is let past.
LEMMA PassedBound ==
  ASSUME LimiterConstantsOK, LimiterInv, NEW d \in Devices, NEW w \in Nat
  PROVE  /\ IsFiniteSet(Passed(d, w, WindowEnd(w)))
         /\ Cardinality(Passed(d, w, WindowEnd(w))) <= RateLimit
         /\ IsFiniteSet(Passed(d, w, WindowEnd(w) + RateWindow))
         /\ Cardinality(Passed(d, w, WindowEnd(w) + RateWindow)) <= 2 * RateLimit
  <1>1. CASE w \in Windows
    BY <1>1, LivesBound
  <1>2. CASE w \notin Windows
    <2>1. \A t : Passed(d, w, t) = {}
      BY <1>2 DEF Passed, Windows, LimiterInv, TypeOK
    <2>2. RateLimit \in Nat /\ 2 * RateLimit >= 0
      BY DEF LimiterConstantsOK
    <2>3. IsFiniteSet({}) /\ Cardinality({}) = 0
      BY FS_EmptySet
    <2>4. Passed(d, w, WindowEnd(w)) = {} /\ Passed(d, w, WindowEnd(w) + RateWindow) = {}
      BY <2>1
    <2> QED BY <2>2, <2>3, <2>4
  <1> QED BY <1>1, <1>2

\* The invariant holds in every behaviour.
LEMMA LimiterInductive == ASSUME LimiterConstantsOK  PROVE  Spec => []LimiterInv
  <1>1. Init => LimiterInv
    BY CountersStart
  <1>2. LimiterInv /\ [Next]_vars => LimiterInv'
    BY LimiterSteps
  <1> QED BY <1>1, <1>2, PTL DEF Spec

\* Every variable stays in its type.
THEOREM TypeCorrect == ASSUME LimiterConstantsOK  PROVE  Spec => []TypeOK
  BY LimiterInductive, PTL DEF LimiterInv

\* Of what a device begins in one window, no more than the limit is let past while the
\* window lasts, and no more than twice the limit by the end of the next.
THEOREM LimitIsKept == ASSUME LimiterConstantsOK  PROVE  Spec => []WithinRateLimit
  <1>1. LimiterInv => WithinRateLimit
    BY LivesBound DEF WithinRateLimit
  <1> QED BY <1>1, LimiterInductive, PTL

\* Who began and ended its check between t and t + RateWindow.
PassedWithin(d, t) ==
  {r \in Requests : dev[r] = d /\ t <= read[r] /\ at[r] # 0 /\ at[r] < t + RateWindow}

\* In any interval as long as a window a device has no more than three times the limit
\* of checks begun and passed: it meets two windows, and of the first two lives.
THEOREM LimitOfAnyInterval ==
  ASSUME LimiterConstantsOK
  PROVE  Spec => [](\A d \in Devices, t \in Nat :
                      Cardinality(PassedWithin(d, t)) <= 3 * RateLimit)
  <1>1. ASSUME LimiterInv, NEW d \in Devices, NEW t \in Nat
        PROVE  Cardinality(PassedWithin(d, t)) <= 3 * RateLimit
    <2>1. PICK w \in Nat, limit \in Nat, n \in Nat :
            w = WindowOf(t) /\ limit = RateLimit /\ n = 2 * RateLimit
      BY TimeInWindow DEF LimiterConstantsOK
    <2>2. PICK P, first, second \in SUBSET Requests :
            /\ P = PassedWithin(d, t)
            /\ first = Passed(d, w, WindowEnd(w) + RateWindow)
            /\ second = Passed(d, w + 1, WindowEnd(w + 1))
      <3>1. /\ PassedWithin(d, t) \in SUBSET Requests
            /\ \A v, u : Passed(d, v, u) \in SUBSET Requests
        BY DEF PassedWithin, Passed
      <3> QED BY <3>1
    <2>3. P \subseteq first \cup second
      <3> SUFFICES ASSUME NEW r \in P  PROVE  r \in first \cup second
        OBVIOUS
      <3>0. /\ r \in Requests /\ dev[r] = d /\ at[r] # 0
            /\ t <= read[r] /\ at[r] < t + RateWindow
        BY <2>2 DEF PassedWithin
      <3>1. /\ read[r] \in Nat /\ at[r] \in Nat /\ RateWindow \in Nat
            /\ read[r] <= at[r] /\ read[r] < t + RateWindow
        BY <1>1, <3>0 DEF LimiterInv, LimiterLocals, TypeOK, LimiterConstantsOK
      <3>2. /\ WindowOf(read[r]) \in {w, w + 1}
            /\ t + RateWindow < WindowEnd(w) + RateWindow
            /\ WindowEnd(w) + RateWindow = WindowEnd(w + 1)
            /\ WindowEnd(w) \in Nat
        BY <2>1, <3>0, <3>1, TwoWindows, TimeInWindow
      <3>3. at[r] < WindowEnd(w) + RateWindow
        BY <3>0, <3>1, <3>2
      <3> QED BY <2>2, <3>0, <3>1, <3>2, <3>3 DEF Passed
    <2>4. /\ IsFiniteSet(first) /\ Cardinality(first) <= n
          /\ IsFiniteSet(second) /\ Cardinality(second) <= limit
      BY <1>1, <2>1, <2>2, PassedBound
    <2>5. Cardinality(P) <= n + limit
      BY <2>3, <2>4, TwoSets
    <2> QED BY <2>1, <2>2, <2>5
  <1>2. LimiterInv =>
          \A d \in Devices, t \in Nat : Cardinality(PassedWithin(d, t)) <= 3 * RateLimit
    BY <1>1
  <1> QED BY <1>2, LimiterInductive, PTL
====================================================================================
