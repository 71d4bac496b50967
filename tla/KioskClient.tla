-------------------------------- MODULE KioskClient --------------------------------
(***************************************************************************)
(* The kiosk page: capture, submit, show the result, and the offline queue *)
(* in IndexedDB that is flushed every five seconds and when the browser    *)
(* comes online.                                                           *)
(*                                                                         *)
(* JavaScript runs one callback at a time, from await to await, but two    *)
(* captures, or two flushes, interleave at their awaits.  A frame is the   *)
(* capture that grabbed it; the backend is what answers its submissions.   *)
(***************************************************************************)
EXTENDS Integers, Sequences, FiniteSets

CONSTANTS
  Frames,        \* captures the kiosk may take
  Flushes,       \* flushes that may be under way at once
  Poison,        \* frames the backend always answers with an error status
  LocalCooldown, \* LOCAL_COOLDOWN_MS, in clock units
  MaxTime,       \* bound: last value of the clock
  MaxLosses,     \* bound: submissions or answers the network loses
  MaxReloads     \* bound: reloads of the page

ASSUME KioskConstantsOK ==
  /\ Poison \subseteq Frames /\ IsFiniteSet(Flushes)
  /\ LocalCooldown \in Nat /\ MaxTime \in Nat /\ MaxLosses \in Nat /\ MaxReloads \in Nat

VARIABLES
  now, state, lastSubmit,
  cpc,       \* where each capture is
  timers,    \* pending resetIdle timeouts
  hasDB,     \* IndexedDB could be opened when the page was loaded
  queue,     \* frames in it, in key order
  items,     \* what each flush has still to post
  served,    \* frames the backend has processed at least once
  late,      \* frame -> requests the page gave up and the backend may still get
  losses, reloads

net == <<served, late>>

bounds == <<losses, reloads>>
vars == <<now, state, lastSubmit, cpc, timers, hasDB, queue, items, net, bounds>>

InQueue(f) == \E i \in 1..Len(queue) : queue[i] = f

Init ==
  /\ now = LocalCooldown /\ lastSubmit = 0
  /\ state = "idle"
  /\ cpc = [f \in Frames |-> "new"]
  /\ timers = 0
  /\ hasDB \in BOOLEAN
  /\ queue = <<>>
  /\ items = [k \in Flushes |-> <<>>]
  /\ served = {}
  /\ late = [f \in Frames |-> 0]
  /\ losses = 0 /\ reloads = 0

Goto(f, from, to) == cpc[f] = from /\ cpc' = [cpc EXCEPT ![f] = to]

\* ---- Capture -------------------------------------------------------------------
\* Checked when the capture starts; grabbing the frame is then awaited and the
\* state stays "idle" meanwhile.
Throttled == now - lastSubmit < LocalCooldown

CaptureAuto(f) ==
  /\ Goto(f, "new", "auto")
  /\ state = "idle" /\ ~ Throttled
  /\ UNCHANGED <<now, state, lastSubmit, timers, hasDB, queue, items, net, bounds>>

CaptureManual(f) ==
  /\ Goto(f, "new", "manual")
  /\ state = "idle"
  /\ UNCHANGED <<now, state, lastSubmit, timers, hasDB, queue, items, net, bounds>>

Grabbing(f) == cpc[f] \in {"auto", "manual"}

\* The video has no picture yet.
GrabNothing(f) ==
  /\ Grabbing(f)
  /\ cpc' = [cpc EXCEPT ![f] = "void"]
  /\ UNCHANGED <<now, state, lastSubmit, timers, hasDB, queue, items, net, bounds>>

Submit(f) ==
  /\ Grabbing(f)
  /\ cpc' = [cpc EXCEPT ![f] = "posting"]
  /\ lastSubmit' = now
  /\ state' = "busy"
  /\ UNCHANGED <<now, timers, hasDB, queue, items, net, bounds>>

\* ---- What may become of one POST -------------------------------------------------
\* Answered 200.
Accepted(f) == f \notin Poison /\ served' = served \cup {f} /\ UNCHANGED <<late, losses>>

\* Answered with an error status.
Refused(f) == f \in Poison /\ UNCHANGED <<net, losses>>

\* fetch rejects, on the way there or on the way back.
Lost(f) ==
  /\ losses < MaxLosses /\ losses' = losses + 1
  /\ late' = IF f \in Poison THEN late ELSE [late EXCEPT ![f] = @ + 1]
  /\ UNCHANGED served

\* The backend gets a request nobody waits for any more, if it ever does.
ArriveLate(f) ==
  /\ late[f] > 0 /\ late' = [late EXCEPT ![f] = @ - 1]
  /\ served' = served \cup {f}
  /\ UNCHANGED <<now, state, lastSubmit, cpc, timers, hasDB, queue, items, bounds>>

ShowResult(f) ==
  /\ Goto(f, "posting", "answered")
  /\ Accepted(f)
  /\ state' = "result"
  /\ timers' = timers + 1
  /\ UNCHANGED <<now, lastSubmit, hasDB, queue, items, reloads>>

\* A slip: the frame is queued and the page stays busy.
QueuePutStaysBusy(f) ==
  /\ Goto(f, "posting", "queued")
  /\ hasDB
  /\ Refused(f) \/ Lost(f)
  /\ queue' = Append(queue, f)
  /\ UNCHANGED <<now, state, lastSubmit, timers, hasDB, items, reloads>>

QueuePut(f) ==
  /\ Goto(f, "posting", "queued")
  /\ hasDB
  /\ Refused(f) \/ Lost(f)
  /\ queue' = Append(queue, f)
  /\ state' = "idle"
  /\ UNCHANGED <<now, lastSubmit, timers, hasDB, items, reloads>>

\* Without a database queuePut returns at once, and the frame is gone.
Drop(f) ==
  /\ Goto(f, "posting", "dropped")
  /\ ~ hasDB
  /\ Refused(f) \/ Lost(f)
  /\ state' = "idle"
  /\ UNCHANGED <<now, lastSubmit, timers, hasDB, queue, items, reloads>>

\* A slip: the timer leaves a state the page does not have.
ResetToPrompt ==
  /\ timers > 0 /\ timers' = timers - 1
  /\ state' = "prompt"
  /\ UNCHANGED <<now, lastSubmit, cpc, hasDB, queue, items, net, bounds>>

\* The timeout of some earlier result, whatever the page is doing now.
ResetIdle ==
  /\ timers > 0 /\ timers' = timers - 1
  /\ state' = "idle"
  /\ UNCHANGED <<now, lastSubmit, cpc, hasDB, queue, items, net, bounds>>

\* ---- Flush -----------------------------------------------------------------------
\* A slip: no flush starts again once a submission was lost.
StartFlushOnce(k) ==
  /\ hasDB /\ items[k] = <<>> /\ queue # <<>> /\ losses = 0
  /\ items' = [items EXCEPT ![k] = queue]
  /\ UNCHANGED <<now, state, lastSubmit, cpc, timers, hasDB, queue, net, bounds>>

\* Nothing keeps a flush from starting while another is under way.
StartFlush(k) ==
  /\ hasDB /\ items[k] = <<>> /\ queue # <<>>
  /\ items' = [items EXCEPT ![k] = queue]
  /\ UNCHANGED <<now, state, lastSubmit, cpc, timers, hasDB, queue, net, bounds>>

\* By key: a frame that another flush has deleted meanwhile is deleted twice.
QueueDel(f) ==
  \/ /\ ~ InQueue(f) /\ UNCHANGED queue
  \/ \E i \in 1..Len(queue) :
       queue[i] = f /\ queue' = SubSeq(queue, 1, i - 1) \o SubSeq(queue, i + 1, Len(queue))

FlushOne(k) ==
  /\ items[k] # <<>>
  /\ Accepted(Head(items[k]))
  /\ QueueDel(Head(items[k]))
  /\ items' = [items EXCEPT ![k] = Tail(@)]
  /\ UNCHANGED <<now, state, lastSubmit, cpc, timers, hasDB, reloads>>

\* Slips: a failed frame is skipped, or deleted.
FlushSkips(k) ==
  /\ items[k] # <<>>
  /\ Refused(Head(items[k])) \/ Lost(Head(items[k]))
  /\ items' = [items EXCEPT ![k] = Tail(@)]
  /\ UNCHANGED <<now, state, lastSubmit, cpc, timers, hasDB, queue, reloads>>

FlushDeletes(k) ==
  /\ items[k] # <<>>
  /\ Refused(Head(items[k])) \/ Lost(Head(items[k]))
  /\ QueueDel(Head(items[k]))
  /\ items' = [items EXCEPT ![k] = Tail(@)]
  /\ UNCHANGED <<now, state, lastSubmit, cpc, timers, hasDB, reloads>>

\* The first failure ends the flush.
FlushFails(k) ==
  /\ items[k] # <<>>
  /\ Refused(Head(items[k])) \/ Lost(Head(items[k]))
  /\ items' = [items EXCEPT ![k] = <<>>]
  /\ UNCHANGED <<now, state, lastSubmit, cpc, timers, hasDB, queue, reloads>>

\* ---- Page and time -----------------------------------------------------------------
\* Requests for a frame that are under way.
Posts(f) ==
  Cardinality({k \in Flushes : items[k] # <<>> /\ Head(items[k]) = f})
    + (IF cpc[f] = "posting" THEN 1 ELSE 0)

\* A reload, a new configuration or a power cut: what is in IndexedDB stays, if it can
\* be opened, and a frame that is being grabbed or posted is gone.
Reload ==
  /\ reloads < MaxReloads /\ reloads' = reloads + 1
  /\ state' = "idle" /\ lastSubmit' = 0 /\ timers' = 0
  /\ hasDB' \in BOOLEAN
  /\ cpc' = [f \in Frames |-> IF Grabbing(f) \/ cpc[f] = "posting" THEN "gone" ELSE cpc[f]]
  /\ items' = [k \in Flushes |-> <<>>]
  /\ late' = [f \in Frames |-> late[f] + (IF f \in Poison THEN 0 ELSE Posts(f))]
  /\ UNCHANGED <<now, queue, served, losses>>

Tick ==
  /\ now < MaxTime /\ now' = now + 1
  /\ UNCHANGED <<state, lastSubmit, cpc, timers, hasDB, queue, items, net, bounds>>

\* ---- Specification -------------------------------------------------------------------
Capture(f) == CaptureAuto(f) \/ CaptureManual(f) \/ GrabNothing(f) \/ Submit(f)
Answer(f) == ShowResult(f) \/ QueuePut(f) \/ Drop(f)
Flush(k) == StartFlush(k) \/ FlushOne(k) \/ FlushFails(k)

Next ==
  \/ \E f \in Frames : Capture(f) \/ Answer(f) \/ ArriveLate(f)
  \/ \E k \in Flushes : Flush(k)
  \/ ResetIdle \/ Reload \/ Tick

Spec == Init /\ [][Next]_vars

\* fetch settles, the timers and intervals of the browser fire.
FairSpec ==
  /\ Spec
  /\ \A f \in Frames : WF_vars(Answer(f))
  /\ \A k \in Flushes : WF_vars(Flush(k))
  /\ WF_vars(ResetIdle)

\* ---- Properties -----------------------------------------------------------------------
TypeOK ==
  /\ now \in Nat /\ lastSubmit \in Nat /\ timers \in Nat
  /\ state \in {"idle", "busy", "result"}
  /\ cpc \in [Frames -> {"new", "auto", "manual", "void", "posting", "answered", "queued", "dropped", "gone"}]
  /\ hasDB \in BOOLEAN
  /\ queue \in Seq(Frames)
  /\ items \in [Flushes -> Seq(Frames)]
  /\ served \subseteq Frames
  /\ late \in [Frames -> Nat]
  /\ losses \in Nat /\ reloads \in Nat

\* A frame whose submission failed is in the queue until the backend has processed
\* it, through overlapping flushes, lost answers and reloads: none is dropped.
QueuedUntilServed == \A f \in Frames : cpc[f] = "queued" /\ f \notin served => InQueue(f)

\* Frames leave the queue in the order they entered it, though two flushes may post
\* from different snapshots of it.
Ahead(f, g) == \E i, j \in 1..Len(queue) : i < j /\ queue[i] = f /\ queue[j] = g
QueueIsFifo ==
  [][\A f, g \in Frames : Ahead(f, g) /\ ~ InQueue(g)' => ~ InQueue(f)']_vars

\* A queued frame leaves the queue in the end, once the network has stopped failing,
\* unless a frame the backend always refuses is ahead of it, or the page that was
\* loaded last could not open its database.
EventuallyFlushed ==
  \A f \in Frames \ Poison :
    (InQueue(f) /\ \A g \in Poison : ~ Ahead(g, f)) ~> (~ InQueue(f) \/ ~ hasDB)

\* The page is never stuck in "busy" or "result".
BackToIdle == (state # "idle") ~> (state = "idle")

\* ---- The inductive invariant behind the first two -----------------------------------------
\* A frame is in the queue once, from when its submission failed, and a flush posts no other.
QueueHasNoDuplicates ==
  /\ \A i, j \in 1..Len(queue) : queue[i] = queue[j] => i = j
  /\ \A i \in 1..Len(queue) : cpc[queue[i]] = "queued"
  /\ \A k \in Flushes : \A i \in 1..Len(items[k]) : cpc[items[k][i]] = "queued"

\* What is ahead of a frame that a flush has still to post, it posts before.
FlushesAreInOrder ==
  \A k \in Flushes : \A j \in 1..Len(items[k]) : \A f \in Frames :
    Ahead(f, items[k][j]) => \E i \in 1..(j - 1) : items[k][i] = f

\* ---- A claim --------------------------------------------------------------------------
\* A claim the code does not keep: "failed uploads queue in IndexedDB and retry", so
\* a frame the backend would take is not held up for ever.
QueueDrains == \A f \in Frames \ Poison : InQueue(f) ~> (~ InQueue(f) \/ ~ hasDB)
================================================================================
