---------------------------- MODULE KioskClientProofs ----------------------------
(***************************************************************************)
(* The kiosk's queue loses nothing and stays in order, for any number of   *)
(* frames, flushes, losses and reloads.                                    *)
(*                                                                         *)
(* A frame is in the queue at most once (QueueHasNoDuplicates), and what   *)
(* is ahead of a frame that a flush has still to post is posted before it  *)
(* by the same flush (FlushesAreInOrder): when a flush deletes a frame,    *)
(* nothing is ahead of it.                                                 *)
(***************************************************************************)
EXTENDS KioskClient, SequenceTheorems, FiniteSetTheorems, TLAPS

IInv == TypeOK /\ QueuedUntilServed /\ QueueHasNoDuplicates /\ FlushesAreInOrder

\* The queue without one of its elements.
LEMMA Removal ==
  ASSUME queue \in Seq(Frames), NEW i \in 1..Len(queue),
         queue' = SubSeq(queue, 1, i - 1) \o SubSeq(queue, i + 1, Len(queue))
  PROVE  /\ queue' \in Seq(Frames) /\ Len(queue') = Len(queue) - 1
         /\ \A j \in 1..Len(queue') : queue'[j] = IF j < i THEN queue[j] ELSE queue[j + 1]
  <1> DEFINE a == SubSeq(queue, 1, i - 1)
             b == SubSeq(queue, i + 1, Len(queue))
  <1>0. Len(queue) \in Nat /\ i \in Int /\ 1 <= i /\ i <= Len(queue)
    OBVIOUS
  <1>1. a \in Seq(Frames) /\ Len(a) = i - 1 /\ \A j \in 1..(i - 1) : a[j] = queue[j]
    OBVIOUS
  <1>2. b \in Seq(Frames) /\ Len(b) = Len(queue) - i /\ \A j \in 1..(Len(queue) - i) : b[j] = queue[j + i]
    OBVIOUS
  <1>3. queue' = a \o b
    OBVIOUS
  <1> HIDE DEF a, b
  <1>4. /\ queue' \in Seq(Frames) /\ Len(queue') = Len(a) + Len(b)
        /\ \A j \in 1..(Len(a) + Len(b)) : queue'[j] = IF j <= Len(a) THEN a[j] ELSE b[j - Len(a)]
    <2>1. a \in Seq(Frames) /\ b \in Seq(Frames)
      BY <1>1, <1>2
    <2>2. /\ a \o b \in Seq(Frames)
          /\ Len(a \o b) = Len(a) + Len(b)
          /\ \A j \in 1..(Len(a) + Len(b)) :
               (a \o b)[j] = IF j <= Len(a) THEN a[j] ELSE b[j - Len(a)]
      BY <2>1, ConcatProperties
    <2> QED BY <1>3, <2>2
  <1>5. Len(queue') = Len(queue) - 1
    <2>1. Len(a) = i - 1 /\ Len(b) = Len(queue) - i /\ Len(queue') = Len(a) + Len(b)
      BY <1>1, <1>2, <1>4
    <2>2. (i - 1) + (Len(queue) - i) = Len(queue) - 1
      BY <1>0
    <2> QED BY <2>1, <2>2
  <1>6. ASSUME NEW j \in 1..Len(queue')
        PROVE  queue'[j] = IF j < i THEN queue[j] ELSE queue[j + 1]
    <2>1. queue'[j] = IF j <= Len(a) THEN a[j] ELSE b[j - Len(a)]
      BY <1>4
    <2>2. CASE j < i
      <3>1. j \in 1..(i - 1) /\ j <= Len(a)
        BY <1>0, <1>1, <2>2
      <3>2. a[j] = queue[j]
        BY <3>1, <1>1
      <3> QED BY <2>1, <2>2, <3>1, <3>2
    <2>3. CASE ~ (j < i)
      <3>0. j \in Int /\ 1 <= j /\ j <= Len(queue) - 1
        <4>1. j \in 1..(Len(queue) - 1)
          BY <1>5
        <4> QED BY <1>0, <4>1
      <3>1. ~ (j <= i - 1) /\ j - (i - 1) \in 1..(Len(queue) - i) /\ Len(a) = i - 1
        <4>1. ~ (j <= i - 1) /\ j - (i - 1) \in 1..(Len(queue) - i)
          BY <1>0, <2>3, <3>0
        <4> QED BY <4>1, <1>1
      <3>2. b[j - (i - 1)] = queue[(j - (i - 1)) + i]
        BY <3>1, <1>2
      <3>3. (j - (i - 1)) + i = j + 1
        BY <1>0
      <3>4. queue'[j] = b[j - (i - 1)]
        BY <2>1, <3>1
      <3> QED BY <2>3, <3>2, <3>3, <3>4
    <2> QED BY <2>2, <2>3
  <1> QED BY <1>4, <1>5, <1>6

\* Deleting a frame: the others stay, in their order.
LEMMA DeletionKeepsOrder ==
  ASSUME queue \in Seq(Frames), NEW f \in Frames, QueueDel(f),
         \A i, j \in 1..Len(queue) : queue[i] = queue[j] => i = j
  PROVE  /\ queue' \in Seq(Frames)
         /\ \A i, j \in 1..Len(queue') : queue'[i] = queue'[j] => i = j
         /\ \A i \in 1..Len(queue') : \E n \in 1..Len(queue) : queue[n] = queue'[i]
         /\ \A g \in Frames : g # f /\ InQueue(g) => InQueue(g)'
         /\ \A i \in 1..Len(queue') : queue'[i] # f
         /\ \A i, j \in 1..Len(queue') : i < j => Ahead(queue'[i], queue'[j])
  <1>1. CASE ~ InQueue(f) /\ UNCHANGED queue
    BY <1>1 DEF InQueue, Ahead
  <1>2. CASE \E i \in 1..Len(queue) :
               queue[i] = f /\ queue' = SubSeq(queue, 1, i - 1) \o SubSeq(queue, i + 1, Len(queue))
    <2>1. PICK n \in 1..Len(queue) :
            queue[n] = f /\ queue' = SubSeq(queue, 1, n - 1) \o SubSeq(queue, n + 1, Len(queue))
      BY <1>2
    <2>2. /\ queue' \in Seq(Frames) /\ Len(queue') = Len(queue) - 1
          /\ \A j \in 1..Len(queue') : queue'[j] = IF j < n THEN queue[j] ELSE queue[j + 1]
      BY <2>1, Removal
    <2> DEFINE pos(j) == IF j < n THEN j ELSE j + 1
    <2>3. /\ Len(queue) \in Nat /\ n \in Int
          /\ \A j \in 1..Len(queue') : pos(j) \in 1..Len(queue) /\ pos(j) # n /\ queue'[j] = queue[pos(j)]
          /\ \A i, j \in 1..Len(queue') : i < j => pos(i) < pos(j)
      BY <2>2
    <2>4. \A i \in 1..Len(queue) : i # n => \E j \in 1..Len(queue') : pos(j) = i
      <3> SUFFICES ASSUME NEW i \in 1..Len(queue), i # n
                   PROVE  \E j \in 1..Len(queue') : pos(j) = i
        OBVIOUS
      <3>1. CASE i < n
        BY <2>2, <2>3, <3>1
      <3>2. CASE i > n
        <4>1. i - 1 \in 1..Len(queue') /\ pos(i - 1) = i
          BY <2>2, <2>3, <3>2
        <4> QED BY <4>1
      <3> QED BY <2>3, <3>1, <3>2
    <2> HIDE DEF pos
    <2>5. \A i, j \in 1..Len(queue') : queue'[i] = queue'[j] => i = j
      BY <2>2, <2>3
    <2>6. \A i \in 1..Len(queue') : \E m \in 1..Len(queue) : queue[m] = queue'[i]
      BY <2>3
    <2>7. \A g \in Frames : g # f /\ InQueue(g) => InQueue(g)'
      <3> SUFFICES ASSUME NEW g \in Frames, g # f, NEW i \in 1..Len(queue), queue[i] = g
                   PROVE  \E j \in 1..Len(queue') : queue'[j] = g
        BY DEF InQueue
      <3>1. i # n
        BY <2>1
      <3>2. PICK j \in 1..Len(queue') : pos(j) = i
        BY <3>1, <2>4
      <3> QED BY <2>3, <3>2
    <2>8. \A i \in 1..Len(queue') : queue'[i] # f
      <3> SUFFICES ASSUME NEW j \in 1..Len(queue'), queue'[j] = f
                   PROVE  FALSE
        OBVIOUS
      <3>1. pos(j) \in 1..Len(queue) /\ pos(j) # n /\ queue[pos(j)] = queue[n]
        BY <2>1, <2>3
      <3> QED BY <3>1
    <2>9. \A i, j \in 1..Len(queue') : i < j => Ahead(queue'[i], queue'[j])
      BY <2>3 DEF Ahead
    <2> QED BY <2>2, <2>5, <2>6, <2>7, <2>8, <2>9
  <1> QED BY <1>1, <1>2 DEF QueueDel

\* The invariant holds at the start.
LEMMA InitEstablishes == Init => IInv
  <1> SUFFICES ASSUME Init  PROVE IInv
    OBVIOUS
  <1>1. /\ queue \in Seq(Frames) /\ Len(queue) = 0
        /\ items \in [Flushes -> Seq(Frames)] /\ \A k \in Flushes : Len(items[k]) = 0
    BY DEF Init
  <1>2. TypeOK
    BY <1>1, KioskConstantsOK DEF Init, TypeOK
  <1>3. QueuedUntilServed
    BY DEF Init, QueuedUntilServed
  <1>4. QueueHasNoDuplicates /\ FlushesAreInOrder
    BY <1>1 DEF QueueHasNoDuplicates, FlushesAreInOrder
  <1> QED BY <1>2, <1>3, <1>4 DEF IInv

\* Steps that touch neither the queue nor what a flush has left: no frame becomes or
\* stops being "queued".
LEMMA OtherStepsKeep ==
  ASSUME IInv, TypeOK', queue' = queue, items' = items, served \subseteq served',
         \A f \in Frames : cpc'[f] = "queued" <=> cpc[f] = "queued"
  PROVE  IInv'
  <1>1. QueuedUntilServed'
    BY DEF IInv, QueuedUntilServed, InQueue
  <1>2. QueueHasNoDuplicates'
    <2>1. \A i \in 1..Len(queue) : queue[i] \in Frames
      BY DEF IInv, TypeOK
    <2>2. \A k \in Flushes : \A i \in 1..Len(items[k]) : items[k][i] \in Frames
      BY DEF IInv, TypeOK
    <2> QED BY <2>1, <2>2 DEF IInv, QueueHasNoDuplicates
  <1>3. FlushesAreInOrder'
    BY DEF IInv, FlushesAreInOrder, Ahead
  <1> QED BY <1>1, <1>2, <1>3 DEF IInv

\* A request that fails.
LEMMA FailedRequest ==
  ASSUME TypeOK, NEW f \in Frames, Refused(f) \/ Lost(f)
  PROVE  served' = served /\ late' \in [Frames -> Nat] /\ losses' \in Nat
  <1>1. CASE Refused(f)
    BY <1>1 DEF TypeOK, Refused, net
  <1>2. CASE Lost(f)
    <2>1. [late EXCEPT ![f] = @ + 1] \in [Frames -> Nat]
      BY DEF TypeOK
    <2>2. late' = late \/ late' = [late EXCEPT ![f] = @ + 1]
      BY <1>2 DEF Lost
    <2> QED BY <1>2, <2>1, <2>2 DEF TypeOK, Lost
  <1> QED BY <1>1, <1>2

\* The types, step by step.
LEMMA TypesAreKept == TypeOK /\ [Next]_vars => TypeOK'
  <1> SUFFICES ASSUME TypeOK, [Next]_vars  PROVE TypeOK'
    OBVIOUS
  <1> USE KioskConstantsOK
  <1>1. ASSUME NEW f \in Frames, Capture(f)  PROVE TypeOK'
    BY <1>1 DEF TypeOK, Capture, CaptureAuto, CaptureManual, GrabNothing, Submit, Goto, net, bounds
  <1>2. ASSUME NEW f \in Frames, ShowResult(f)  PROVE TypeOK'
    BY <1>2 DEF TypeOK, ShowResult, Accepted, Goto
  <1>3. ASSUME NEW f \in Frames, QueuePut(f)  PROVE TypeOK'
    <2>1. served' = served /\ late' \in [Frames -> Nat] /\ losses' \in Nat
      BY <1>3, FailedRequest DEF QueuePut
    <2>2. queue' \in Seq(Frames)
      BY <1>3, AppendProperties DEF TypeOK, QueuePut
    <2>3. cpc' \in [Frames -> {"new", "auto", "manual", "void", "posting", "answered", "queued", "dropped", "gone"}]
      BY <1>3 DEF TypeOK, QueuePut, Goto
    <2> QED BY <1>3, <2>1, <2>2, <2>3 DEF TypeOK, QueuePut
  <1>4. ASSUME NEW f \in Frames, Drop(f)  PROVE TypeOK'
    <2>1. served' = served /\ late' \in [Frames -> Nat] /\ losses' \in Nat
      BY <1>4, FailedRequest DEF Drop
    <2> QED BY <1>4, <2>1 DEF TypeOK, Drop, Goto
  <1>5. ASSUME NEW f \in Frames, ArriveLate(f)  PROVE TypeOK'
    BY <1>5 DEF TypeOK, ArriveLate, bounds
  <1>6. ASSUME NEW k \in Flushes, StartFlush(k)  PROVE TypeOK'
    BY <1>6 DEF TypeOK, StartFlush, net, bounds
  <1>7. ASSUME NEW k \in Flushes, FlushOne(k)  PROVE TypeOK'
    <2>1. Head(items[k]) \in Frames /\ Tail(items[k]) \in Seq(Frames)
      BY <1>7 DEF TypeOK, FlushOne
    <2>2. queue' \in Seq(Frames)
      <3>1. CASE UNCHANGED queue
        BY <3>1 DEF TypeOK
      <3>2. ASSUME NEW i \in 1..Len(queue),
                   queue' = SubSeq(queue, 1, i - 1) \o SubSeq(queue, i + 1, Len(queue))
            PROVE  queue' \in Seq(Frames)
        BY <3>2, Removal DEF TypeOK
      <3> QED BY <1>7, <3>1, <3>2 DEF FlushOne, QueueDel
    <2> QED BY <1>7, <2>1, <2>2 DEF TypeOK, FlushOne, Accepted
  <1>8. ASSUME NEW k \in Flushes, FlushFails(k)  PROVE TypeOK'
    <2>1. Head(items[k]) \in Frames
      BY <1>8 DEF TypeOK, FlushFails
    <2>2. served' = served /\ late' \in [Frames -> Nat] /\ losses' \in Nat
      BY <1>8, <2>1, FailedRequest DEF FlushFails
    <2> QED BY <1>8, <2>2 DEF TypeOK, FlushFails
  <1>9. CASE ResetIdle
    BY <1>9 DEF TypeOK, ResetIdle, net, bounds
  <1>10. CASE Reload
    <2>1. \A f \in Frames : Posts(f) \in Nat
      <3> SUFFICES ASSUME NEW f \in Frames  PROVE Posts(f) \in Nat
        OBVIOUS
      <3> DEFINE P == {k \in Flushes : items[k] # <<>> /\ Head(items[k]) = f}
      <3>1. IsFiniteSet(P)
        BY FS_Subset DEF KioskConstantsOK
      <3>2. Cardinality(P) \in Nat
        BY <3>1, FS_CardinalityType
      <3> HIDE DEF P
      <3>3. Posts(f) = Cardinality(P) + (IF cpc[f] = "posting" THEN 1 ELSE 0)
        BY DEF Posts, P
      <3> QED BY <3>2, <3>3
    <2>2. late' \in [Frames -> Nat]
      BY <1>10, <2>1 DEF TypeOK, Reload
    <2>3. cpc' \in [Frames -> {"new", "auto", "manual", "void", "posting", "answered", "queued", "dropped", "gone"}]
      BY <1>10 DEF TypeOK, Reload
    <2> QED BY <1>10, <2>2, <2>3 DEF TypeOK, Reload
  <1>11. CASE Tick
    BY <1>11 DEF TypeOK, Tick, net, bounds
  <1>12. CASE UNCHANGED vars
    BY <1>12 DEF TypeOK, vars, net, bounds
  <1> QED BY <1>1, <1>2, <1>3, <1>4, <1>5, <1>6, <1>7, <1>8, <1>9, <1>10, <1>11, <1>12
          DEF Next, Answer, Flush

\* A frame whose submission failed enters the queue at its end.
LEMMA QueuePutKeeps ==
  ASSUME IInv, TypeOK', NEW f \in Frames, QueuePut(f)
  PROVE  IInv'
  <1>1. /\ queue \in Seq(Frames) /\ Len(queue) \in Nat
        /\ cpc[f] = "posting" /\ cpc' = [cpc EXCEPT ![f] = "queued"] /\ DOMAIN cpc = Frames
        /\ served' = served /\ items' = items /\ items \in [Flushes -> Seq(Frames)]
    <2>1. TypeOK
      BY DEF IInv
    <2>2. served' = served
      BY <2>1, FailedRequest DEF QueuePut
    <2>3. queue \in Seq(Frames) /\ Len(queue) \in Nat /\ items \in [Flushes -> Seq(Frames)]
      BY <2>1 DEF TypeOK
    <2>4. DOMAIN cpc = Frames
      BY <2>1 DEF TypeOK
    <2>5. cpc[f] = "posting" /\ cpc' = [cpc EXCEPT ![f] = "queued"] /\ items' = items
      BY DEF QueuePut, Goto
    <2> QED BY <2>2, <2>3, <2>4, <2>5
  <1>2. queue' = Append(queue, f)
    BY DEF QueuePut
  <1>3. /\ Len(queue') = Len(queue) + 1 /\ queue'[Len(queue) + 1] = f
        /\ \A i \in 1..Len(queue) : queue'[i] = queue[i]
    BY <1>1, <1>2, AppendProperties
  <1>4. /\ \A i \in 1..Len(queue') : i \in 1..Len(queue) \/ (i = Len(queue) + 1 /\ queue'[i] = f)
        /\ \A i \in 1..Len(queue) : i \in 1..Len(queue')
        /\ Len(queue) + 1 \in 1..Len(queue')
    BY <1>1, <1>3
  <1>5. \A i \in 1..Len(queue) : queue[i] \in Frames /\ queue[i] # f /\ cpc[queue[i]] = "queued"
    BY <1>1 DEF IInv, QueueHasNoDuplicates
  <1>6. \A k \in Flushes : \A i \in 1..Len(items[k]) :
          items[k][i] \in Frames /\ items[k][i] # f /\ cpc[items[k][i]] = "queued"
    BY <1>1 DEF IInv, QueueHasNoDuplicates
  <1>7. QueuedUntilServed'
    <2>1. \A g \in Frames : InQueue(g) => InQueue(g)'
      BY <1>3, <1>4 DEF InQueue
    <2>2. InQueue(f)'
      BY <1>3, <1>4 DEF InQueue
    <2> QED BY <1>1, <2>1, <2>2 DEF IInv, QueuedUntilServed
  <1>8. QueueHasNoDuplicates'
    <2>1. \A i, j \in 1..Len(queue') : queue'[i] = queue'[j] => i = j
      BY <1>3, <1>4, <1>5 DEF IInv, QueueHasNoDuplicates
    <2>2. \A i \in 1..Len(queue') : cpc'[queue'[i]] = "queued"
      BY <1>1, <1>3, <1>4, <1>5
    <2>3. \A k \in Flushes : \A i \in 1..Len(items'[k]) : cpc'[items'[k][i]] = "queued"
      BY <1>1, <1>6
    <2> QED BY <2>1, <2>2, <2>3 DEF QueueHasNoDuplicates
  <1>9. FlushesAreInOrder'
    <2>1. \A g \in Frames, h \in Frames : h # f /\ Ahead(g, h)' => Ahead(g, h)
      <3> SUFFICES ASSUME NEW g \in Frames, NEW h \in Frames, h # f,
                          NEW i \in 1..Len(queue'), NEW j \in 1..Len(queue'),
                          i < j, queue'[i] = g, queue'[j] = h
                   PROVE  \E m, n \in 1..Len(queue) : m < n /\ queue[m] = g /\ queue[n] = h
        BY DEF Ahead
      <3>1. j \in 1..Len(queue)
        BY <1>3, <1>4
      <3>2. i \in 1..Len(queue)
        BY <1>1, <3>1
      <3> QED BY <1>3, <3>1, <3>2
    <2> QED BY <1>1, <1>6, <2>1 DEF IInv, FlushesAreInOrder
  <1> QED BY <1>7, <1>8, <1>9 DEF IInv

\* A flush starts with all that is queued.
LEMMA StartFlushKeeps ==
  ASSUME IInv, TypeOK', NEW k \in Flushes, StartFlush(k)
  PROVE  IInv'
  <1>1. /\ queue \in Seq(Frames) /\ Len(queue) \in Nat /\ queue' = queue
        /\ cpc' = cpc /\ served' = served
        /\ items \in [Flushes -> Seq(Frames)] /\ items' = [items EXCEPT ![k] = queue]
    BY DEF IInv, TypeOK, StartFlush, net
  <1>2. items'[k] = queue /\ \A l \in Flushes : l # k => items'[l] = items[l]
    BY <1>1
  <1>3. QueuedUntilServed'
    BY <1>1 DEF IInv, QueuedUntilServed, InQueue
  <1>4. QueueHasNoDuplicates'
    BY <1>1, <1>2 DEF IInv, QueueHasNoDuplicates
  <1>5. FlushesAreInOrder'
    <2> SUFFICES ASSUME NEW l \in Flushes, NEW j \in 1..Len(items'[l]), NEW f \in Frames,
                        NEW m \in 1..Len(queue'), NEW n \in 1..Len(queue'),
                        m < n, queue'[m] = f, queue'[n] = items'[l][j]
                 PROVE  \E i \in 1..(j - 1) : items'[l][i] = f
      BY DEF FlushesAreInOrder, Ahead
    <2>1. m \in 1..Len(queue) /\ n \in 1..Len(queue) /\ queue[m] = f /\ queue[n] = items'[l][j]
      BY <1>1
    <2>2. CASE l = k
      <3>1. j \in 1..Len(queue) /\ queue[n] = queue[j]
        BY <1>2, <2>1, <2>2
      <3>2. n = j
        BY <2>1, <3>1 DEF IInv, QueueHasNoDuplicates
      <3>3. m \in 1..(j - 1)
        BY <1>1, <2>1, <3>2
      <3> QED BY <1>2, <2>1, <2>2, <3>3
    <2>3. CASE l # k
      <3>1. items'[l] = items[l] /\ items[l] \in Seq(Frames) /\ j \in 1..Len(items[l])
        BY <1>1, <1>2, <2>3
      <3>2. Ahead(f, items[l][j])
        BY <2>1, <3>1 DEF Ahead
      <3> QED BY <3>1, <3>2 DEF IInv, FlushesAreInOrder
    <2> QED BY <2>2, <2>3
  <1> QED BY <1>3, <1>4, <1>5 DEF IInv

\* A flush deletes the frame it posted, and nothing was ahead of it.
LEMMA FlushOneKeeps ==
  ASSUME IInv, TypeOK', NEW k \in Flushes, FlushOne(k)
  PROVE  /\ IInv'
         /\ \A g \in Frames : InQueue(g) /\ ~ InQueue(g)' => \A h \in Frames : ~ Ahead(h, g)
  <1>1. /\ queue \in Seq(Frames) /\ Len(queue) \in Nat /\ cpc' = cpc
        /\ items \in [Flushes -> Seq(Frames)] /\ items[k] \in Seq(Frames) /\ items[k] # <<>>
        /\ items' = [items EXCEPT ![k] = Tail(items[k])]
    BY DEF IInv, TypeOK, FlushOne
  <1>2. Len(items[k]) \in Nat /\ Len(items[k]) >= 1 /\ Head(items[k]) = items[k][1] /\ items[k][1] \in Frames
    BY <1>1
  <1> PICK f \in Frames : f = items[k][1]
    BY <1>2
  <1>3. served' = served \cup {f} /\ QueueDel(f)
    BY <1>2 DEF FlushOne, Accepted
  <1>4. /\ \A i, j \in 1..Len(queue') : queue'[i] = queue'[j] => i = j
        /\ \A i \in 1..Len(queue') : \E n \in 1..Len(queue) : queue[n] = queue'[i]
        /\ \A g \in Frames : g # f /\ InQueue(g) => InQueue(g)'
        /\ \A i \in 1..Len(queue') : queue'[i] # f
        /\ \A i, j \in 1..Len(queue') : i < j => Ahead(queue'[i], queue'[j])
    <2>1. \A i, j \in 1..Len(queue) : queue[i] = queue[j] => i = j
      BY DEF IInv, QueueHasNoDuplicates
    <2> QED BY <1>1, <1>2, <1>3, <2>1, DeletionKeepsOrder
  <1>5. /\ Len(items'[k]) = Len(items[k]) - 1
        /\ \A i \in 1..Len(items'[k]) : items'[k][i] = items[k][i + 1] /\ i + 1 \in 1..Len(items[k])
        /\ \A l \in Flushes : l # k => items'[l] = items[l]
    <2>1. items'[k] = Tail(items[k])
      BY <1>1
    <2>2. Len(items'[k]) = Len(items[k]) - 1
          /\ \A i \in 1..Len(items'[k]) : items'[k][i] = items[k][i + 1]
      BY <1>1, <2>1, HeadTailProperties
    <2>3. \A i \in 1..(Len(items[k]) - 1) : i + 1 \in 1..Len(items[k])
      BY <1>2
    <2> QED BY <1>1, <2>2, <2>3
  <1>6. QueuedUntilServed'
    BY <1>1, <1>3, <1>4 DEF IInv, QueuedUntilServed
  <1>7. QueueHasNoDuplicates'
    <2>1. \A i \in 1..Len(queue') : cpc'[queue'[i]] = "queued"
      BY <1>1, <1>4 DEF IInv, QueueHasNoDuplicates
    <2>2. ASSUME NEW l \in Flushes, NEW i \in 1..Len(items'[l])
          PROVE  cpc'[items'[l][i]] = "queued"
      <3>1. CASE l = k
        BY <1>1, <1>5, <3>1 DEF IInv, QueueHasNoDuplicates
      <3>2. CASE l # k
        BY <1>1, <1>5, <3>2 DEF IInv, QueueHasNoDuplicates
      <3> QED BY <3>1, <3>2
    <2> QED BY <1>4, <2>1, <2>2 DEF QueueHasNoDuplicates
  <1>8. FlushesAreInOrder'
    <2> SUFFICES ASSUME NEW l \in Flushes, NEW j \in 1..Len(items'[l]), NEW g \in Frames,
                        NEW m \in 1..Len(queue'), NEW n \in 1..Len(queue'),
                        m < n, queue'[m] = g, queue'[n] = items'[l][j]
                 PROVE  \E i \in 1..(j - 1) : items'[l][i] = g
      BY DEF FlushesAreInOrder, Ahead
    <2> DEFINE h == items'[l][j]
    <2>1. h \in Frames /\ Len(items'[l]) \in Nat
      <3>1. items'[l] \in Seq(Frames)
        BY DEF TypeOK
      <3> QED BY <3>1
    <2>2. Ahead(g, h)
      BY <1>4
    <2>3. g # f
      BY <1>4
    <2>4. CASE l # k
      <3>1. items'[l] = items[l] /\ j \in 1..Len(items[l])
        BY <1>5, <2>4
      <3> QED BY <2>2, <3>1 DEF IInv, FlushesAreInOrder
    <2>5. CASE l = k
      <3>1. j + 1 \in 1..Len(items[k]) /\ h = items[k][j + 1] /\ j \in Nat /\ (j + 1) - 1 = j
        BY <1>5, <2>1, <2>5
      <3>2. PICK i \in 1..j : items[k][i] = g
        BY <2>2, <3>1 DEF IInv, FlushesAreInOrder
      <3>3. i # 1
        BY <2>3, <3>2
      <3>4. i - 1 \in 1..(j - 1) /\ i - 1 \in 1..Len(items'[k]) /\ (i - 1) + 1 = i
        BY <1>5, <2>1, <2>5, <3>1, <3>2, <3>3
      <3>5. items'[k][i - 1] = items[k][(i - 1) + 1]
        BY <1>5, <3>4
      <3> QED BY <2>5, <3>2, <3>4, <3>5
    <2> QED BY <2>4, <2>5
  <1>9. ASSUME NEW g \in Frames, InQueue(g), ~ InQueue(g)', NEW h \in Frames, Ahead(h, g)
        PROVE  FALSE
    <2>1. g = f /\ 1 \in 1..Len(items[k])
      BY <1>2, <1>4, <1>9
    <2>2. \E i \in 1..(1 - 1) : items[k][i] = h
      BY <1>9, <2>1 DEF IInv, FlushesAreInOrder
    <2> QED BY <2>2
  <1> QED BY <1>6, <1>7, <1>8, <1>9 DEF IInv

\* A flush that fails forgets what it had left, and a reload what all of them had.
LEMMA ForgettingKeeps ==
  ASSUME IInv, TypeOK', queue' = queue, served' = served,
         \A f \in Frames : cpc'[f] = "queued" <=> cpc[f] = "queued",
         \A k \in Flushes : items'[k] = items[k] \/ items'[k] = <<>>
  PROVE  IInv'
  <1>1. \A k \in Flushes : \A i \in 1..Len(items'[k]) :
          items'[k] = items[k] /\ items[k][i] \in Frames /\ i \in 1..Len(items[k])
    <2> SUFFICES ASSUME NEW k \in Flushes, NEW i \in 1..Len(items'[k])
                 PROVE  items'[k] = items[k] /\ items[k][i] \in Frames /\ i \in 1..Len(items[k])
      OBVIOUS
    <2>1. items[k] \in Seq(Frames)
      BY DEF IInv, TypeOK
    <2>2. items'[k] = items[k]
      BY EmptySeq
    <2> QED BY <2>1, <2>2
  <1>2. \A i \in 1..Len(queue) : queue[i] \in Frames
    BY DEF IInv, TypeOK
  <1>3. QueuedUntilServed'
    BY DEF IInv, QueuedUntilServed, InQueue
  <1>4. QueueHasNoDuplicates'
    BY <1>1, <1>2 DEF IInv, QueueHasNoDuplicates
  <1>5. FlushesAreInOrder'
    BY <1>1 DEF IInv, FlushesAreInOrder, Ahead
  <1> QED BY <1>3, <1>4, <1>5 DEF IInv

\* Every step keeps the invariant, and what it takes from the queue was at its head.
LEMMA StepsKeepInvariant ==
  ASSUME IInv, [Next]_vars
  PROVE  /\ IInv'
         /\ \A g \in Frames : InQueue(g) /\ ~ InQueue(g)' => \A h \in Frames : ~ Ahead(h, g)
  <1>0. TypeOK'
    BY TypesAreKept DEF IInv
  <1> DEFINE Fifo == \A g \in Frames : InQueue(g) /\ ~ InQueue(g)' => \A h \in Frames : ~ Ahead(h, g)
  <1>a. ASSUME queue' = queue  PROVE Fifo
    BY <1>a DEF InQueue
  <1>1. ASSUME NEW f \in Frames, Capture(f)  PROVE IInv' /\ Fifo
    <2>1. /\ queue' = queue /\ items' = items /\ served' = served
          /\ \A g \in Frames : cpc'[g] = "queued" <=> cpc[g] = "queued"
      BY <1>1 DEF IInv, TypeOK, Capture, CaptureAuto, CaptureManual, GrabNothing, Submit, Goto, Grabbing, net
    <2> QED BY <1>0, <1>a, <2>1, OtherStepsKeep
  <1>2. ASSUME NEW f \in Frames, ShowResult(f)  PROVE IInv' /\ Fifo
    <2>1. /\ queue' = queue /\ items' = items /\ served \subseteq served'
          /\ \A g \in Frames : cpc'[g] = "queued" <=> cpc[g] = "queued"
      BY <1>2 DEF IInv, TypeOK, ShowResult, Goto, Accepted
    <2> QED BY <1>0, <1>a, <2>1, OtherStepsKeep
  <1>3. ASSUME NEW f \in Frames, QueuePut(f)  PROVE IInv' /\ Fifo
    <2>1. ASSUME NEW g \in Frames, InQueue(g)  PROVE InQueue(g)'
      <3>1. /\ \A i \in 1..Len(queue) : Append(queue, f)[i] = queue[i]
            /\ Len(Append(queue, f)) = Len(queue) + 1 /\ Len(queue) \in Nat
        BY AppendProperties DEF IInv, TypeOK
      <3>2. queue' = Append(queue, f)
        BY <1>3 DEF QueuePut
      <3> QED BY <2>1, <3>1, <3>2 DEF InQueue
    <2> QED BY <1>0, <1>3, <2>1, QueuePutKeeps
  <1>4. ASSUME NEW f \in Frames, Drop(f)  PROVE IInv' /\ Fifo
    <2>1. served' = served
      BY <1>4, FailedRequest DEF IInv, Drop
    <2>2. /\ queue' = queue /\ items' = items
          /\ \A g \in Frames : cpc'[g] = "queued" <=> cpc[g] = "queued"
      BY <1>4 DEF IInv, TypeOK, Drop, Goto
    <2> QED BY <1>0, <1>a, <2>1, <2>2, OtherStepsKeep
  <1>5. ASSUME NEW f \in Frames, ArriveLate(f)  PROVE IInv' /\ Fifo
    <2>1. queue' = queue /\ items' = items /\ served \subseteq served' /\ cpc' = cpc
      BY <1>5 DEF ArriveLate
    <2> QED BY <1>0, <1>a, <2>1, OtherStepsKeep
  <1>6. ASSUME NEW k \in Flushes, StartFlush(k)  PROVE IInv' /\ Fifo
    BY <1>0, <1>6, <1>a, StartFlushKeeps DEF StartFlush
  <1>7. ASSUME NEW k \in Flushes, FlushOne(k)  PROVE IInv' /\ Fifo
    BY <1>0, <1>7, FlushOneKeeps
  <1>8. ASSUME NEW k \in Flushes, FlushFails(k)  PROVE IInv' /\ Fifo
    <2>1. Head(items[k]) \in Frames
      BY <1>8 DEF IInv, TypeOK, FlushFails
    <2>2. served' = served
      BY <1>8, <2>1, FailedRequest DEF IInv, FlushFails
    <2>3. /\ queue' = queue /\ cpc' = cpc
          /\ \A l \in Flushes : items'[l] = items[l] \/ items'[l] = <<>>
      BY <1>8 DEF IInv, TypeOK, FlushFails
    <2> QED BY <1>0, <1>a, <2>2, <2>3, ForgettingKeeps
  <1>9. CASE Reload
    <2>1. queue' = queue /\ served' = served /\ \A l \in Flushes : items'[l] = <<>>
      BY <1>9 DEF Reload
    <2>2. \A g \in Frames : cpc'[g] = "queued" <=> cpc[g] = "queued"
      BY <1>9 DEF Reload, Grabbing
    <2> QED BY <1>0, <1>a, <2>1, <2>2, ForgettingKeeps
  <1>10. CASE ResetIdle \/ Tick \/ UNCHANGED vars
    <2>1. queue' = queue /\ items' = items /\ served' = served /\ cpc' = cpc
      BY <1>10 DEF ResetIdle, Tick, vars, net
    <2> QED BY <1>0, <1>a, <2>1, OtherStepsKeep
  <1> QED BY <1>1, <1>2, <1>3, <1>4, <1>5, <1>6, <1>7, <1>8, <1>9, <1>10
          DEF Next, Answer, Flush

\* Every variable of the kiosk page stays in its type.
THEOREM TypeCorrect == Spec => []TypeOK
  <1>1. IInv /\ [Next]_vars => IInv'
    BY StepsKeepInvariant
  <1>2. IInv => TypeOK
    BY DEF IInv
  <1> QED BY InitEstablishes, <1>1, <1>2, PTL DEF Spec

\* A frame whose submission failed is in IndexedDB until the backend has processed it,
\* through overlapping flushes, lost answers and reloads.
THEOREM QueueLosesNothing == Spec => []QueuedUntilServed
  <1>1. IInv /\ [Next]_vars => IInv'
    BY StepsKeepInvariant
  <1>2. IInv => QueuedUntilServed
    BY DEF IInv
  <1> QED BY InitEstablishes, <1>1, <1>2, PTL DEF Spec

\* Frames leave the queue in the order they entered it, though flushes overlap and post
\* from different snapshots of it.
THEOREM FramesLeaveInOrder == Spec => QueueIsFifo
  <1>1. IInv /\ [Next]_vars => IInv'
    BY StepsKeepInvariant
  <1>2. IInv /\ [Next]_vars
          => [\A f, g \in Frames : Ahead(f, g) /\ ~ InQueue(g)' => ~ InQueue(f)']_vars
    <2> SUFFICES ASSUME IInv, [Next]_vars, NEW f \in Frames, NEW g \in Frames,
                        Ahead(f, g), ~ InQueue(g)'
                 PROVE  FALSE
      OBVIOUS
    <2>1. InQueue(g)
      BY DEF Ahead, InQueue
    <2> QED BY <2>1, StepsKeepInvariant
  <1> QED BY InitEstablishes, <1>1, <1>2, PTL DEF Spec, QueueIsFifo
================================================================================
