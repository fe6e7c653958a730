--------------------------- MODULE Etcd3WatchProofs ---------------------------
(***************************************************************************)
(* Proof that Etcd3Transaction.watch forgets no change, for any number of  *)
(* keys, ranges, turns of the loop and revisions.                          *)
(***************************************************************************)
EXTENDS Etcd3TransactionProofs

(* A watcher has delivered all changes before the revision it has reached:  *)
(* each is known to the snapshot read, or on the queue, or watch() has      *)
(* taken it, and it woke watch() up unless it was irrelevant.               *)
Digested(c, e) ==
    \/ e.rev <= ReadRev(c)
    \/ Queued(c, e)
    \/ pc[c] = "watching" /\ (~block[c] \/ ~Relevant(c, e))

DeliveredBy(c, w) ==
    watchers[c][w] # NotWatching =>
        /\ watchers[c][w] <= Len(db) + 1
        /\ \A s \in 1 .. watchers[c][w] - 1 : \A k \in EventsAt(w, s) :
              Digested(c, EventOf(k, s))

Delivered(c) == \A w \in WatchIds : DeliveredBy(c, w)

(* While the client waits, all it has read is watched, and watch() has not  *)
(* seen a change unless it will return.                                     *)
Waiting(c) ==
    pc[c] = "watching" =>
        /\ \A w \in ActiveWatchers(c) : watchers[c][w] # NotWatching
        /\ block[c] => woken[c] = revision[c]

WatcherOK(c) == Delivered(c) /\ Waiting(c)

WatchInv == \A c \in Clients : WatcherOK(c)

-----------------------------------------------------------------------------
(* The events of the past stay what they were.                              *)
LEMMA EventsKept ==
    ASSUME TypeOK, History(db), Extends(db, db'), NEW w \in WatchIds, NEW s \in 1 .. Len(db)
    PROVE  /\ EventsAt(w, s)' = EventsAt(w, s)
           /\ \A k : EventOf(k, s)' = EventOf(k, s)
<1>1. db'[s] = db[s] /\ Changed(db', s) = Changed(db, s)
  BY PastKept
<1> QED
  BY <1>1 DEF EventsAt, WatchRange, EventOf, KVAt

(* What a step of the client means to its watchers: the attempt goes on, or *)
(* another one begins at a later snapshot; the watchers are stopped; or     *)
(* watch() starts.  The fourth kind of step takes an event off the queue.   *)
Carries(c) ==
    /\ watchers'[c] = watchers[c] /\ queue'[c] = queue[c]
    /\ ReadRev(c) <= ReadRev(c)'
    /\ \/ /\ pc'[c] = pc[c] /\ block'[c] = block[c] /\ woken'[c] = woken[c]
          /\ revision'[c] = revision[c] /\ getQ'[c] = getQ[c] /\ listQ'[c] = listQ[c]
       \/ pc'[c] = "body" /\ (pc[c] # "watching" \/ ReadRev(c)' = Len(db'))

Stops(c) == pc'[c] # "watching" /\ watchers'[c] = NoWatchers

Starts(c) ==
    /\ UpdateWatchers(c)
    /\ pc[c] = "body" /\ pc'[c] = "watching"
    /\ queue'[c] = queue[c]
    /\ block'[c] /\ woken'[c] = revision[c]
    /\ revision'[c] = revision[c] /\ getQ'[c] = getQ[c] /\ listQ'[c] = listQ[c]

LEMMA CarriesKeeps ==
    ASSUME TypeOK, History(db), Extends(db, db'), NEW c \in Clients, LogsOK(c),
           WatcherOK(c), Carries(c), ReadRev(c)' \in Nat
    PROVE  WatcherOK(c)'
<1>1. /\ Len(db) \in Nat /\ Len(db') \in Nat /\ Len(db) <= Len(db')
      /\ ReadRev(c) \in 1 .. Len(db)
      /\ \A w \in WatchIds : watchers[c][w] \in Nat
  BY PastKept, ReadRevType DEF TypeOK
<1>2. ASSUME NEW w \in WatchIds, watchers[c][w] # NotWatching
      PROVE  /\ watchers[c][w] <= Len(db') + 1
             /\ \A s \in 1 .. watchers[c][w] - 1 : \A k \in EventsAt(w, s)' :
                   Digested(c, EventOf(k, s))'
  <2>1. /\ watchers[c][w] <= Len(db) + 1
        /\ \A s \in 1 .. watchers[c][w] - 1 : \A k \in EventsAt(w, s) :
              Digested(c, EventOf(k, s))
    BY <1>2 DEF WatcherOK, Delivered, DeliveredBy
  <2>2. ASSUME NEW s \in 1 .. watchers[c][w] - 1, NEW k \in EventsAt(w, s)'
        PROVE  Digested(c, EventOf(k, s))'
    <3>1. s \in 1 .. Len(db)
      BY <1>1, <2>1
    <3>0. PICK e : e = EventOf(k, s)
      OBVIOUS
    <3>2. k \in EventsAt(w, s) /\ EventOf(k, s)' = e
      BY <2>2, <3>0, <3>1, EventsKept
    <3>3. e.rev = s
      BY <3>0 DEF EventOf
    <3>4. Digested(c, e)
      BY <2>1, <3>0, <3>2
    <3>5. Queued(c, e) => Queued(c, e)'
      BY DEF Queued, Carries
    <3>6. CASE e.rev <= ReadRev(c) \/ Queued(c, e)
      BY <1>1, <3>1, <3>2, <3>3, <3>5, <3>6 DEF Digested, Carries
    <3>7. CASE pc[c] = "watching" /\ (~block[c] \/ ~Relevant(c, e))
      <4>1. CASE pc'[c] = "body"
        BY <1>1, <3>1, <3>2, <3>3, <3>7, <4>1 DEF Digested, Carries
      <4>2. CASE /\ pc'[c] = pc[c] /\ block'[c] = block[c]
                 /\ getQ'[c] = getQ[c] /\ listQ'[c] = listQ[c]
        <5>1. Relevant(c, e)' <=> Relevant(c, e)
          BY <3>2, <4>2 DEF Relevant, Listed
        <5> QED
          BY <3>2, <3>7, <4>2, <5>1 DEF Digested
      <4> QED
        BY <4>1, <4>2 DEF Carries
    <3> QED
      BY <3>4, <3>6, <3>7 DEF Digested
  <2> QED
    BY <1>1, <2>1, <2>2
<1>3. Delivered(c)'
  BY <1>2 DEF Delivered, DeliveredBy, Carries
<1>4. Waiting(c)'
  BY DEF WatcherOK, Waiting, Carries, ActiveWatchers, Listed
<1> QED
  BY <1>3, <1>4 DEF WatcherOK

LEMMA StopsKeeps ==
    ASSUME NEW c \in Clients, Stops(c)
    PROVE  WatcherOK(c)'
<1>1. \A w \in WatchIds : watchers'[c][w] = NotWatching
  BY DEF Stops, NoWatchers
<1> QED
  BY <1>1 DEF WatcherOK, Delivered, DeliveredBy, Waiting, Stops

(* A watcher that starts does so at the revision that was read: all changes *)
(* before it are known.  One that goes on has kept its events on the queue. *)
LEMMA StartsKeeps ==
    ASSUME TypeOK, History(db), Extends(db, db'), NEW c \in Clients, LogsOK(c),
           WatcherOK(c), Starts(c)
    PROVE  WatcherOK(c)'
<1>1. /\ Len(db) \in Nat /\ Len(db') \in Nat /\ Len(db) <= Len(db')
      /\ ReadRev(c) \in 1 .. Len(db) /\ revision[c] \in Nat /\ revision[c] <= Len(db)
      /\ \A w \in WatchIds : watchers[c][w] \in Nat
  BY PastKept, ReadRevType DEF TypeOK, LogsOK
<1>2. ReadRev(c) <= ReadRev(c)'
  BY <1>1 DEF ReadRev, Revision, Starts
<1>3. ASSUME NEW w \in ActiveWatchers(c)
      PROVE  w \in WatchIds /\ revision[c] # NoRev
  BY <1>3 DEF ActiveWatchers, Listed, WatchIds, LogsOK
<1>4. \A w \in WatchIds :
         watchers'[c][w] = IF w \notin ActiveWatchers(c) THEN NotWatching
                           ELSE IF watchers[c][w] # NotWatching THEN watchers[c][w]
                           ELSE revision[c]
  BY DEF Starts, UpdateWatchers, TypeOK
<1>5. ASSUME NEW w \in WatchIds, watchers'[c][w] # NotWatching
      PROVE  DeliveredBy(c, w)'
  <2>1. w \in ActiveWatchers(c) /\ revision[c] # NoRev
    BY <1>3, <1>4, <1>5
  <2>2. CASE watchers[c][w] # NotWatching
    <3>1. watchers'[c][w] = watchers[c][w]
      BY <1>4, <2>1, <2>2
    <3>2. /\ watchers[c][w] <= Len(db) + 1
          /\ \A s \in 1 .. watchers[c][w] - 1 : \A k \in EventsAt(w, s) :
                Digested(c, EventOf(k, s))
      BY <2>2 DEF WatcherOK, Delivered, DeliveredBy
    <3>3. ASSUME NEW s \in 1 .. watchers[c][w] - 1, NEW k \in EventsAt(w, s)'
          PROVE  Digested(c, EventOf(k, s))'
      <4>1. s \in 1 .. Len(db)
        BY <1>1, <3>2
      <4>2. PICK e : e = EventOf(k, s)
        OBVIOUS
      <4>3. k \in EventsAt(w, s) /\ EventOf(k, s)' = e /\ e.rev = s
        BY <3>3, <4>1, <4>2, EventsKept DEF EventOf
      <4>4. e.rev <= ReadRev(c) \/ Queued(c, e)
        BY <3>2, <4>2, <4>3 DEF Digested, Starts
      <4>5. Queued(c, e) => Queued(c, e)'
        BY DEF Queued, Starts
      <4>6. e.rev <= ReadRev(c) => e.rev <= ReadRev(c)'
        BY <1>1, <1>2, <4>1, <4>3 DEF ReadRev, Revision, Starts
      <4> QED
        BY <4>3, <4>4, <4>5, <4>6 DEF Digested
    <3> QED
      BY <1>1, <3>1, <3>2, <3>3 DEF DeliveredBy
  <2>3. CASE watchers[c][w] = NotWatching
    <3>1. watchers'[c][w] = revision[c] /\ ReadRev(c)' = revision[c]
      BY <1>4, <2>1, <2>3 DEF ReadRev, Starts
    <3>2. \A s \in 1 .. revision[c] - 1 : \A k : EventOf(k, s)'.rev <= ReadRev(c)'
      BY <1>1, <3>1 DEF EventOf
    <3> QED
      BY <1>1, <3>1, <3>2 DEF DeliveredBy, Digested
  <2> QED
    BY <2>2, <2>3
<1>6. Delivered(c)'
  BY <1>5 DEF Delivered, DeliveredBy
<1>7. Waiting(c)'
  <2>1. ActiveWatchers(c)' = ActiveWatchers(c)
    BY DEF ActiveWatchers, Listed, Starts
  <2>2. \A w \in ActiveWatchers(c) : watchers'[c][w] # NotWatching
    BY <1>3, <1>4 DEF NoRev, NotWatching
  <2> QED
    BY <2>1, <2>2 DEF Waiting, Starts
<1> QED
  BY <1>6, <1>7 DEF WatcherOK

(* An event leaves the queue when it is known, wakes watch() up, or is      *)
(* irrelevant.                                                              *)
LEMMA TakeEventKeeps ==
    ASSUME TypeOK, History(db), NEW c \in Clients, LogsOK(c), WatcherOK(c), TakeEvent(c)
    PROVE  WatcherOK(c)'
<1> USE DEF bodyVars, roundVars, storeVars
<1>1. /\ pc[c] = "watching" /\ revision[c] # NoRev /\ queue[c] # <<>>
      /\ UNCHANGED <<db, pc, revision, getQ, listQ, watchers>>
      /\ queue[c] \in Seq(Event) /\ queue'[c] = Tail(queue[c])
  BY DEF TakeEvent, TypeOK
<1>2. PICK h : h = Head(queue[c])
  OBVIOUS
<1>3. /\ woken'[c] = (IF h.rev > woken[c] /\ Relevant(c, h) THEN h.rev ELSE woken[c])
      /\ block'[c] = (IF h.rev > woken[c] /\ Relevant(c, h) THEN FALSE ELSE block[c])
  BY <1>2 DEF TakeEvent, TypeOK
<1>4. h.rev \in Nat /\ woken[c] \in Nat /\ revision[c] \in Nat
  <2>1. h \in Event
    BY <1>1, <1>2
  <2> QED
    BY <2>1 DEF Event, TypeOK
<1>5. block[c] => woken[c] = revision[c]
  BY <1>1 DEF WatcherOK, Waiting
<1>6. ReadRev(c) = revision[c] /\ ReadRev(c)' = revision[c]
  BY <1>1 DEF ReadRev
<1>7. ASSUME NEW e, Digested(c, e)
      PROVE  Digested(c, e)'
  <2>1. Relevant(c, e)' <=> Relevant(c, e)
    BY <1>1 DEF Relevant, Listed
  <2>2. CASE e.rev <= ReadRev(c)
    BY <1>6, <2>2 DEF Digested
  <2>3. CASE ~block[c] \/ ~Relevant(c, e)
    BY <1>1, <1>3, <2>1, <2>3 DEF Digested, TypeOK
  <2>4. CASE Queued(c, e)
    <3>1. e = h \/ Queued(c, e)'
      <4>1. PICK i \in 1 .. Len(queue[c]) : queue[c][i] = e
        BY <2>4 DEF Queued
      <4>2. CASE i = 1
        BY <1>1, <1>2, <4>1, <4>2
      <4>3. CASE i # 1
        <5>1. i - 1 \in 1 .. Len(queue'[c]) /\ queue'[c][i - 1] = e
          BY <1>1, <4>1, <4>3
        <5> QED
          BY <5>1 DEF Queued
      <4> QED
        BY <4>2, <4>3
    <3>2. CASE e = h
      <4>1. CASE h.rev > woken[c] /\ Relevant(c, h)
        BY <1>1, <1>3, <4>1 DEF Digested
      <4>2. CASE ~(h.rev > woken[c]) /\ block[c]
        BY <1>4, <1>5, <1>6, <3>2, <4>2 DEF Digested
      <4> QED
        BY <2>3, <3>2, <4>1, <4>2
    <3> QED
      BY <3>1, <3>2 DEF Digested
  <2> QED
    BY <1>7, <2>2, <2>3, <2>4 DEF Digested
<1>8. \A w \in WatchIds : \A s : EventsAt(w, s)' = EventsAt(w, s)
  BY <1>1 DEF EventsAt, Changed, WatchRange
<1>9. ASSUME NEW w \in WatchIds, NEW s, NEW k, Digested(c, EventOf(k, s))
      PROVE  Digested(c, EventOf(k, s))'
  <2>1. PICK e : e = EventOf(k, s)
    OBVIOUS
  <2>2. EventOf(k, s)' = e
    BY <1>1, <2>1 DEF EventOf, KVAt
  <2> QED
    BY <1>7, <1>9, <2>1, <2>2
<1>10. Delivered(c)'
  BY <1>1, <1>8, <1>9 DEF WatcherOK, Delivered, DeliveredBy
<1>11. Waiting(c)'
  BY <1>1, <1>3, <1>5 DEF WatcherOK, Waiting, ActiveWatchers, Listed
<1> QED
  BY <1>10, <1>11 DEF WatcherOK

(* The events a watcher delivers are those of one revision, all of them.    *)
LEMMA AllEnumerated ==
    ASSUME NEW S, IsFiniteSet(S), NEW n \in [1 .. Cardinality(S) -> S],
           \A i, j \in DOMAIN n : n[i] = n[j] => i = j, NEW x \in S
    PROVE  \E i \in 1 .. Cardinality(S) : n[i] = x
<1> DEFINE m == Cardinality(S)
<1>1. m \in Nat
  BY FS_CardinalityType
<1>2. n \in Injection(1 .. m, S)
  BY DEF Injection, IsInjective
<1>3. Cardinality(1 .. m) = m
  BY <1>1, FS_Interval
<1>4. n \in Surjection(1 .. m, S)
  BY <1>2, <1>3, FS_Injection
<1> QED
  BY <1>4 DEF Surjection

LEMMA DeliverKeepsDelivered ==
    ASSUME TypeOK, History(db), NEW c \in Clients, LogsOK(c), WatcherOK(c),
           NEW w \in WatchIds, Deliver(c, w)
    PROVE  WatcherOK(c)'
<1> USE DEF bodyVars, roundVars, storeVars
<1>1. UNCHANGED <<db, pc, revision, getQ, listQ, woken, block>>
  BY DEF Deliver
<1>2. PICK r \in watchers[c][w] .. Revision(db) :
         /\ \A s \in watchers[c][w] .. r - 1 : EventsAt(w, s) = {}
         /\ \E n \in [1 .. Cardinality(EventsAt(w, r)) -> EventsAt(w, r)] :
              /\ \A i, j \in DOMAIN n : n[i] = n[j] => i = j
              /\ queue' = [queue EXCEPT ![c] = @ \o
                   [i \in DOMAIN n |->
                      [key |-> n[i], value |-> KVAt(r, n[i]).value, rev |-> r]]]
         /\ watchers' = [watchers EXCEPT ![c][w] = r + 1]
  BY DEF Deliver
<1>3. PICK n \in [1 .. Cardinality(EventsAt(w, r)) -> EventsAt(w, r)] :
         /\ \A i, j \in DOMAIN n : n[i] = n[j] => i = j
         /\ queue' = [queue EXCEPT ![c] = @ \o [i \in DOMAIN n |-> EventOf(n[i], r)]]
  BY <1>2 DEF EventOf
<1>4. /\ r \in 1 .. Len(db) /\ Len(db) \in Nat
      /\ watchers[c][w] \in Nat /\ watchers[c][w] # NotWatching
      /\ watchers'[c][w] = r + 1
      /\ \A v \in WatchIds \ {w} : watchers'[c][v] = watchers[c][v]
  BY <1>2 DEF TypeOK, Revision, NotWatching, History, Deliver
<1>5. IsFiniteSet(EventsAt(w, r)) /\ Cardinality(EventsAt(w, r)) \in Nat
  <2>1. EventsAt(w, r) \in SUBSET Keys
    BY DEF EventsAt, Changed
  <2> QED
    BY <2>1, FS_Subset, FS_CardinalityType, TxnAssumption
<1> DEFINE m == Cardinality(EventsAt(w, r))
<1>6. PICK b : b = [i \in 1 .. m |-> EventOf(n[i], r)]
  OBVIOUS
<1>7. /\ b \in Seq({b[i] : i \in 1 .. m}) /\ Len(b) = m
      /\ queue[c] \in Seq(Event)
  <2>1. b = [i \in 1 .. m |-> b[i]]
    BY <1>6
  <2>2. b \in Seq({b[i] : i \in 1 .. m}) /\ Len(b) = m
    BY <1>5, <2>1
  <2> QED
    BY <2>2 DEF TypeOK
<1>8. queue'[c] = queue[c] \o b
  BY <1>3, <1>6 DEF TypeOK
<1>9. ASSUME NEW e, Queued(c, e)
      PROVE  Queued(c, e)'
  <2>1. PICK i \in 1 .. Len(queue[c]) : queue[c][i] = e
    BY <1>9 DEF Queued
  <2>2. i \in 1 .. Len(queue'[c]) /\ queue'[c][i] = e
    BY <1>5, <1>7, <1>8, <2>1
  <2> QED
    BY <2>2 DEF Queued
<1>10. ASSUME NEW k \in EventsAt(w, r), NEW e, e = EventOf(k, r)
       PROVE  Queued(c, e)'
  <2>1. PICK i \in 1 .. m : n[i] = k
    BY <1>3, <1>5, AllEnumerated
  <2>2. b[i] = e
    BY <1>6, <1>10, <2>1
  <2>3. Len(queue[c]) + i \in 1 .. Len(queue'[c]) /\ queue'[c][Len(queue[c]) + i] = e
    <3>1. /\ Len(queue[c]) \in Nat
          /\ Len(queue'[c]) = Len(queue[c]) + m
          /\ queue'[c][Len(queue[c]) + i] = b[i]
      BY <1>5, <1>7, <1>8, <2>1
    <3> QED
      BY <1>5, <2>1, <2>2, <3>1
  <2> QED
    BY <2>3 DEF Queued
<1>11. ASSUME NEW e, Digested(c, e)
       PROVE  Digested(c, e)'
  BY <1>1, <1>9, <1>11 DEF Digested, ReadRev, Relevant, Listed
<1>12. \A v \in WatchIds : \A s : /\ EventsAt(v, s)' = EventsAt(v, s)
                                  /\ \A k : EventOf(k, s)' = EventOf(k, s)
  BY <1>1 DEF EventsAt, Changed, WatchRange, EventOf, KVAt
<1>13. ASSUME NEW v \in WatchIds, watchers[c][v] # NotWatching,
              NEW s \in 1 .. watchers[c][v] - 1, NEW k \in EventsAt(v, s)
       PROVE  Digested(c, EventOf(k, s))'
  <2>1. PICK e : e = EventOf(k, s)
    OBVIOUS
  <2>2. Digested(c, e)
    BY <1>13, <2>1 DEF WatcherOK, Delivered, DeliveredBy
  <2> QED
    BY <1>11, <1>12, <2>1, <2>2
<1>14. ASSUME NEW s \in 1 .. r, NEW k \in EventsAt(w, s)
       PROVE  Digested(c, EventOf(k, s))'
  <2>1. CASE s < watchers[c][w]
    BY <1>4, <1>13, <2>1
  <2>2. CASE watchers[c][w] <= s /\ s < r
    BY <1>2, <1>4, <1>14, <2>2
  <2>3. CASE s = r
    <3>1. PICK e : e = EventOf(k, r)
      OBVIOUS
    <3>2. Queued(c, e)'
      BY <1>10, <1>14, <2>3, <3>1
    <3> QED
      BY <1>12, <2>3, <3>1, <3>2 DEF Digested
  <2> QED
    BY <1>4, <2>1, <2>2, <2>3
<1>15. ASSUME NEW v \in WatchIds
       PROVE  DeliveredBy(c, v)'
  <2>1. CASE v = w
    BY <1>1, <1>4, <1>12, <1>14, <2>1 DEF DeliveredBy
  <2>2. CASE v # w
    BY <1>1, <1>4, <1>12, <1>13, <2>2 DEF DeliveredBy, WatcherOK, Delivered
  <2> QED
    BY <2>1, <2>2
<1>16. Waiting(c)'
  <2>1. \A v \in WatchIds : watchers[c][v] # NotWatching => watchers'[c][v] # NotWatching
    BY <1>4 DEF NotWatching
  <2>2. ActiveWatchers(c)' = ActiveWatchers(c) /\ ActiveWatchers(c) \subseteq WatchIds
    BY <1>1 DEF ActiveWatchers, Listed, WatchIds
  <2> QED
    BY <1>1, <2>1, <2>2 DEF WatcherOK, Waiting
<1> QED
  BY <1>15, <1>16 DEF WatcherOK, Delivered

-----------------------------------------------------------------------------
(* Every step is of one of these kinds.                                     *)
LEMMA OthersCarry ==
    ASSUME TypeOK, History(db), Extends(db, db'), NEW c \in Clients,
           Same(c), watchers'[c] = watchers[c]
    PROVE  Carries(c)
<1>1. Len(db) \in Nat /\ Len(db') \in Nat /\ Len(db) <= Len(db') /\ revision[c] \in Nat
  BY PastKept DEF TypeOK
<1> QED
  BY <1>1 DEF Carries, Same, ReadRev, Revision

LEMMA BodyCarries ==
    ASSUME TypeOK, History(db), NEW c \in Clients, LogsOK(c), Body(c)
    PROVE  Carries(c) \/ Stops(c)
<1> USE DEF storeVars, bodyVars, roundVars, watchVars
<1>0. Len(db) \in Nat /\ ReadRev(c) \in 1 .. Len(db) /\ revision[c] \in Nat
  BY ReadRevType DEF History, TypeOK
<1>1. ASSUME db' = db, pc[c] = "body", pc' = pc, UNCHANGED watchVars,
             revision'[c] \in {revision[c], ReadRev(c)}
      PROVE  Carries(c)
  BY <1>0, <1>1 DEF Carries, ReadRev, Revision
<1>2. ASSUME NEW k \in Keys, LogGet(c, k)
      PROVE  revision'[c] \in {revision[c], ReadRev(c)}
  BY <1>2 DEF LogGet, TypeOK
<1>3. ASSUME NEW k \in Keys, NEW u, Get(c, k) \/ SetUpdate(c, k, u) \/ DeleteAny(c, k)
      PROVE  Carries(c)
  BY <1>1, <1>2, <1>3 DEF Get, SetUpdate, DeleteAny, InBody
<1>4. ASSUME NEW qs \in ListCalls, ListKeys(c, qs)
      PROVE  Carries(c)
  BY <1>1, <1>4 DEF ListKeys, LogList, InBody, TypeOK
<1>5. OnCommit(c) => Carries(c)
  BY <1>1 DEF OnCommit
<1>6. Raise(c) => Stops(c)
  BY DEF Raise, Leave, Stops, TypeOK
<1>7. ASSUME NEW mode, Loop(c, mode)
      PROVE  Carries(c)
  BY <1>1, <1>7 DEF Loop
<1> QED
  BY <1>3, <1>4, <1>5, <1>6, <1>7 DEF Body, Create, UpdateKey, DeleteKey

LEMMA CommitMoves ==
    ASSUME TypeOK, History(db), Extends(db, db'), NEW c \in Clients, LogsOK(c), Commit(c)
    PROVE  Carries(c) \/ Stops(c) \/ Starts(c)
<1> USE DEF storeVars, bodyVars, roundVars, watchVars
<1>0. /\ Len(db) \in Nat /\ Len(db') \in Nat /\ Len(db) <= Len(db')
      /\ ReadRev(c) \in 1 .. Len(db)
  BY PastKept, ReadRevType
<1>1. pc[c] = "body"
  BY DEF Commit, CommitEmpty, CommitSucceeds, CommitUnanswered, CommitFails,
         CommitLeaseGone, ApplyUpdates, CanCommit
<1>2. ASSUME NEW how \in {"done", "raised", "exhausted"}, Leave(c, how)
      PROVE  Stops(c)
  BY <1>2 DEF Leave, Stops, TypeOK
<1>3. ASSUME Reset(c), UNCHANGED <<pc, watchVars>>
      PROVE  Carries(c)
  BY <1>0, <1>1, <1>3 DEF Reset, Carries, ReadRev, Revision, TypeOK
<1>4. ASSUME /\ pc' = [pc EXCEPT ![c] = "watching"]
             /\ UpdateWatchers(c)
             /\ woken' = [woken EXCEPT ![c] = revision[c]]
             /\ block' = [block EXCEPT ![c] = TRUE]
             /\ UNCHANGED <<bodyVars, queue>>
      PROVE  Starts(c)
  BY <1>1, <1>4 DEF Starts, TypeOK
<1>5. AfterSuccess(c) => Carries(c) \/ Stops(c) \/ Starts(c)
  BY <1>2, <1>3, <1>4 DEF AfterSuccess
<1>6. CommitFails(c) => Carries(c) \/ Stops(c)
  BY <1>2, <1>3 DEF CommitFails
<1> QED
  BY <1>2, <1>5, <1>6 DEF Commit, CommitEmpty, CommitSucceeds, CommitUnanswered,
                          CommitLeaseGone

LEMMA NewTxnCarries ==
    ASSUME TypeOK, History(db), NEW c \in Clients, ClientOK(c), NewTxn(c)
    PROVE  Carries(c)
<1>1. /\ pc[c] \notin {"body", "watching"} /\ pc'[c] = "body"
      /\ UNCHANGED <<db, revision, watchers, queue>>
  BY DEF NewTxn, storeVars, bodyVars, watchVars, TypeOK
<1>2. ReadRev(c) \in Nat /\ ReadRev(c)' = ReadRev(c)
  BY <1>1, ReadRevType DEF ReadRev, Revision, ClientOK
<1> QED
  BY <1>1, <1>2 DEF Carries

(* watch() returns into an attempt that reads the newest revision.          *)
LEMMA ReturnCarries ==
    ASSUME TypeOK, History(db), NEW c \in Clients, LogsOK(c), Return(c)
    PROVE  Carries(c)
<1>1. /\ pc'[c] = "body" /\ revision'[c] = NoRev
      /\ UNCHANGED <<db, watchers, queue>>
  BY DEF Return, Reset, storeVars, TypeOK
<1>2. ReadRev(c) \in 1 .. Len(db) /\ Len(db) \in Nat
  BY ReadRevType DEF History
<1> QED
  BY <1>1, <1>2 DEF Carries, ReadRev, Revision

(* A client leaves the watchers of the others alone.                        *)
LEMMA OthersWatchersSame ==
    ASSUME TypeOK, NEW c \in Clients, NEW d \in Clients, c # d,
           Client(d) \/ \E w \in WatchIds : Deliver(d, w)
    PROVE  watchers'[c] = watchers[c]
<1> USE DEF TypeOK, storeVars, bodyVars, roundVars, watchVars
<1>1. CASE Body(d)
  BY <1>1 DEF Body, Get, ListKeys, Create, UpdateKey, DeleteKey, DeleteAny, SetUpdate,
              OnCommit, Raise, Leave, Loop
<1>2. CASE Commit(d)
  BY <1>2 DEF Commit, CommitEmpty, CommitSucceeds, CommitUnanswered, CommitFails,
              CommitLeaseGone, AfterSuccess, Leave, UpdateWatchers
<1>3. CASE NewTxn(d)
  BY <1>3 DEF NewTxn
<1>4. CASE Watch(d)
  BY <1>4 DEF Watch, TakeEvent, TakeEventWithoutReads, WakeUp, TimeOut, Return, Leave
<1>5. ASSUME NEW w \in WatchIds, Deliver(d, w)
      PROVE  watchers'[c] = watchers[c]
  BY <1>5 DEF Deliver
<1> QED
  BY <1>1, <1>2, <1>3, <1>4, <1>5 DEF Client

LEMMA InitWatchInv == Init => WatchInv
<1> SUFFICES ASSUME Init, NEW c \in Clients PROVE WatcherOK(c)
  BY DEF WatchInv
<1>1. pc[c] = "body" /\ \A w \in WatchIds : watchers[c][w] = NotWatching
  BY DEF Init, NoWatchers
<1> QED
  BY <1>1 DEF WatcherOK, Delivered, DeliveredBy, Waiting

LEMMA StepWatchInv == IInv /\ IInv' /\ WatchInv /\ [Next]_vars => WatchInv'
<1> SUFFICES ASSUME IInv, IInv', WatchInv, [Next]_vars, NEW c \in Clients
             PROVE  WatcherOK(c)'
  BY DEF WatchInv
<1>1. /\ TypeOK /\ History(db) /\ Extends(db, db')
      /\ ClientOK(c) /\ LogsOK(c) /\ WatcherOK(c)
      /\ TypeOK' /\ History(db)' /\ LogsOK(c)'
  BY DbStep DEF IInv, ClientOK, WatchInv
<1>2. ReadRev(c)' \in Nat
  <2>1. revision'[c] \in Nat /\ Len(db') \in Nat
    BY <1>1 DEF TypeOK, History
  <2> QED
    BY <2>1 DEF ReadRev, Revision
<1>3. Carries(c) => WatcherOK(c)'
  BY <1>1, <1>2, CarriesKeeps
<1>4. Stops(c) => WatcherOK(c)'
  BY StopsKeeps
<1>5. Starts(c) => WatcherOK(c)'
  BY <1>1, StartsKeeps
<1>6. CASE UNCHANGED txnVars
  <2>1. Same(c) /\ watchers'[c] = watchers[c]
    BY <1>6 DEF txnVars, Same
  <2> QED
    BY <1>1, <1>3, <2>1, OthersCarry
<1>7. CASE Client(c)
  <2>1. Body(c) => WatcherOK(c)'
    BY <1>1, <1>3, <1>4, BodyCarries
  <2>2. Commit(c) => WatcherOK(c)'
    BY <1>1, <1>3, <1>4, <1>5, CommitMoves
  <2>3. NewTxn(c) => WatcherOK(c)'
    BY <1>1, <1>3, NewTxnCarries
  <2>4. TakeEvent(c) => WatcherOK(c)'
    BY <1>1, TakeEventKeeps
  <2>5. TakeEventWithoutReads(c) => Stops(c)
    BY <1>1 DEF TakeEventWithoutReads, Leave, Stops, TypeOK
  <2>6. Return(c) => WatcherOK(c)'
    BY <1>1, <1>3, ReturnCarries
  <2> QED
    BY <1>4, <1>7, <2>1, <2>2, <2>3, <2>4, <2>5, <2>6 DEF Client, Watch, WakeUp, TimeOut
<1>8. ASSUME NEW w \in WatchIds, Deliver(c, w)
      PROVE  WatcherOK(c)'
  BY <1>1, <1>8, DeliverKeepsDelivered
<1>9. ASSUME NEW d \in Clients, d # c, Client(d) \/ \E w \in WatchIds : Deliver(d, w)
      PROVE  WatcherOK(c)'
  <2>1. Same(c) /\ watchers'[c] = watchers[c]
    BY <1>1, <1>9, OthersSame, OthersWatchersSame DEF Untouched
  <2> QED
    BY <1>1, <1>3, <2>1, OthersCarry
<1>10. UNCHANGED vars => UNCHANGED txnVars
  BY DEF vars, txnVars
<1> QED
  BY <1>6, <1>7, <1>8, <1>9, <1>10 DEF Next

THEOREM WatchInvariant == Spec => []WatchInv
BY InitWatchInv, StepWatchInv, Invariant, PTL DEF Spec

-----------------------------------------------------------------------------
(* A change of what was read is, or is followed by, a change that watch()   *)
(* finds relevant: of a value read, of a listed range by a new key, or of a *)
(* listed range by a deletion.  When a key of the list was deleted and is   *)
(* there again, the deletion is the one.                                    *)
LEMMA RelevantChange ==
    ASSUME TypeOK, History(db), NEW c \in Clients, LogsOK(c),
           NEW r \in revision[c] + 1 .. Len(db), Affected(c, r)
    PROVE  \E s \in revision[c] + 1 .. Len(db) : \E k \in Changed(db, s) :
              /\ Relevant(c, EventOf(k, s))
              /\ \E w \in ActiveWatchers(c) : k \in WatchRange(w)
<1> DEFINE R == revision[c]
<1>1. R \in Nat /\ Len(db) \in Nat /\ r \in 1 .. Len(db) /\ R < r /\ R <= Len(db)
  BY DEF TypeOK, History
<1>2. ASSUME NEW q \in Listed(c), NEW k \in Covers[q]
      PROVE  /\ q \in ActiveWatchers(c) /\ k \in WatchRange(q)
             /\ k \in Keys /\ q \in Queries /\ listQ[c][q] # Unread
  BY <1>2, BackendAssumption DEF ActiveWatchers, Listed, WatchRange
<1>3. ASSUME NEW k \in Changed(db, r), getQ[c][k] # Unread
      PROVE  \E w \in ActiveWatchers(c) : k \in WatchRange(w)
  <2>1. k \in Keys /\ k \in WatchRange(k)
    BY TxnAssumption DEF Changed, WatchRange
  <2> QED
    BY <1>2, <1>3, <2>1 DEF ActiveWatchers
<1>4. CASE \E k \in Changed(db, r) : getQ[c][k] # Unread
  BY <1>3, <1>4 DEF Relevant, EventOf
<1>5. ASSUME NEW q \in Listed(c), NEW k \in Covers[q] \intersect Flips(db, r)
      PROVE  \E s \in R + 1 .. Len(db) : /\ k \in Changed(db, s)
                                        /\ Relevant(c, EventOf(k, s))
  <2>1. k \in Keys /\ q \in Queries /\ listQ[c][q] # Unread
    BY <1>2
  <2>2. R \in 1 .. Len(db) /\ listQ[c][q] = {j \in Covers[q] : Exists(db[R][j])}
    BY <1>1, <2>1 DEF LogsOK, NoRev, KeysAt, KVAt
  <2>3. r - 1 \in 1 .. Len(db)
    BY <1>1, <2>2
  <2>4. Exists(db[r][k]) # Exists(db[r - 1][k]) /\ k \in Changed(db, r)
    <3>1. ~(Exists(db[r][k]) <=> Exists(db[r - 1][k]))
      BY <1>1, <1>5, <2>2, <2>3 DEF Flips
    <3> QED
      BY <1>1, <2>1, <2>2, <3>1 DEF Changed
  <2>5. ASSUME NEW s \in 1 .. Len(db), ~Exists(db[s][k])
        PROVE  Relevant(c, EventOf(k, s))
    <3>1. db[s][k] = NoKV
      BY <2>1, <2>5, MissingIsNoKV
    <3> QED
      BY <1>5, <3>1 DEF Relevant, EventOf, KVAt, NoKV
  <2>6. CASE ~Exists(db[r][k])
    BY <1>1, <2>4, <2>5, <2>6
  <2>7. CASE Exists(db[r][k]) /\ ~Exists(db[R][k])
    <3>1. Relevant(c, EventOf(k, r))
      BY <1>5, <2>2, <2>7 DEF Relevant, EventOf
    <3> QED
      BY <2>4, <3>1
  <2>8. CASE Exists(db[r][k]) /\ Exists(db[R][k])
    <3>1. ~Exists(db[r - 1][k])
      BY <2>4, <2>8 DEF Exists
    <3>2. R < r - 1
      BY <1>1, <2>2, <2>8, <3>1
    <3>3. PICK s \in R + 1 .. r - 1 : k \in Changed(db, s) /\ ~Exists(db[s][k])
      BY <2>1, <2>2, <2>3, <2>8, <3>1, <3>2 DEF History, DeletionsTraced
    <3>4. s \in R + 1 .. Len(db) /\ s \in 1 .. Len(db)
      BY <1>1, <2>2, <2>3, <3>3
    <3> QED
      BY <2>5, <3>3, <3>4
  <2> QED
    BY <2>6, <2>7, <2>8
<1>6. CASE \E q \in Listed(c) : Covers[q] \intersect Flips(db, r) # {}
  BY <1>2, <1>5, <1>6
<1> QED
  BY <1>4, <1>6 DEF Affected

(* Etcd3Transaction.watch: a client that blocks has not lost the change it  *)
(* waits for: an event that will wake it is queued or still to come.        *)
THEOREM ChangesAreRemembered == Spec => []NoChangeForgotten
<1>1. IInv /\ WatchInv => NoChangeForgotten
  <2> SUFFICES ASSUME IInv, WatchInv, NEW c \in Clients, pc[c] = "watching", block[c],
                      NEW r \in revision[c] + 1 .. Len(db), Affected(c, r)
               PROVE  \E s \in revision[c] + 1 .. Len(db) : \E k \in Changed(db, s) :
                         Relevant(c, EventOf(k, s)) /\ OnItsWay(c, EventOf(k, s))
    BY DEF NoChangeForgotten
  <2>1. /\ TypeOK /\ History(db) /\ LogsOK(c) /\ Delivered(c) /\ Waiting(c)
        /\ revision[c] \in Nat /\ Len(db) \in Nat
    BY DEF IInv, ClientOK, WatchInv, WatcherOK, TypeOK, History
  <2>2. PICK s \in revision[c] + 1 .. Len(db) : \E k \in Changed(db, s) :
                /\ Relevant(c, EventOf(k, s))
                /\ \E w \in ActiveWatchers(c) : k \in WatchRange(w)
    BY <2>1, RelevantChange
  <2>3. PICK k \in Changed(db, s), w \in ActiveWatchers(c) :
                Relevant(c, EventOf(k, s)) /\ k \in WatchRange(w)
    BY <2>2
  <2>4. w \in WatchIds /\ watchers[c][w] \in Nat /\ watchers[c][w] # NotWatching
    BY <2>1 DEF Waiting, ActiveWatchers, Listed, WatchIds, TypeOK
  <2>5. k \in EventsAt(w, s) /\ EventOf(k, s).rev = s /\ EventOf(k, s).key = k
    BY <2>3 DEF EventsAt, EventOf
  <2>6. OnItsWay(c, EventOf(k, s))
    <3>1. CASE watchers[c][w] <= s
      BY <2>1, <2>3, <2>4, <2>5, <3>1 DEF OnItsWay, NotWatching
    <3>2. CASE s < watchers[c][w]
      <4>1. Digested(c, EventOf(k, s))
        BY <2>1, <2>4, <2>5, <3>2 DEF Delivered, DeliveredBy
      <4>2. ~(s <= ReadRev(c))
        <5>1. ActiveWatchers(c) # {} => revision[c] # NoRev
          BY <2>1 DEF ActiveWatchers, Listed, LogsOK
        <5> QED
          BY <2>1, <5>1 DEF ReadRev
      <4> QED
        BY <2>3, <2>5, <4>1, <4>2 DEF Digested, OnItsWay
    <3> QED
      BY <2>1, <2>4, <3>1, <3>2
  <2> QED
    BY <2>3, <2>6
<1> QED
  BY <1>1, Invariant, WatchInvariant, PTL
=============================================================================
