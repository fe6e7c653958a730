------------------------ MODULE Etcd3TransactionProofs ------------------------
(***************************************************************************)
(* Proofs about the transactions of Etcd3Transaction, for any number of    *)
(* clients, keys, ranges, retries and revisions.                           *)
(***************************************************************************)
EXTENDS Etcd3Transaction, EtcdStoreProofs, FiniteSetTheorems

(* The query logs hold what the database held at the revision baked in.     *)
LogsOK(c) ==
    /\ revision[c] <= Len(db)
    /\ \A k \in Keys : getQ[c][k] # Unread =>
         revision[c] # NoRev /\ getQ[c][k] = db[revision[c]][k]
    /\ \A q \in Queries : listQ[c][q] # Unread =>
         revision[c] # NoRev /\ listQ[c][q] = KeysAt(revision[c], q)

(* An attempt reads at a revision that is newer than all the revisions that *)
(* made the earlier attempts of the round fail.                             *)
RoundOK(c) ==
    /\ 1 <= startRev[c]
    /\ startRev[c] + retries[c] <= Len(db)
    /\ pc[c] = "body" /\ revision[c] # NoRev => startRev[c] + retries[c] <= revision[c]
    /\ pc[c] \notin {"body", "watching"} => revision[c] = NoRev

(* The events on the queue are changes that happened, and watch() has only  *)
(* seen changes newer than what the transaction has read.                   *)
Genuine(e) ==
    /\ e.rev \in 1 .. Len(db)
    /\ e.key \in Changed(db, e.rev)
    /\ e.value = db[e.rev][e.key].value

QueueOK(c) == \A i \in 1 .. Len(queue[c]) : Genuine(queue[c][i])

WatchOK(c) ==
    /\ QueueOK(c)
    /\ pc[c] = "watching" => revision[c] <= woken[c]
    /\ pc[c] = "watching" /\ ~block[c] =>
         \E r \in revision[c] + 1 .. Len(db) : Affected(c, r)

ClientOK(c) == LogsOK(c) /\ RoundOK(c) /\ WatchOK(c)

IInv ==
    /\ TypeOK
    /\ History(db)
    /\ \A c \in Clients : ClientOK(c)

-----------------------------------------------------------------------------
(* The database only grows.                                                 *)
Extends(d, e) ==
    /\ Len(d) <= Len(e)
    /\ \A i \in 1 .. Len(d) : e[i] = d[i]

LEMMA WriteExtends ==
    ASSUME NEW d, History(d), NEW w \in Writes
    PROVE  Extends(d, Write(d, w))
<1>1. d \in Seq(Snapshots) /\ Len(d) > 0
  BY DEF History
<1>2. /\ After(d, w) \in Snapshots
      /\ Write(d, w) = d \/ Write(d, w) = Append(d, After(d, w))
  BY <1>1, WriteCases
<1> QED
  BY <1>1, <1>2 DEF Extends

LEMMA WritesAreTyped ==
    /\ \A k \in Keys, v \in Vals, l \in Leases \union {NoLease} : OneUpdate(k, Put(v, l)) \in Writes
    /\ \A ks \in SUBSET Keys : DeleteKeys(ks) \in Writes
BY DEF OneUpdate, Put, DeleteKeys, Delete, Writes, Update

(* Whatever a step does to the database is a write.                         *)
LEMMA DbWrites ==
    ASSUME TypeOK, [Next]_vars
    PROVE  db' = db \/ \E w \in Writes : db' = Write(db, w)
<1>1. CASE Direct
  <2>1. ASSUME NEW l \in Leases, Grant(l) \/ Expire(l)
        PROVE  db' = db \/ \E w \in Writes : db' = Write(db, w)
    <3>1. LeaseKeys(db, l) \in SUBSET Keys
      BY DEF LeaseKeys
    <3> QED
      BY <2>1, <3>1, WritesAreTyped DEF Grant, Expire
  <2>2. ASSUME NEW k \in DirectKeys, NEW v \in Vals,
               NEW l \in Leases \union {NoLease}, DirectCreate(k, v, l)
        PROVE  \E w \in Writes : db' = Write(db, w)
    BY <2>2, WritesAreTyped, BackendAssumption DEF DirectCreate
  <2>3. ASSUME NEW k \in DirectKeys, NEW v \in Vals, DirectUpdate(k, v)
        PROVE  \E w \in Writes : db' = Write(db, w)
    BY <2>3, WritesAreTyped, BackendAssumption DEF DirectUpdate
  <2>4. ASSUME NEW k \in DirectKeys, NEW mustExist \in BOOLEAN, NEW reached \in Reach[k],
               DirectDelete(k, mustExist, reached)
        PROVE  \E w \in Writes : db' = Write(db, w)
    <3>1. reached \in SUBSET Keys
      BY BackendAssumption
    <3> QED
      BY <2>4, <3>1, WritesAreTyped DEF DirectDelete
  <2> QED
    BY <1>1, <2>1, <2>2, <2>3, <2>4 DEF Direct, DirectUpdateAt
<1>2. ASSUME NEW c \in Clients, ApplyUpdates(c)
      PROVE  \E w \in Writes : db' = Write(db, w)
  <2>1. updates[c] \in Writes
    BY DEF TypeOK, Writes
  <2> QED
    BY <1>2, <2>1 DEF ApplyUpdates
<1>3. ASSUME NEW c \in Clients, Client(c)
      PROVE  db' = db \/ \E w \in Writes : db' = Write(db, w)
  <2>1. CASE Body(c)
    BY <2>1 DEF Body, Get, ListKeys, Create, UpdateKey, DeleteKey, DeleteAny, SetUpdate,
                OnCommit, Raise, Loop, storeVars
  <2>2. CASE Commit(c)
    BY <2>2, <1>2 DEF Commit, CommitEmpty, CommitSucceeds, CommitUnanswered, CommitFails,
                      CommitLeaseGone, storeVars
  <2>3. CASE NewTxn(c)
    BY <2>3 DEF NewTxn, storeVars
  <2>4. CASE Watch(c)
    BY <2>4 DEF Watch, TakeEvent, TakeEventWithoutReads, WakeUp, TimeOut, Return, storeVars
  <2> QED
    BY <1>3, <2>1, <2>2, <2>3, <2>4 DEF Client
<1>4. ASSUME NEW c \in Clients, NEW w \in WatchIds, Deliver(c, w)
      PROVE  db' = db
  BY <1>4 DEF Deliver, storeVars
<1>5. CASE UNCHANGED vars
  BY <1>5 DEF vars
<1> QED
  BY <1>1, <1>3, <1>4, <1>5 DEF Next

LEMMA DbStep ==
    ASSUME TypeOK, History(db), [Next]_vars
    PROVE  History(db') /\ Extends(db, db')
<1>1. CASE db' = db
  <2>1. db \in Seq(Snapshots)
    BY DEF History
  <2> QED
    BY <1>1, <2>1 DEF Extends
<1>2. CASE \E w \in Writes : db' = Write(db, w)
  BY <1>2, WriteKeepsHistory, WriteExtends
<1> QED
  BY <1>1, <1>2, DbWrites

-----------------------------------------------------------------------------
(* Types.                                                                   *)
LEMMA ReadRevType ==
    ASSUME TypeOK, History(db), NEW c \in Clients, LogsOK(c)
    PROVE  /\ ReadRev(c) \in 1 .. Len(db)
           /\ \A k \in Keys : KVAt(ReadRev(c), k) \in KV
           /\ \A q \in Queries : KeysAt(ReadRev(c), q) \in SUBSET Keys
<1>1. db \in Seq(Snapshots) /\ Len(db) \in Nat /\ Len(db) > 0
  BY DEF History
<1>2. ReadRev(c) \in 1 .. Len(db)
  BY <1>1 DEF ReadRev, NoRev, Revision, LogsOK, TypeOK
<1>3. db[ReadRev(c)] \in Snapshots
  BY <1>1, <1>2
<1> QED
  BY <1>2, <1>3, BackendAssumption DEF KVAt, KeysAt, Snapshots

LEMMA LogGetType ==
    ASSUME TypeOK, History(db), NEW c \in Clients, LogsOK(c), NEW k \in Keys, LogGet(c, k)
    PROVE  /\ getQ' \in [Clients -> [Keys -> KV \union {Unread}]]
           /\ revision' \in [Clients -> Nat]
<1> DEFINE kv == KVAt(ReadRev(c), k)
           row == [getQ[c] EXCEPT ![k] = kv]
<1>1. ReadRev(c) \in Nat /\ kv \in KV
  BY ReadRevType
<1>2. CASE getQ' = [getQ EXCEPT ![c][k] = kv] /\ revision' = [revision EXCEPT ![c] = ReadRev(c)]
  <2>1. row \in [Keys -> KV \union {Unread}]
    BY <1>1 DEF TypeOK
  <2>2. getQ' = [getQ EXCEPT ![c] = row]
    BY <1>2
  <2> HIDE DEF row
  <2> QED
    BY <1>1, <1>2, <2>1, <2>2 DEF TypeOK
<1>3. CASE UNCHANGED <<getQ, revision>>
  BY <1>3 DEF TypeOK
<1> QED
  BY <1>2, <1>3 DEF LogGet

LEMMA ResetType ==
    ASSUME TypeOK, NEW c \in Clients, Reset(c)
    PROVE  /\ revision' \in [Clients -> Nat]
           /\ getQ' \in [Clients -> [Keys -> KV \union {Unread}]]
           /\ listQ' \in [Clients -> [Queries -> {Unread} \union SUBSET Keys]]
           /\ updates' \in [Clients -> [Keys -> Update \union {NoUpdate}]]
           /\ looping' \in [Clients -> {"no", "now", "watch"}]
           /\ timed' \in [Clients -> BOOLEAN]
<1>1. /\ NoGets \in [Keys -> KV \union {Unread}]
      /\ NoLists \in [Queries -> {Unread} \union SUBSET Keys]
      /\ NoUpdates \in [Keys -> Update \union {NoUpdate}]
  BY DEF NoGets, NoLists, NoUpdates
<1> QED
  BY <1>1 DEF Reset, TypeOK, NoRev

LEMMA LeaveType ==
    ASSUME TypeOK, NEW c \in Clients, NEW how \in {"done", "raised", "exhausted"},
           Leave(c, how)
    PROVE  /\ pc' \in [Clients -> {"body", "watching", "done", "raised", "exhausted"}]
           /\ watchers' \in [Clients -> [WatchIds -> Nat]]
           /\ queue' \in [Clients -> Seq(Event)]
           /\ woken' \in [Clients -> Nat]
           /\ block' \in [Clients -> BOOLEAN]
<1>1. NoWatchers \in [WatchIds -> Nat] /\ <<>> \in Seq(Event)
  BY DEF NoWatchers, NotWatching
<1> QED
  BY <1>1 DEF Leave, TypeOK, NoRev

LEMMA KeptType ==
    ASSUME NEW c \in Clients
    PROVE  KeptCallbacks(c) \in SUBSET CallbackOrigins
  BY DEF KeptCallbacks, CallbackOrigins

LEMMA AfterSuccessType ==
    ASSUME TypeOK, NEW c \in Clients, AfterSuccess(c), Len(db') \in Nat
    PROVE  /\ pc' \in [Clients -> {"body", "watching", "done", "raised", "exhausted"}]
           /\ revision' \in [Clients -> Nat]
           /\ getQ' \in [Clients -> [Keys -> KV \union {Unread}]]
           /\ listQ' \in [Clients -> [Queries -> {Unread} \union SUBSET Keys]]
           /\ updates' \in [Clients -> [Keys -> Update \union {NoUpdate}]]
           /\ looping' \in [Clients -> {"no", "now", "watch"}]
           /\ timed' \in [Clients -> BOOLEAN]
           /\ retries' \in [Clients -> Nat]
           /\ startRev' \in [Clients -> Nat]
           /\ watchers' \in [Clients -> [WatchIds -> Nat]]
           /\ queue' \in [Clients -> Seq(Event)]
           /\ woken' \in [Clients -> Nat]
           /\ block' \in [Clients -> BOOLEAN]
<1>1. retries' \in [Clients -> Nat] /\ startRev' \in [Clients -> Nat]
  BY DEF AfterSuccess, TypeOK
<1>2. CASE looping[c] = "no" /\ Leave(c, "done")
  <2>1. Reset(c)
    BY <1>2 DEF Leave
  <2> QED
    BY <1>1, <1>2, <2>1, ResetType, LeaveType
<1>3. CASE /\ pc' = [pc EXCEPT ![c] = "watching"]
           /\ UpdateWatchers(c)
           /\ woken' = [woken EXCEPT ![c] = revision[c]]
           /\ block' = [block EXCEPT ![c] = TRUE]
           /\ UNCHANGED <<bodyVars, queue>>
  <2>1. watchers' \in [Clients -> [WatchIds -> Nat]]
    BY <1>3 DEF UpdateWatchers, TypeOK, NotWatching
  <2> QED
    BY <1>1, <1>3, <2>1 DEF TypeOK, bodyVars
<1>4. CASE Reset(c) /\ UNCHANGED <<pc, watchVars>>
  BY <1>1, <1>4, ResetType DEF TypeOK, watchVars
<1> QED
  BY <1>2, <1>3, <1>4 DEF AfterSuccess

LEMMA TypeStep ==
    ASSUME TypeOK, History(db), \A c \in Clients : LogsOK(c), History(db'), [Next]_vars
    PROVE  TypeOK'
<1> USE DEF storeVars, bodyVars, roundVars, watchVars
<1>0. db' \in Seq(Snapshots) /\ Len(db') > 0 /\ Len(db') \in Nat
  BY DEF History
<1>1. CASE Direct /\ UNCHANGED txnVars
  <2>1. lease' \in [Leases -> {"new", "alive", "expired"}]
    BY <1>1 DEF Direct, Grant, Expire, DirectCreate, DirectUpdate, DirectUpdateAt, DirectDelete,
                TypeOK, StoreTypeOK
  <2> QED
    BY <1>0, <1>1, <2>1 DEF TypeOK, StoreTypeOK, txnVars
<1>2. ASSUME NEW c \in Clients, Body(c)
      PROVE  TypeOK'
  <2>1. ASSUME NEW k \in Keys, Get(c, k)
        PROVE  TypeOK'
    <3>1. LogGet(c, k)
      BY <2>1 DEF Get
    <3> QED
      BY <1>0, <2>1, <3>1, LogGetType DEF Get, TypeOK, StoreTypeOK
  <2>2. ASSUME NEW k \in Keys, NEW u \in Update, SetUpdate(c, k, u)
        PROVE  TypeOK'
    <3>1. LogGet(c, k)
      BY <2>2 DEF SetUpdate
    <3>2. updates' \in [Clients -> [Keys -> Update \union {NoUpdate}]]
      BY <2>2 DEF SetUpdate, TypeOK
    <3> QED
      BY <1>0, <2>2, <3>1, <3>2, LogGetType DEF SetUpdate, TypeOK, StoreTypeOK
  <2>3. /\ Delete \in Update
        /\ \A v \in Vals, l \in Leases \union {NoLease} : Put(v, l) \in Update
    BY DEF Put, Delete, Update
  <2>4. ASSUME NEW k \in Keys, DeleteAny(c, k)
        PROVE  TypeOK'
    <3>1. updates' \in [Clients -> [Keys -> Update \union {NoUpdate}]]
      BY <2>4 DEF DeleteAny, Delete, Update, TypeOK
    <3> QED
      BY <1>0, <2>4, <3>1 DEF DeleteAny, TypeOK, StoreTypeOK
  <2>5. ASSUME NEW qs \in ListCalls, ListKeys(c, qs)
        PROVE  TypeOK'
    <3>1. ReadRev(c) \in Nat /\ \A q \in Queries : KeysAt(ReadRev(c), q) \in SUBSET Keys
      BY ReadRevType
    <3>2. listQ' \in [Clients -> [Queries -> {Unread} \union SUBSET Keys]]
      BY <2>5, <3>1 DEF ListKeys, LogList, TypeOK
    <3>3. revision' \in [Clients -> Nat]
      BY <2>5, <3>1 DEF ListKeys, LogList, TypeOK
    <3> QED
      BY <1>0, <2>5, <3>2, <3>3 DEF ListKeys, TypeOK, StoreTypeOK
  <2>6. CASE OnCommit(c)
    <3>1. callbacks' \in [Clients -> SUBSET CallbackOrigins]
      BY <2>6 DEF OnCommit, CallbackOrigins, TypeOK
    <3> QED
      BY <1>0, <2>6, <3>1 DEF OnCommit, TypeOK, StoreTypeOK
  <2>7. CASE Raise(c)
    <3>1. Leave(c, "raised") /\ Reset(c)
      BY <2>7 DEF Raise, Leave
    <3> QED
      BY <1>0, <2>7, <3>1, LeaveType, ResetType DEF Raise, TypeOK, StoreTypeOK
  <2>8. ASSUME NEW mode \in LoopModes, Loop(c, mode)
        PROVE  TypeOK'
    BY <1>0, <2>8 DEF Loop, TypeOK, StoreTypeOK
  <2> QED
    BY <1>2, <2>1, <2>2, <2>3, <2>4, <2>5, <2>6, <2>7, <2>8
       DEF Body, Create, UpdateKey, DeleteKey
<1>3. ASSUME NEW c \in Clients, Commit(c)
      PROVE  TypeOK'
  <2>1. KeptCallbacks(c) \in SUBSET CallbackOrigins
    BY KeptType
  <2>2. CASE CommitEmpty(c)
    <3>1. AfterSuccess(c) /\ callbacks' \in [Clients -> SUBSET CallbackOrigins]
      BY <2>1, <2>2 DEF CommitEmpty, TypeOK
    <3> QED
      BY <1>0, <2>2, <3>1, AfterSuccessType DEF CommitEmpty, TypeOK, StoreTypeOK
  <2>3. CASE CommitSucceeds(c)
    <3>1. AfterSuccess(c) /\ callbacks' \in [Clients -> SUBSET CallbackOrigins]
      BY <2>1, <2>3 DEF CommitSucceeds, TypeOK
    <3> QED
      BY <1>0, <2>3, <3>1, AfterSuccessType
         DEF CommitSucceeds, ApplyUpdates, TypeOK, StoreTypeOK
  <2>4. CASE CommitUnanswered(c)
    <3>1. Leave(c, "raised") /\ Reset(c)
      BY <2>4 DEF CommitUnanswered, Leave
    <3> QED
      BY <1>0, <2>4, <3>1, LeaveType, ResetType
         DEF CommitUnanswered, ApplyUpdates, TypeOK, StoreTypeOK
  <2>5. CASE CommitFails(c)
    <3>1. Reset(c) /\ (UNCHANGED <<pc, watchVars>> \/ Leave(c, "exhausted"))
      BY <2>5 DEF CommitFails, Leave
    <3>2. callbacks' \in [Clients -> SUBSET CallbackOrigins] /\ retries' \in [Clients -> Nat]
      BY <2>1, <2>5 DEF CommitFails, TypeOK
    <3>3. /\ pc' \in [Clients -> {"body", "watching", "done", "raised", "exhausted"}]
          /\ watchers' \in [Clients -> [WatchIds -> Nat]]
          /\ queue' \in [Clients -> Seq(Event)]
          /\ woken' \in [Clients -> Nat]
          /\ block' \in [Clients -> BOOLEAN]
      BY <3>1, LeaveType DEF TypeOK
    <3> QED
      BY <1>0, <2>5, <3>1, <3>2, <3>3, ResetType DEF CommitFails, TypeOK, StoreTypeOK
  <2>6. CASE CommitLeaseGone(c)
    <3>1. Leave(c, "raised") /\ Reset(c)
      BY <2>6 DEF CommitLeaseGone, Leave
    <3> QED
      BY <1>0, <2>6, <3>1, LeaveType, ResetType DEF CommitLeaseGone, TypeOK, StoreTypeOK
  <2> QED
    BY <1>3, <2>2, <2>3, <2>4, <2>5, <2>6 DEF Commit
<1>4. ASSUME NEW c \in Clients, NewTxn(c)
      PROVE  TypeOK'
  <2>1. Len(db) \in Nat
    BY DEF History
  <2> QED
    BY <1>0, <1>4, <2>1 DEF NewTxn, TypeOK, StoreTypeOK, CallbackOrigins
<1>5. ASSUME NEW c \in Clients, Watch(c)
      PROVE  TypeOK'
  <2>1. CASE TakeEvent(c)
    <3>1. Head(queue[c]) \in Event /\ Tail(queue[c]) \in Seq(Event)
      BY <2>1 DEF TakeEvent, TypeOK
    <3>2. Head(queue[c]).rev \in Nat
      BY <3>1 DEF Event
    <3> QED
      BY <1>0, <2>1, <3>1, <3>2 DEF TakeEvent, TypeOK, StoreTypeOK
  <2>2. CASE TakeEventWithoutReads(c)
    <3>1. Leave(c, "raised") /\ Reset(c)
      BY <2>2 DEF TakeEventWithoutReads, Leave
    <3> QED
      BY <1>0, <2>2, <3>1, LeaveType, ResetType DEF TakeEventWithoutReads, TypeOK, StoreTypeOK
  <2>3. CASE Return(c)
    <3>1. Reset(c)
      BY <2>3 DEF Return
    <3> QED
      BY <1>0, <2>3, <3>1, ResetType DEF Return, TypeOK, StoreTypeOK, NoRev
  <2> QED
    BY <1>5, <2>1, <2>2, <2>3 DEF Watch, WakeUp, TimeOut
<1>6. ASSUME NEW c \in Clients, NEW w \in WatchIds, Deliver(c, w)
      PROVE  TypeOK'
  <2> DEFINE batch(n, r) == [i \in DOMAIN n |->
                 [key |-> n[i], value |-> KVAt(r, n[i]).value, rev |-> r]]
  <2>1. PICK r \in watchers[c][w] .. Revision(db) :
           /\ EventsAt(w, r) # {}
           /\ \E n \in [1 .. Cardinality(EventsAt(w, r)) -> EventsAt(w, r)] :
                 queue' = [queue EXCEPT ![c] = @ \o batch(n, r)]
           /\ watchers' = [watchers EXCEPT ![c][w] = r + 1]
    BY <1>6 DEF Deliver
  <2>2. PICK n \in [1 .. Cardinality(EventsAt(w, r)) -> EventsAt(w, r)] :
           queue' = [queue EXCEPT ![c] = @ \o batch(n, r)]
    BY <2>1
  <2>3. r \in 1 .. Len(db) /\ r \in Nat
    BY <1>6, <2>1 DEF TypeOK, Revision, NotWatching, History, Deliver
  <2>4. Cardinality(EventsAt(w, r)) \in Nat
    <3>1. EventsAt(w, r) \in SUBSET Keys
      BY DEF EventsAt, Changed
    <3> QED
      BY <3>1, FS_Subset, FS_CardinalityType, TxnAssumption
  <2>5. batch(n, r) \in Seq(Event)
    <3>1. \A i \in 1 .. Cardinality(EventsAt(w, r)) : n[i] \in Keys
      BY DEF EventsAt, Changed
    <3>2. \A k \in Keys : KVAt(r, k).value \in Vals \union {None}
      BY <2>3 DEF KVAt, History, Snapshots, KV
    <3>3. \A i \in 1 .. Cardinality(EventsAt(w, r)) :
            [key |-> n[i], value |-> KVAt(r, n[i]).value, rev |-> r] \in Event
      BY <2>3, <3>1, <3>2 DEF Event
    <3>4. batch(n, r) \in [1 .. Cardinality(EventsAt(w, r)) -> Event]
      BY <3>3
    <3> QED
      BY <2>4, <3>4
  <2> HIDE DEF batch
  <2>6. queue[c] \o batch(n, r) \in Seq(Event)
    BY <2>5 DEF TypeOK
  <2>7. queue' \in [Clients -> Seq(Event)]
    BY <2>2, <2>6 DEF TypeOK
  <2>8. watchers' \in [Clients -> [WatchIds -> Nat]]
    BY <2>1, <2>3 DEF TypeOK
  <2> QED
    BY <1>0, <1>6, <2>7, <2>8 DEF Deliver, TypeOK, StoreTypeOK
<1>7. CASE UNCHANGED vars
  BY <1>7 DEF vars, TypeOK, StoreTypeOK
<1> QED
  BY <1>1, <1>2, <1>3, <1>4, <1>5, <1>6, <1>7 DEF Next, Client

-----------------------------------------------------------------------------
(* What a commit may conclude from its conditions.                          *)

(* If the conditions hold, so does all that was read.                       *)
LEMMA VerifiedReadsHold ==
    ASSUME TypeOK, History(db), NEW c \in Clients, LogsOK(c), Verified(c)
    PROVE  ReadsHold(c, Current(db))
<1> DEFINE n == Len(db)
           R == revision[c]
<1>1. n \in Nat /\ n > 0 /\ R \in Nat /\ R <= n /\ Current(db) = db[n]
  BY DEF History, TypeOK, LogsOK, Current
<1>2. ASSUME NEW k \in Keys, getQ[c][k] # Unread
      PROVE  getQ[c][k] = db[n][k]
  <2>1. R \in 1 .. n /\ getQ[c][k] = db[R][k]
    BY <1>1, <1>2 DEF LogsOK, NoRev
  <2>2. CASE Exists(db[R][k])
    <3>1. db[n][k].mod = db[R][k].mod
      BY <1>1, <1>2, <2>1, <2>2 DEF Verified, GetVerified
    <3> QED
      BY <1>1, <2>1, <2>2, <3>1, SameModSameValue
  <2>3. CASE ~Exists(db[R][k])
    <3>1. ~Exists(db[n][k])
      BY <1>1, <1>2, <2>1, <2>3 DEF Verified, GetVerified
    <3>2. n \in 1 .. Len(db)
      BY <1>1
    <3> QED
      BY <2>1, <2>3, <3>1, <3>2, MissingIsNoKV
  <2> QED
    BY <2>2, <2>3
<1>3. ASSUME NEW q \in Queries, listQ[c][q] # Unread
      PROVE  listQ[c][q] = {k \in Covers[q] : Exists(db[n][k])}
  <2>1. R \in 1 .. n /\ listQ[c][q] = {k \in Covers[q] : Exists(db[R][k])}
    BY <1>1, <1>3 DEF LogsOK, NoRev, KeysAt, KVAt
  <2>2. /\ \A k \in listQ[c][q] : Exists(db[n][k])
        /\ \A k \in Covers[q] : db[n][k].create < R + 1
    BY <1>1, <1>3 DEF Verified, ListVerified
  <2>3. \A k \in Covers[q] : Exists(db[n][k]) => Exists(db[R][k])
    BY <1>1, <2>1, <2>2, OldKeyExisted, BackendAssumption
  <2> QED
    BY <2>1, <2>2, <2>3
<1> QED
  BY <1>1, <1>2, <1>3 DEF ReadsHold

(* If a condition fails, something that was read has changed.               *)
LEMMA FailureHasCause ==
    ASSUME TypeOK, History(db), NEW c \in Clients, LogsOK(c), ~Verified(c)
    PROVE  /\ revision[c] # NoRev
           /\ \E r \in revision[c] + 1 .. Len(db) : Affected(c, r)
<1> DEFINE n == Len(db)
           R == revision[c]
<1>1. n \in Nat /\ n > 0 /\ R \in Nat /\ R <= n /\ Current(db) = db[n]
  BY DEF History, TypeOK, LogsOK, Current
<1>2. ASSUME NEW k \in Keys, ~GetVerified(c, k)
      PROVE  R # NoRev /\ \E r \in R + 1 .. n : Affected(c, r)
  <2>1. getQ[c][k] # Unread
    BY <1>2 DEF GetVerified
  <2>2. R \in 1 .. n /\ getQ[c][k] = db[R][k]
    BY <1>1, <2>1 DEF LogsOK, NoRev
  <2>3. db[n][k] # db[R][k]
    BY <1>1, <1>2, <2>1, <2>2 DEF GetVerified
  <2>4. PICK r \in R + 1 .. n : k \in Changed(db, r)
    <3>1. R < n
      BY <1>1, <2>2, <2>3
    <3> QED
      BY <1>1, <2>2, <2>3, <3>1 DEF History, ChangesTraced
  <2> QED
    BY <2>1, <2>2, <2>4, <1>1 DEF Affected, NoRev
<1>3. ASSUME NEW q \in Queries, ~ListVerified(c, q)
      PROVE  R # NoRev /\ \E r \in R + 1 .. n : Affected(c, r)
  <2>1. listQ[c][q] # Unread /\ q \in Listed(c)
    BY <1>3 DEF ListVerified, Listed
  <2>2. R \in 1 .. n /\ listQ[c][q] = {k \in Covers[q] : Exists(db[R][k])}
    BY <1>1, <2>1 DEF LogsOK, NoRev, KeysAt, KVAt
  <2>3. ASSUME NEW k \in listQ[c][q], ~Exists(db[n][k])
        PROVE  \E r \in R + 1 .. n : Affected(c, r)
    <3>1. k \in Keys /\ k \in Covers[q] /\ Exists(db[R][k])
      BY <2>2, <2>3, BackendAssumption
    <3>2. R < n
      BY <1>1, <2>2, <2>3, <3>1
    <3>3. PICK r \in R + 1 .. n : k \in Flips(db, r)
      BY <1>1, <2>2, <2>3, <3>1, <3>2 DEF History, ChangesTraced
    <3> QED
      BY <2>1, <3>1, <3>3 DEF Affected
  <2>4. ASSUME NEW k \in Covers[q], ~(db[n][k].create < R + 1)
        PROVE  \E r \in R + 1 .. n : Affected(c, r)
    <3> DEFINE m == db[n][k].create
    <3>1. k \in Keys /\ db[n][k] \in KV
      BY <1>1, BackendAssumption DEF History, Snapshots
    <3>2. db[n][k] # NoKV
      BY <1>1, <2>4 DEF NoKV
    <3>3. m \in Nat /\ m <= n /\ R < m /\ Exists(db[n][k])
      BY <1>1, <2>4, <3>1, <3>2 DEF History, WellFormed, KV, Exists
    <3>4. m \in R + 1 .. n /\ m > 1
      BY <1>1, <2>2, <3>3
    <3>5. Exists(db[m][k]) /\ ~Exists(db[m - 1][k])
      BY <1>1, <3>1, <3>3, <3>4 DEF History, AliveSinceCreate
    <3>6. k \in Flips(db, m)
      BY <3>1, <3>4, <3>5 DEF Flips
    <3> QED
      BY <2>1, <3>4, <3>6 DEF Affected
  <2> QED
    BY <1>1, <1>3, <2>1, <2>2, <2>3, <2>4 DEF ListVerified, NoRev
<1> QED
  BY <1>2, <1>3 DEF Verified

(* An event that watch() takes for news stands for a change of the reads.   *)
LEMMA NewsAffects ==
    ASSUME TypeOK, History(db), NEW c \in Clients, LogsOK(c), revision[c] # NoRev,
           NEW e \in Event, Genuine(e), e.rev > revision[c], Relevant(c, e)
    PROVE  \E r \in revision[c] + 1 .. Len(db) : Affected(c, r)
<1> DEFINE n == Len(db)
           R == revision[c]
           k == e.key
<1>1. /\ n \in Nat /\ n > 0 /\ R \in 1 .. n
      /\ e.rev \in R + 1 .. n /\ k \in Keys /\ k \in Changed(db, e.rev)
  BY DEF History, TypeOK, LogsOK, Genuine, NoRev, Changed
<1>2. CASE getQ[c][k] # Unread
  BY <1>1, <1>2 DEF Affected
<1>3. ASSUME NEW q \in Listed(c), k \in Covers[q], e.value = None \/ k \notin listQ[c][q]
      PROVE  \E r \in R + 1 .. n : Affected(c, r)
  <2>1. CASE ~Exists(db[e.rev][k])
    <3>1. db[e.rev][k] = NoKV
      BY <1>1, <2>1, MissingIsNoKV
    <3>2. e.rev > 1 /\ e.rev - 1 \in 1 .. n /\ db[e.rev - 1][k] # NoKV
      BY <1>1, <3>1 DEF Changed
    <3>3. Exists(db[e.rev - 1][k])
      BY <1>1, <3>2, MissingIsNoKV
    <3>4. k \in Flips(db, e.rev)
      BY <1>1, <2>1, <3>2, <3>3 DEF Flips
    <3> QED
      BY <1>1, <1>3, <3>4 DEF Affected
  <2>2. CASE Exists(db[e.rev][k])
    <3>1. e.value # None
      <4>1. db[e.rev][k] # NoKV
        BY <2>2 DEF Exists, NoKV
      <4> QED
        BY <1>1, <4>1, StoreAssumption DEF History, WellFormed, Genuine
    <3>2. ~Exists(db[R][k])
      <4>1. k \notin listQ[c][q] /\ q \in Queries /\ listQ[c][q] # Unread
        BY <1>3, <3>1 DEF Listed
      <4> QED
        BY <1>3, <4>1 DEF LogsOK, KeysAt, KVAt
    <3>3. PICK r \in R + 1 .. e.rev : k \in Flips(db, r)
      <4>1. ChangesTraced(db)
        BY DEF History
      <4>2. ~(Exists(db[R][k]) <=> Exists(db[e.rev][k]))
        BY <2>2, <3>2
      <4> HIDE DEF R, k
      <4> QED
        BY <1>1, <4>1, <4>2 DEF ChangesTraced
    <3> QED
      BY <1>1, <1>3, <3>3 DEF Affected
  <2> QED
    BY <2>1, <2>2
<1> QED
  BY <1>2, <1>3 DEF Relevant

-----------------------------------------------------------------------------
(* The invariant of one client, as the database grows.                      *)

(* The past does not change.                                                *)
LEMMA PastKept ==
    ASSUME TypeOK, History(db), Extends(db, db')
    PROVE  /\ Len(db) \in Nat /\ Len(db') \in Nat /\ 1 <= Len(db) /\ Len(db) <= Len(db')
           /\ \A r \in 1 .. Len(db) :
                /\ db'[r] = db[r]
                /\ Changed(db', r) = Changed(db, r)
                /\ Flips(db', r) = Flips(db, r)
                /\ \A q \in Queries : KeysAt(r, q)' = KeysAt(r, q)
<1>1. /\ Len(db) \in Nat /\ Len(db') \in Nat /\ 1 <= Len(db) /\ Len(db) <= Len(db')
      /\ \A r \in 1 .. Len(db) : db'[r] = db[r]
  <2>1. Len(db) \in Nat /\ 1 <= Len(db) /\ Len(db) <= Len(db')
    BY DEF History, Extends
  <2> QED
    BY <2>1 DEF Extends
<1>2. ASSUME NEW r \in 1 .. Len(db)
      PROVE  /\ Changed(db', r) = Changed(db, r)
             /\ Flips(db', r) = Flips(db, r)
             /\ \A q \in Queries : KeysAt(r, q)' = KeysAt(r, q)
  <2>1. db'[r] = db[r] /\ (r # 1 => db'[r - 1] = db[r - 1])
    BY <1>1
  <2> QED
    BY <2>1 DEF Changed, Flips, KeysAt, KVAt
<1> QED
  BY <1>1, <1>2

LEMMA LogsKept ==
    ASSUME TypeOK, History(db), Extends(db, db'), NEW c \in Clients, LogsOK(c),
           revision'[c] = revision[c], getQ'[c] = getQ[c], listQ'[c] = listQ[c]
    PROVE  LogsOK(c)'
<1>1. revision[c] \in Nat /\ (revision[c] # NoRev => revision[c] \in 1 .. Len(db))
  BY PastKept DEF LogsOK, TypeOK, NoRev
<1>2. revision'[c] <= Len(db')
  BY <1>1, PastKept DEF LogsOK
<1>3. \A k \in Keys : getQ'[c][k] # Unread =>
         revision'[c] # NoRev /\ getQ'[c][k] = db'[revision'[c]][k]
  BY <1>1, PastKept DEF LogsOK
<1>4. \A q \in Queries : listQ'[c][q] # Unread =>
         revision'[c] # NoRev /\ listQ'[c][q] = KeysAt(revision[c], q)'
  BY <1>1, PastKept DEF LogsOK
<1>5. \A q \in Queries : listQ'[c][q] # Unread =>
         revision'[c] # NoRev /\ listQ'[c][q] = KeysAt(revision[c], q)'
  BY <1>4
<1> QED
  BY <1>2, <1>3, <1>5 DEF LogsOK, KeysAt, KVAt

LEMMA GenuineKept ==
    ASSUME TypeOK, History(db), Extends(db, db'), NEW e \in Event, Genuine(e)
    PROVE  Genuine(e)'
BY PastKept DEF Genuine

LEMMA QueueKept ==
    ASSUME TypeOK, History(db), Extends(db, db'), NEW c \in Clients, QueueOK(c),
           queue'[c] = queue[c]
    PROVE  QueueOK(c)'
<1>1. queue[c] \in Seq(Event)
  BY DEF TypeOK
<1>2. ASSUME NEW i \in 1 .. Len(queue[c])
      PROVE  Genuine(queue[c][i])'
  BY <1>1, <1>2, GenuineKept DEF QueueOK
<1> QED
  BY <1>2 DEF QueueOK, Genuine

LEMMA AffectedKept ==
    ASSUME TypeOK, History(db), Extends(db, db'), NEW c \in Clients,
           getQ'[c] = getQ[c], listQ'[c] = listQ[c],
           NEW r \in 1 .. Len(db), Affected(c, r)
    PROVE  Affected(c, r)'
<1>1. Listed(c)' = Listed(c)
  BY DEF Listed
<1> QED
  BY <1>1, PastKept DEF Affected

Same(c) ==
    /\ pc'[c] = pc[c]
    /\ revision'[c] = revision[c]
    /\ getQ'[c] = getQ[c]
    /\ listQ'[c] = listQ[c]
    /\ retries'[c] = retries[c]
    /\ startRev'[c] = startRev[c]
    /\ queue'[c] = queue[c]
    /\ woken'[c] = woken[c]
    /\ block'[c] = block[c]

Untouched(c) == Same(c) /\ updates'[c] = updates[c]

(* Steps of others do not break the invariant of a client.                  *)
LEMMA SameKeeps ==
    ASSUME TypeOK, History(db), Extends(db, db'), NEW c \in Clients, ClientOK(c), Same(c)
    PROVE  ClientOK(c)'
<1>1. LogsOK(c)'
  BY LogsKept DEF ClientOK, Same
<1>2. RoundOK(c)'
  <2>1. startRev[c] \in Nat /\ retries[c] \in Nat
    BY DEF TypeOK
  <2> QED
    BY <2>1, PastKept DEF ClientOK, RoundOK, Same
<1>3. QueueOK(c)'
  BY QueueKept DEF ClientOK, WatchOK, Same
<1>4. pc'[c] = "watching" => revision'[c] <= woken'[c]
  BY DEF ClientOK, WatchOK, Same
<1>5. ASSUME pc'[c] = "watching", ~block'[c]
      PROVE  \E r \in revision'[c] + 1 .. Len(db') : Affected(c, r)'
  <2>1. PICK r \in revision[c] + 1 .. Len(db) : Affected(c, r)
    BY <1>5 DEF ClientOK, WatchOK, Same
  <2>2. r \in 1 .. Len(db) /\ r \in revision'[c] + 1 .. Len(db')
    BY <2>1, PastKept DEF TypeOK, Same
  <2> QED
    BY <2>1, <2>2, AffectedKept DEF Same
<1> QED
  BY <1>1, <1>2, <1>3, <1>4, <1>5 DEF ClientOK, WatchOK

LEMMA OthersSame ==
    ASSUME TypeOK, NEW c \in Clients, NEW d \in Clients, c # d,
           Client(d) \/ \E w \in WatchIds : Deliver(d, w)
    PROVE  Untouched(c)
<1> USE DEF Same, Untouched, TypeOK, storeVars, bodyVars, roundVars, watchVars
<1>1. Reset(d) => /\ revision'[c] = revision[c]
                  /\ getQ'[c] = getQ[c]
                  /\ listQ'[c] = listQ[c]
                  /\ updates'[c] = updates[c]
  BY DEF Reset
<1>2. ASSUME NEW how, Leave(d, how)
      PROVE  /\ Reset(d)
             /\ pc'[c] = pc[c]
             /\ queue'[c] = queue[c]
             /\ woken'[c] = woken[c]
             /\ block'[c] = block[c]
  BY <1>2 DEF Leave
<1>3. ASSUME NEW k \in Keys, LogGet(d, k)
      PROVE  revision'[c] = revision[c] /\ getQ'[c] = getQ[c]
  BY <1>3 DEF LogGet
<1>4. CASE Body(d)
  <2>1. ASSUME NEW k \in Keys, NEW u, Get(d, k) \/ SetUpdate(d, k, u) \/ DeleteAny(d, k)
        PROVE  Untouched(c)
    BY <1>3, <2>1 DEF Get, SetUpdate, DeleteAny
  <2>2. ASSUME NEW qs, ListKeys(d, qs)
        PROVE  Untouched(c)
    BY <2>2 DEF ListKeys, LogList
  <2>3. CASE OnCommit(d)
    BY <2>3 DEF OnCommit
  <2>4. CASE Raise(d)
    BY <1>1, <1>2, <2>4 DEF Raise
  <2>5. ASSUME NEW mode, Loop(d, mode)
        PROVE  Untouched(c)
    BY <2>5 DEF Loop
  <2> QED
    BY <1>4, <2>1, <2>2, <2>3, <2>4, <2>5 DEF Body, Create, UpdateKey, DeleteKey
<1>5. AfterSuccess(d) => Untouched(c)
  <2>1. AfterSuccess(d) => retries'[c] = retries[c] /\ startRev'[c] = startRev[c]
    BY DEF AfterSuccess
  <2> QED
    BY <1>1, <1>2, <2>1 DEF AfterSuccess
<1>6. CASE Commit(d)
  <2>1. CASE CommitEmpty(d) \/ CommitSucceeds(d)
    BY <1>5, <2>1 DEF CommitEmpty, CommitSucceeds
  <2>2. CASE CommitUnanswered(d) \/ CommitLeaseGone(d)
    BY <1>1, <1>2, <2>2 DEF CommitUnanswered, CommitLeaseGone
  <2>3. CASE CommitFails(d)
    BY <1>1, <1>2, <2>3 DEF CommitFails
  <2> QED
    BY <1>6, <2>1, <2>2, <2>3 DEF Commit
<1>7. CASE NewTxn(d)
  BY <1>7 DEF NewTxn
<1>8. CASE Watch(d)
  <2>1. CASE TakeEvent(d)
    BY <2>1 DEF TakeEvent
  <2>2. CASE TakeEventWithoutReads(d)
    BY <1>1, <1>2, <2>2 DEF TakeEventWithoutReads
  <2>3. CASE Return(d)
    BY <1>1, <2>3 DEF Return
  <2> QED
    BY <1>8, <2>1, <2>2, <2>3 DEF Watch, WakeUp, TimeOut
<1>9. ASSUME NEW w \in WatchIds, Deliver(d, w)
      PROVE  Untouched(c)
  BY <1>9 DEF Deliver
<1> QED
  BY <1>4, <1>6, <1>7, <1>8, <1>9 DEF Client

-----------------------------------------------------------------------------
(* Steps of the client itself.                                              *)

(* A transaction that is reset has nothing in its logs.                     *)
LEMMA ResetLogs ==
    ASSUME TypeOK, History(db), Extends(db, db'), NEW c \in Clients, Reset(c)
    PROVE  LogsOK(c)' /\ revision'[c] = NoRev
<1>1. /\ revision'[c] = NoRev
      /\ \A k \in Keys : getQ'[c][k] = Unread
      /\ \A q \in Queries : listQ'[c][q] = Unread
  BY DEF Reset, TypeOK, NoGets, NoLists
<1> QED
  BY <1>1, PastKept DEF LogsOK, NoRev

LEMMA LeaveKeeps ==
    ASSUME TypeOK, History(db), Extends(db, db'), NEW c \in Clients,
           NEW how \in {"done", "raised", "exhausted"}, Leave(c, how)
    PROVE  /\ LogsOK(c)' /\ WatchOK(c)'
           /\ revision'[c] = NoRev
           /\ pc'[c] = how
<1>1. Reset(c)
  BY DEF Leave
<1>2. pc'[c] = how /\ queue'[c] = <<>>
  BY DEF Leave, TypeOK
<1>3. QueueOK(c)'
  BY <1>2 DEF QueueOK
<1>4. WatchOK(c)'
  BY <1>2, <1>3 DEF WatchOK
<1> QED
  BY <1>1, <1>2, <1>4, ResetLogs

(* Reading adds to the logs what the snapshot holds; the snapshot is not    *)
(* older than the failures of the round.                                    *)
LEMMA ReadKeeps ==
    ASSUME TypeOK, History(db), db' = db, NEW c \in Clients, ClientOK(c), pc[c] = "body",
           \/ /\ \E k \in Keys : LogGet(c, k)
              /\ listQ' = listQ
           \/ /\ \E qs \in ListCalls : LogList(c, qs)
              /\ getQ' = getQ
    PROVE  /\ LogsOK(c)'
           /\ startRev[c] + retries[c] <= Len(db)
           /\ revision'[c] # NoRev => startRev[c] + retries[c] <= revision'[c]
<1> DEFINE R == ReadRev(c)
<1>1. LogsOK(c) /\ RoundOK(c)
  BY DEF ClientOK
<1>2. R \in 1 .. Len(db) /\ (revision[c] # NoRev => R = revision[c])
  BY <1>1, ReadRevType DEF ReadRev
<1>3. startRev[c] + retries[c] <= Len(db) /\ startRev[c] + retries[c] <= R
  BY <1>1 DEF RoundOK, ReadRev, Revision
<1> HIDE DEF R
<1>4. revision'[c] \in {R, revision[c]} /\ (revision[c] # NoRev => revision'[c] = R)
  BY <1>2 DEF LogGet, LogList, TypeOK, R
<1>5. revision'[c] <= Len(db)
  BY <1>1, <1>2, <1>4 DEF LogsOK
<1>6. ASSUME NEW k \in Keys, getQ'[c][k] # Unread
      PROVE  revision'[c] # NoRev /\ getQ'[c][k] = db[revision'[c]][k]
  <2>1. CASE getQ'[c][k] = getQ[c][k]
    <3>1. revision[c] # NoRev /\ getQ[c][k] = db[revision[c]][k]
      BY <1>1, <1>6, <2>1 DEF LogsOK
    <3> QED
      BY <1>2, <1>4, <2>1, <3>1
  <2>2. CASE getQ'[c][k] # getQ[c][k]
    <3>1. getQ'[c][k] = KVAt(R, k) /\ revision'[c] = R
      BY <2>2 DEF LogGet, TypeOK, R
    <3> QED
      BY <1>2, <3>1 DEF KVAt, NoRev
  <2> QED
    BY <2>1, <2>2
<1>7. ASSUME NEW q \in Queries, listQ'[c][q] # Unread
      PROVE  revision'[c] # NoRev /\ listQ'[c][q] = KeysAt(revision'[c], q)
  <2>1. CASE listQ'[c][q] = listQ[c][q]
    <3>1. revision[c] # NoRev /\ listQ[c][q] = KeysAt(revision[c], q)
      BY <1>1, <1>7, <2>1 DEF LogsOK
    <3> QED
      BY <1>2, <1>4, <2>1, <3>1
  <2>2. CASE listQ'[c][q] # listQ[c][q]
    <3>1. listQ'[c][q] = KeysAt(R, q) /\ revision'[c] = R
      BY <2>2 DEF LogList, TypeOK, R
    <3> QED
      BY <1>2, <3>1 DEF NoRev
  <2> QED
    BY <2>1, <2>2
<1>8. LogsOK(c)'
  BY <1>5, <1>6, <1>7 DEF LogsOK, KeysAt, KVAt
<1> QED
  BY <1>2, <1>3, <1>4, <1>8

LEMMA BodyKeeps ==
    ASSUME TypeOK, History(db), NEW c \in Clients, ClientOK(c), Body(c)
    PROVE  ClientOK(c)'
<1> USE DEF storeVars, bodyVars, roundVars, watchVars
<1>0. /\ pc[c] = "body"
      /\ db' = db
      /\ Extends(db, db')
  <2>1. pc[c] = "body" /\ db' = db
    BY DEF Body, Get, ListKeys, Create, UpdateKey, DeleteKey, DeleteAny, SetUpdate, InBody,
           OnCommit, Raise, Loop
  <2>2. Len(db) \in Nat
    BY DEF History
  <2> QED
    BY <2>1, <2>2 DEF Extends
<1>1. ASSUME NEW k \in Keys, LogGet(c, k), listQ' = listQ,
             UNCHANGED <<pc, roundVars, watchVars>>
      PROVE  ClientOK(c)'
  <2>1. QueueOK(c)'
    BY <1>0, <1>1, QueueKept DEF ClientOK, WatchOK
  <2> QED
    BY <1>0, <1>1, <2>1, ReadKeeps DEF ClientOK, RoundOK, WatchOK
<1>2. ASSUME NEW qs \in ListCalls, ListKeys(c, qs)
      PROVE  ClientOK(c)'
  <2>1. LogList(c, qs) /\ getQ' = getQ /\ UNCHANGED <<pc, roundVars, watchVars>>
    BY <1>2 DEF ListKeys
  <2>2. QueueOK(c)'
    BY <1>0, <2>1, QueueKept DEF ClientOK, WatchOK
  <2> QED
    BY <1>0, <2>1, <2>2, ReadKeeps DEF ClientOK, RoundOK, WatchOK
<1>3. CASE Raise(c)
  <2>1. LogsOK(c)' /\ WatchOK(c)' /\ revision'[c] = NoRev /\ pc'[c] = "raised"
    BY <1>0, <1>3, LeaveKeeps DEF Raise
  <2> QED
    BY <1>0, <1>3, <2>1 DEF Raise, ClientOK, RoundOK
<1>4. ASSUME UNCHANGED <<db, pc, revision, getQ, listQ, retries, startRev, watchVars>>
      PROVE  ClientOK(c)'
  BY <1>0, <1>4, SameKeeps DEF Same
<1> QED
  BY <1>1, <1>2, <1>3, <1>4
     DEF Body, Get, Create, UpdateKey, DeleteKey, DeleteAny, SetUpdate, OnCommit, Loop

LEMMA AfterSuccessKeeps ==
    ASSUME TypeOK, History(db), Extends(db, db'), NEW c \in Clients, ClientOK(c),
           AfterSuccess(c), pc[c] = "body"
    PROVE  ClientOK(c)'
<1> USE DEF bodyVars, watchVars
<1>1. startRev'[c] = Len(db') /\ retries'[c] = 0
  BY DEF AfterSuccess, TypeOK
<1>2. CASE Leave(c, "done")
  BY <1>1, <1>2, LeaveKeeps, PastKept DEF ClientOK, RoundOK
<1>3. CASE /\ pc' = [pc EXCEPT ![c] = "watching"]
           /\ woken' = [woken EXCEPT ![c] = revision[c]]
           /\ block' = [block EXCEPT ![c] = TRUE]
           /\ UNCHANGED <<bodyVars, queue>>
  <2>1. LogsOK(c)' /\ QueueOK(c)'
    BY <1>3, LogsKept, QueueKept DEF ClientOK, WatchOK
  <2>2. pc'[c] = "watching" /\ woken'[c] = revision'[c] /\ block'[c] /\ revision'[c] \in Nat
    BY <1>3 DEF TypeOK
  <2> QED
    BY <1>1, <2>1, <2>2, PastKept DEF ClientOK, RoundOK, WatchOK
<1>4. CASE Reset(c) /\ UNCHANGED <<pc, watchVars>>
  <2>1. LogsOK(c)' /\ revision'[c] = NoRev
    BY <1>4, ResetLogs
  <2>2. QueueOK(c)' /\ pc'[c] = "body"
    BY <1>4, QueueKept DEF ClientOK, WatchOK
  <2> QED
    BY <1>1, <2>1, <2>2, PastKept DEF ClientOK, RoundOK, WatchOK
<1> QED
  BY <1>2, <1>3, <1>4 DEF AfterSuccess

LEMMA CommitKeeps ==
    ASSUME TypeOK, History(db), Extends(db, db'), NEW c \in Clients, ClientOK(c), Commit(c)
    PROVE  ClientOK(c)'
<1> USE DEF storeVars, bodyVars, roundVars, watchVars
<1>1. startRev[c] \in Nat /\ retries[c] \in Nat /\ revision[c] \in Nat
  BY DEF TypeOK
<1>2. CASE CommitEmpty(c) \/ CommitSucceeds(c)
  BY <1>2, AfterSuccessKeeps DEF CommitEmpty, CommitSucceeds, ApplyUpdates, CanCommit
<1>3. CASE CommitUnanswered(c) \/ CommitLeaseGone(c)
  <2>1. LogsOK(c)' /\ WatchOK(c)' /\ revision'[c] = NoRev /\ pc'[c] = "raised"
    BY <1>3, LeaveKeeps DEF CommitUnanswered, CommitLeaseGone
  <2> QED
    BY <1>1, <1>3, <2>1, PastKept
       DEF CommitUnanswered, CommitLeaseGone, ClientOK, RoundOK
<1>4. CASE CommitFails(c)
  <2>1. revision[c] # NoRev /\ \E r \in revision[c] + 1 .. Len(db) : Affected(c, r)
    BY <1>4, FailureHasCause DEF CommitFails, ClientOK
  <2>2. startRev[c] + retries[c] + 1 <= Len(db)
    BY <1>1, <1>4, <2>1, PastKept DEF CommitFails, ClientOK, RoundOK
  <2>3. startRev'[c] = startRev[c] /\ retries'[c] = retries[c] + 1
    BY <1>4 DEF CommitFails, TypeOK
  <2>4. CASE Reset(c) /\ UNCHANGED <<pc, watchVars>>
    <3>1. LogsOK(c)' /\ revision'[c] = NoRev
      BY <2>4, ResetLogs
    <3>2. QueueOK(c)' /\ pc'[c] = "body"
      BY <1>4, <2>4, QueueKept DEF CommitFails, ClientOK, WatchOK
    <3> QED
      BY <1>1, <2>2, <2>3, <3>1, <3>2, PastKept DEF ClientOK, RoundOK, WatchOK
  <2>5. CASE Leave(c, "exhausted")
    BY <1>1, <2>2, <2>3, <2>5, LeaveKeeps, PastKept DEF ClientOK, RoundOK
  <2> QED
    BY <1>4, <2>4, <2>5 DEF CommitFails
<1> QED
  BY <1>2, <1>3, <1>4 DEF Commit

LEMMA NewTxnKeeps ==
    ASSUME TypeOK, History(db), Extends(db, db'), NEW c \in Clients, ClientOK(c), NewTxn(c)
    PROVE  ClientOK(c)'
<1> USE DEF storeVars, bodyVars, watchVars
<1>1. /\ pc[c] \notin {"body", "watching"} /\ pc'[c] = "body"
      /\ startRev'[c] = Len(db) /\ retries'[c] = 0
  BY DEF NewTxn, TypeOK
<1>2. revision'[c] = NoRev
  BY <1>1 DEF NewTxn, ClientOK, RoundOK
<1>3. LogsOK(c)' /\ QueueOK(c)'
  BY LogsKept, QueueKept DEF NewTxn, ClientOK, WatchOK
<1> QED
  BY <1>1, <1>2, <1>3, PastKept DEF ClientOK, RoundOK, WatchOK

LEMMA WatchKeeps ==
    ASSUME TypeOK, History(db), Extends(db, db'), NEW c \in Clients, ClientOK(c), Watch(c)
    PROVE  ClientOK(c)'
<1> USE DEF storeVars, bodyVars, roundVars, watchVars
<1>1. startRev[c] \in Nat /\ retries[c] \in Nat /\ revision[c] \in Nat /\ db' = db
  BY DEF TypeOK, Watch, TakeEvent, TakeEventWithoutReads, WakeUp, TimeOut, Return
<1>2. CASE TakeEvent(c)
  <2> DEFINE e == Head(queue[c])
             news == e.rev > woken[c] /\ Relevant(c, e)
  <2>1. /\ queue[c] \in Seq(Event) /\ queue[c] # <<>> /\ e \in Event /\ e.rev \in Nat
        /\ woken[c] \in Nat /\ pc[c] = "watching" /\ pc'[c] = "watching"
        /\ revision[c] # NoRev /\ revision'[c] = revision[c]
        /\ getQ' = getQ /\ listQ' = listQ
        /\ queue'[c] = Tail(queue[c])
        /\ woken'[c] = (IF news THEN e.rev ELSE woken[c])
        /\ block'[c] = (IF news THEN FALSE ELSE block[c])
    <3>1. queue[c] \in Seq(Event) /\ queue[c] # <<>> /\ woken[c] \in Nat
      BY <1>2 DEF TakeEvent, TypeOK
    <3>2. e \in Event
      BY <3>1
    <3>3. e.rev \in Nat
      BY <3>2 DEF Event
    <3>4. /\ pc[c] = "watching" /\ pc'[c] = "watching"
          /\ revision[c] # NoRev /\ revision'[c] = revision[c]
          /\ getQ' = getQ /\ listQ' = listQ
      BY <1>2 DEF TakeEvent
    <3>5. queue'[c] = Tail(queue[c])
      BY <1>2 DEF TakeEvent, TypeOK
    <3>6. woken'[c] = IF news THEN e.rev ELSE woken[c]
      BY <1>2 DEF TakeEvent, TypeOK
    <3>7. block'[c] = IF news THEN FALSE ELSE block[c]
      BY <1>2 DEF TakeEvent, TypeOK
    <3> QED
      BY <3>1, <3>2, <3>3, <3>4, <3>5, <3>6, <3>7
  <2>2. Genuine(e) /\ \A i \in 1 .. Len(queue[c]) : Genuine(queue[c][i])
    BY <2>1 DEF ClientOK, WatchOK, QueueOK
  <2>3. QueueOK(c)'
    <3>1. \A i \in 1 .. Len(queue'[c]) : Genuine(queue'[c][i])
      BY <2>1, <2>2
    <3> QED
      BY <1>1, <3>1 DEF QueueOK, Genuine
  <2>4. revision[c] <= woken[c]
    BY <2>1 DEF ClientOK, WatchOK
  <2> HIDE DEF e
  <2>5. revision'[c] <= woken'[c]
    BY <1>1, <2>1, <2>4
  <2>6. ASSUME ~block'[c]
        PROVE  \E r \in revision[c] + 1 .. Len(db) : Affected(c, r)
    <3>1. CASE news
      <4>1. e.rev > revision[c] /\ Relevant(c, e)
        BY <1>1, <2>1, <2>4, <3>1
      <4> QED
        BY <2>1, <2>2, <4>1, NewsAffects DEF ClientOK
    <3>2. CASE ~news
      BY <2>1, <2>6, <3>2 DEF ClientOK, WatchOK
    <3> QED
      BY <3>1, <3>2
  <2>7. ASSUME ~block'[c]
        PROVE  \E r \in revision'[c] + 1 .. Len(db') : Affected(c, r)'
    <3>1. \A r : Affected(c, r)' <=> Affected(c, r)
      BY <1>1, <2>1 DEF Affected, Listed
    <3> QED
      BY <1>1, <2>1, <2>6, <2>7, <3>1
  <2>8. LogsOK(c)'
    BY <2>1, LogsKept DEF ClientOK
  <2>9. RoundOK(c)'
    BY <1>1, <1>2, <2>1 DEF TakeEvent, ClientOK, RoundOK
  <2> QED
    BY <2>3, <2>5, <2>7, <2>8, <2>9 DEF ClientOK, WatchOK
<1>3. CASE TakeEventWithoutReads(c)
  <2>1. LogsOK(c)' /\ WatchOK(c)' /\ revision'[c] = NoRev /\ pc'[c] = "raised"
    BY <1>3, LeaveKeeps DEF TakeEventWithoutReads
  <2> QED
    BY <1>1, <1>3, <2>1 DEF TakeEventWithoutReads, ClientOK, RoundOK
<1>4. CASE Return(c)
  <2>1. LogsOK(c)' /\ revision'[c] = NoRev
    BY <1>4, ResetLogs DEF Return
  <2>2. QueueOK(c)' /\ pc'[c] = "body"
    BY <1>4, QueueKept DEF Return, TypeOK, ClientOK, WatchOK
  <2> QED
    BY <1>1, <1>4, <2>1, <2>2 DEF Return, ClientOK, RoundOK, WatchOK
<1> QED
  BY <1>2, <1>3, <1>4 DEF Watch, WakeUp, TimeOut

(* A watcher delivers changes that happened.                                *)
LEMMA DeliverKeeps ==
    ASSUME TypeOK, History(db), NEW c \in Clients, ClientOK(c), NEW w \in WatchIds, Deliver(c, w)
    PROVE  ClientOK(c)'
<1> USE DEF storeVars, bodyVars, roundVars
<1> DEFINE batch(n, r) == [i \in DOMAIN n |->
               [key |-> n[i], value |-> KVAt(r, n[i]).value, rev |-> r]]
<1>1. PICK r \in watchers[c][w] .. Revision(db) :
         \E n \in [1 .. Cardinality(EventsAt(w, r)) -> EventsAt(w, r)] :
            queue' = [queue EXCEPT ![c] = @ \o batch(n, r)]
  BY DEF Deliver
<1>2. PICK n \in [1 .. Cardinality(EventsAt(w, r)) -> EventsAt(w, r)] :
         queue' = [queue EXCEPT ![c] = @ \o batch(n, r)]
  BY <1>1
<1>3. r \in 1 .. Len(db)
  BY <1>1 DEF TypeOK, Revision, NotWatching, History, Deliver
<1>4. Cardinality(EventsAt(w, r)) \in Nat
  <2>1. EventsAt(w, r) \in SUBSET Keys
    BY DEF EventsAt, Changed
  <2> QED
    BY <2>1, FS_Subset, FS_CardinalityType, TxnAssumption
<1> DEFINE m == Cardinality(EventsAt(w, r))
           b == batch(n, r)
<1>5. ASSUME NEW i \in 1 .. m
      PROVE  Genuine(b[i])
  <2>1. b[i] = [key |-> n[i], value |-> KVAt(r, n[i]).value, rev |-> r]
    OBVIOUS
  <2>2. n[i] \in Changed(db, r)
    BY DEF EventsAt
  <2> QED
    BY <1>3, <2>1, <2>2 DEF Genuine, KVAt
<1>6. b = [i \in 1 .. m |-> b[i]] /\ b \in Seq({b[i] : i \in 1 .. m}) /\ Len(b) = m
  <2>1. DOMAIN b = 1 .. m
    OBVIOUS
  <2>2. b = [i \in 1 .. m |-> b[i]]
    BY <2>1
  <2> HIDE DEF b
  <2> QED
    BY <1>4, <2>1, <2>2
<1>7. queue[c] \in Seq(Event) /\ queue'[c] = queue[c] \o b
  BY <1>2 DEF TypeOK
<1> HIDE DEF b
<1>8. \A i \in 1 .. Len(queue'[c]) : Genuine(queue'[c][i])
  <2>1. ASSUME NEW i \in 1 .. Len(queue'[c])
        PROVE  Genuine(queue'[c][i])
    <3>1. CASE i <= Len(queue[c])
      <4>1. i \in 1 .. Len(queue[c]) /\ queue'[c][i] = queue[c][i]
        BY <1>4, <1>6, <1>7, <2>1, <3>1
      <4> QED
        BY <4>1 DEF ClientOK, WatchOK, QueueOK
    <3>2. CASE i > Len(queue[c])
      <4>1. i - Len(queue[c]) \in 1 .. m /\ queue'[c][i] = b[i - Len(queue[c])]
        BY <1>4, <1>6, <1>7, <2>1, <3>2
      <4> QED
        BY <1>5, <4>1
    <3> QED
      BY <1>7, <3>1, <3>2
  <2> QED
    BY <2>1
<1>9. QueueOK(c)'
  BY <1>8 DEF QueueOK, Genuine, Deliver
<1>10. UNCHANGED <<db, pc, revision, getQ, listQ, retries, startRev, woken, block>>
  BY DEF Deliver
<1>11. LogsOK(c)' /\ RoundOK(c)'
  BY <1>10 DEF ClientOK, LogsOK, RoundOK, KeysAt, KVAt
<1>12. \A s : Affected(c, s)' <=> Affected(c, s)
  BY <1>10 DEF Affected, Listed
<1> QED
  BY <1>9, <1>10, <1>11, <1>12 DEF ClientOK, WatchOK

-----------------------------------------------------------------------------
(* The invariant is inductive.                                              *)
LEMMA InitIInv == Init => IInv
<1> SUFFICES ASSUME Init PROVE IInv
  OBVIOUS
<1>1. PICK ks \in SUBSET Keys, v \in Vals : db = Populated(ks, v)
  BY DEF Init
<1>2. History(db) /\ Len(db) = 1
  BY <1>1, PopulatedHistory DEF Populated
<1>3. TypeOK
  <2>1. /\ NoGets \in [Keys -> KV \union {Unread}]
        /\ NoLists \in [Queries -> {Unread} \union SUBSET Keys]
        /\ NoUpdates \in [Keys -> Update \union {NoUpdate}]
        /\ NoWatchers \in [WatchIds -> Nat]
        /\ <<>> \in Seq(Event)
    BY DEF NoGets, NoLists, NoUpdates, NoWatchers, NotWatching
  <2>2. StoreTypeOK
    BY <1>2 DEF Init, StoreTypeOK, History
  <2> QED
    BY <2>1, <2>2 DEF Init, TypeOK, NoRev
<1>4. ASSUME NEW c \in Clients
      PROVE  ClientOK(c)
  <2>1. LogsOK(c)
    BY <1>2 DEF Init, LogsOK, NoRev, NoGets, NoLists
  <2>2. RoundOK(c)
    BY <1>2 DEF Init, RoundOK, NoRev
  <2>3. WatchOK(c)
    BY DEF Init, WatchOK, QueueOK
  <2> QED
    BY <2>1, <2>2, <2>3 DEF ClientOK
<1> QED
  BY <1>2, <1>3, <1>4 DEF IInv

LEMMA StepIInv == IInv /\ [Next]_vars => IInv'
<1> SUFFICES ASSUME IInv, [Next]_vars PROVE IInv'
  OBVIOUS
<1>1. /\ TypeOK /\ History(db)
      /\ \A c \in Clients : ClientOK(c) /\ LogsOK(c)
  BY DEF IInv, ClientOK
<1>2. History(db') /\ Extends(db, db')
  BY <1>1, DbStep
<1>3. TypeOK'
  BY <1>1, <1>2, TypeStep
<1>4. ASSUME NEW c \in Clients
      PROVE  ClientOK(c)'
  <2>1. CASE Same(c)
    BY <1>1, <1>2, <2>1, SameKeeps
  <2>2. CASE UNCHANGED txnVars
    <3>1. Same(c)
      BY <2>2 DEF txnVars, Same
    <3> QED
      BY <2>1, <3>1
  <2>3. CASE Client(c)
    BY <1>1, <1>2, <2>3, BodyKeeps, CommitKeeps, NewTxnKeeps, WatchKeeps DEF Client
  <2>4. ASSUME NEW w \in WatchIds, Deliver(c, w)
        PROVE  ClientOK(c)'
    BY <1>1, <2>4, DeliverKeeps
  <2>5. ASSUME NEW d \in Clients, d # c, Client(d) \/ \E w \in WatchIds : Deliver(d, w)
        PROVE  ClientOK(c)'
    BY <1>1, <2>1, <2>5, OthersSame DEF Untouched
  <2>6. UNCHANGED vars => UNCHANGED txnVars
    BY DEF vars, txnVars
  <2> QED
    BY <2>2, <2>3, <2>4, <2>5, <2>6 DEF Next
<1> QED
  BY <1>2, <1>3, <1>4 DEF IInv

(* The inductive invariant holds in every reachable state: the query logs   *)
(* are the snapshot at the revision baked in, failed attempts are paid for, *)
(* queued watch events are changes that happened.                           *)
THEOREM Invariant == Spec => []IInv
BY InitIInv, StepIInv, PTL DEF Spec

-----------------------------------------------------------------------------
(* Variables keep their types, whatever clients and leases do.              *)
THEOREM TypeCorrect == Spec => []TypeOK
<1>1. IInv => TypeOK
  BY DEF IInv
<1> QED
  BY <1>1, Invariant, PTL

(* Etcd3Transaction.get and list_keys: all reads of an attempt hold at one  *)
(* revision, not older than the start of the round of attempts.             *)
THEOREM SnapshotIsolation == Spec => []SnapshotReads
<1>1. IInv => SnapshotReads
  <2> SUFFICES ASSUME IInv, NEW c \in Clients, pc[c] = "body"
               PROVE  \E r \in startRev[c] .. Len(db) : ReadsHold(c, db[r])
    BY DEF SnapshotReads
  <2>1. /\ TypeOK /\ LogsOK(c) /\ RoundOK(c)
        /\ Len(db) \in Nat /\ startRev[c] \in Nat /\ retries[c] \in Nat /\ revision[c] \in Nat
    BY DEF IInv, ClientOK, History, TypeOK
  <2>2. CASE revision[c] = NoRev
    <3>1. ReadsHold(c, db[Len(db)])
      BY <2>1, <2>2 DEF LogsOK, ReadsHold
    <3>2. Len(db) \in startRev[c] .. Len(db)
      BY <2>1 DEF RoundOK
    <3> QED
      BY <3>1, <3>2
  <2>3. CASE revision[c] # NoRev
    <3>1. ReadsHold(c, db[revision[c]])
      BY <2>1 DEF LogsOK, ReadsHold, KeysAt, KVAt
    <3>2. revision[c] \in startRev[c] .. Len(db)
      BY <2>1, <2>3 DEF LogsOK, RoundOK
    <3> QED
      BY <3>1, <3>2
  <2> QED
    BY <2>2, <2>3
<1> QED
  BY <1>1, Invariant, PTL

(* Etcd3Transaction.commit: the conditions on mod and create revisions are  *)
(* enough to make transactions serializable, phantoms included.             *)
THEOREM Serializability == Spec => SerializableCommit
<1>1. IInv => \A c \in Clients : ApplyUpdates(c) => ReadsHold(c, Current(db))
  BY VerifiedReadsHold DEF IInv, ClientOK, ApplyUpdates, CanCommit
<1>2. IInv => [\A c \in Clients : ApplyUpdates(c) => ReadsHold(c, Current(db))]_vars
  BY <1>1
<1> QED
  BY <1>2, Invariant, PTL DEF SerializableCommit

(* Etcd3Transaction.commit: a failed condition is never a false alarm.      *)
THEOREM NoFalseConflicts == Spec => ConflictHasCause
<1>1. IInv => \A c \in Clients : CommitFails(c) =>
                 \E r \in revision[c] + 1 .. Len(db) : Affected(c, r)
  BY FailureHasCause DEF IInv, ClientOK, CommitFails
<1>2. IInv => [\A c \in Clients : CommitFails(c) =>
                 \E r \in revision[c] + 1 .. Len(db) : Affected(c, r)]_vars
  BY <1>1
<1> QED
  BY <1>2, Invariant, PTL DEF ConflictHasCause

(* Etcd3Transaction.__iter__: retries are used up only by the progress of   *)
(* other clients, for every max_retries.                                    *)
THEOREM RetriesArePaidFor == Spec => []RetriesNeedContention
<1>1. IInv => RetriesNeedContention
  BY DEF IInv, ClientOK, RoundOK, RetriesNeedContention
<1> QED
  BY <1>1, Invariant, PTL

(* Etcd3Transaction.watch: a wait ends early only for a change of the       *)
(* values read or of the membership of the ranges listed.                   *)
THEOREM WakeUpsAreGenuine == Spec => []NoSpuriousWakeUp
<1>1. IInv => NoSpuriousWakeUp
  BY DEF IInv, ClientOK, WatchOK, NoSpuriousWakeUp
<1> QED
  BY <1>1, Invariant, PTL

-----------------------------------------------------------------------------
(* The refinement to AtomicStore.                                           *)
LEMMA CurrentValues ==
    ASSUME History(db), NEW k \in Keys
    PROVE  /\ Current(db)[k].value \in Vals \union {None}
           /\ Exists(Current(db)[k]) <=> Current(db)[k].value # None
<1>1. Len(db) \in 1 .. Len(db) /\ db \in Seq(Snapshots)
  BY DEF History
<1>2. db[Len(db)][k] \in KV
  BY <1>1 DEF Snapshots
<1>3. \/ db[Len(db)][k] = NoKV
      \/ db[Len(db)][k].value \in Vals /\ 1 <= db[Len(db)][k].mod
  BY <1>1, <1>2 DEF History, WellFormed, KV
<1> QED
  BY <1>2, <1>3, StoreAssumption DEF KV, NoKV, Exists, Current

LEMMA NextValues ==
    ASSUME History(db)', NEW k \in Keys
    PROVE  Current(db)'[k].value \in Vals \union {None}
<1>1. Len(db)' \in 1 .. Len(db)' /\ db' \in Seq(Snapshots)
  BY DEF History
<1> QED
  BY <1>1 DEF Snapshots, KV, Current

LEMMA AtomicStarts ==
    ASSUME Init
    PROVE  Atomic!Init
<1>1. [k \in Keys |-> Current(db)[k].value] \in Atomic!Stores
  <2>1. TypeOK /\ History(db)
    BY InitIInv DEF IInv
  <2> QED
    BY <2>1, CurrentValues DEF Atomic!Stores
<1>2. \A c \in Clients : Status(c) = "body"
  BY DEF Init, Status
<1>3. \A c \in Clients, k \in Keys : ValueRead(c, k) = Unread /\ ValueStaged(c, k) = NoUpdate
  BY DEF Init, ValueRead, ValueStaged, NoGets, NoUpdates
<1>4. listQ = [c \in Clients |-> [q \in Queries |-> Unread]]
  BY DEF Init, NoLists
<1> QED
  BY <1>1, <1>2, <1>3, <1>4 DEF Atomic!Init

(* A client changes its own attempt only.                                   *)
LEMMA OnlyItsOwn ==
    ASSUME NEW c \in Clients, \A o \in Clients \ {c} : Untouched(o)
    PROVE  Atomic!Only(c)
<1> SUFFICES ASSUME NEW o \in Clients \ {c}
             PROVE  /\ Status(o)' = Status(o)
                    /\ \A k \in Keys : /\ ValueRead(o, k)' = ValueRead(o, k)
                                       /\ ValueStaged(o, k)' = ValueStaged(o, k)
                    /\ listQ'[o] = listQ[o]
  BY DEF Atomic!Only
<1> QED
  BY DEF Untouched, Same, Status, ValueRead, ValueStaged

(* All that a commit has read holds in the store of values as well.         *)
LEMMA ValuesAreCurrent ==
    ASSUME TypeOK, History(db), NEW c \in Clients, ReadsHold(c, Current(db))
    PROVE  Atomic!ReadsAreCurrent(c)
<1>1. ASSUME NEW k \in Keys, ValueRead(c, k) # Unread
      PROVE  ValueRead(c, k) = Current(db)[k].value
  BY <1>1 DEF ReadsHold, ValueRead
<1>2. ASSUME NEW q \in Queries, listQ[c][q] # Unread
      PROVE  listQ[c][q] = {k \in Covers[q] : Current(db)[k].value # None}
  <2>1. Covers[q] \subseteq Keys
    BY BackendAssumption
  <2> QED
    BY <1>2, <2>1, CurrentValues DEF ReadsHold
<1>3. \A q \in Queries : Covers[q] \subseteq Keys
  BY BackendAssumption
<1> QED
  BY <1>1, <1>2, <1>3 DEF Atomic!ReadsAreCurrent

(* The updates of a commit are made at once.                                *)
LEMMA UpdatesAreMade ==
    ASSUME TypeOK, History(db), NEW c \in Clients, ApplyUpdates(c), NEW k \in Keys
    PROVE  Current(db)'[k].value = IF ValueStaged(c, k) # NoUpdate THEN ValueStaged(c, k)
                                   ELSE Current(db)[k].value
<1>1. db \in Seq(Snapshots) /\ Len(db) > 0
  BY DEF History
<1>2. updates[c] \in Writes
  BY DEF TypeOK, Writes
<1>3. Current(db)' = After(db, updates[c])
  BY <1>1, <1>2, WriteCases DEF ApplyUpdates, Write, Current
<1>4. Current(db)'[k] = Updated(Current(db)[k], updates[c][k], Len(db) + 1)
  BY <1>3 DEF After
<1>5. updates[c][k] # NoUpdate => updates[c][k].value \in Vals \union {None}
  BY DEF TypeOK, Update
<1>6. ValueStaged(c, k) = NoUpdate <=> updates[c][k] = NoUpdate
  BY <1>5, TxnAssumption DEF ValueStaged
<1> QED
  BY <1>4, <1>6 DEF Updated, NoKV, ValueStaged

(* Only ApplyUpdates of a client writes, and only a client without updates  *)
(* is done without.                                                         *)
LEMMA AppliesOrSpares ==
    ASSUME TypeOK, NEW c \in Clients, Client(c), ~ApplyUpdates(c)
    PROVE  /\ db' = db
           /\ Status(c) = "body" /\ Status(c)' = "done" =>
                \A k \in Keys : updates[c][k] = NoUpdate
<1> USE DEF TypeOK, storeVars, bodyVars, roundVars, watchVars, Leave, Status
<1>1. CASE Body(c)
  BY <1>1 DEF Body, Get, ListKeys, Create, UpdateKey, DeleteKey, DeleteAny, SetUpdate,
              OnCommit, Raise, Loop
<1>2. CASE Commit(c)
  <2>1. CASE CommitEmpty(c)
    BY <2>1 DEF CommitEmpty, HasUpdates, NoUpdates
  <2>2. CASE CommitFails(c) \/ CommitLeaseGone(c)
    BY <2>2 DEF CommitFails, CommitLeaseGone
  <2> QED
    BY <1>2, <2>1, <2>2 DEF Commit, CommitSucceeds, CommitUnanswered
<1>3. CASE NewTxn(c)
  BY <1>3 DEF NewTxn
<1>4. CASE Watch(c)
  BY <1>4 DEF Watch, TakeEvent, TakeEventWithoutReads, WakeUp, TimeOut, Return
<1> QED
  BY <1>1, <1>2, <1>3, <1>4 DEF Client

LEMMA AtomicStep ==
    ASSUME IInv, IInv', [Next]_vars
    PROVE  [Atomic!Next]_(Atomic!vars)
<1>1. TypeOK /\ History(db) /\ TypeOK' /\ History(db)'
  BY DEF IInv
<1>2. CASE UNCHANGED vars
  BY <1>2 DEF vars, Atomic!vars, Atomic!clientVars, Current, Status, ValueRead, ValueStaged
<1>3. CASE Direct /\ UNCHANGED txnVars
  <2>1. [k \in Keys |-> Current(db)[k].value]' \in Atomic!Stores
    BY <1>1, NextValues DEF Atomic!Stores
  <2>2. UNCHANGED Atomic!clientVars
    BY <1>3 DEF txnVars, Atomic!clientVars, Status, ValueRead, ValueStaged
  <2> QED
    BY <2>1, <2>2 DEF Atomic!Next, Atomic!Outside
<1>4. ASSUME NEW c \in Clients, Client(c)
      PROVE  Atomic!Work(c) \/ Atomic!Commit(c)
  <2>1. Atomic!Only(c)
    BY <1>1, <1>4, OthersSame, OnlyItsOwn
  <2>2. CASE ApplyUpdates(c)
    <3>1. ReadsHold(c, Current(db)) /\ Status(c) = "body"
      BY <1>1, <2>2, VerifiedReadsHold DEF IInv, ClientOK, ApplyUpdates, CanCommit, Status
    <3>2. Atomic!ReadsAreCurrent(c)
      BY <1>1, <3>1, ValuesAreCurrent
    <3>3. \A k \in Keys : Current(db)'[k].value =
                            IF ValueStaged(c, k) # NoUpdate THEN ValueStaged(c, k)
                            ELSE Current(db)[k].value
      BY <1>1, <2>2, UpdatesAreMade
    <3> QED
      BY <2>1, <3>1, <3>2, <3>3 DEF Atomic!Commit, Atomic!Updates
  <2>3. CASE ~ApplyUpdates(c)
    <3>1. /\ db' = db
          /\ Status(c) = "body" /\ Status(c)' = "done" =>
               \A k \in Keys : updates[c][k] = NoUpdate
      BY <1>1, <1>4, <2>3, AppliesOrSpares
    <3>2. Status(c) = "body" /\ Status(c)' = "done" => Atomic!Updates(c) = {}
      BY <3>1 DEF Atomic!Updates, ValueStaged
    <3> QED
      BY <2>1, <3>1, <3>2 DEF Atomic!Work, Current
  <2> QED
    BY <2>2, <2>3
<1>5. ASSUME NEW c \in Clients, NEW w \in WatchIds, Deliver(c, w)
      PROVE  Atomic!Work(c)
  <2>1. Atomic!Only(c)
    BY <1>1, <1>5, OthersSame, OnlyItsOwn
  <2>2. db' = db /\ Status(c)' = Status(c)
    BY <1>5 DEF Deliver, storeVars, Status
  <2> QED
    BY <2>1, <2>2 DEF Atomic!Work, Current
<1> QED
  BY <1>2, <1>3, <1>4, <1>5 DEF Next, Atomic!Next

(* Etcd3.txn: transactions on the database are atomic: the optimistic       *)
(* protocol implements a store in which each takes place at once.           *)
THEOREM TransactionsAreAtomic == Spec => ImplementsAtomicStore
<1>1. Init => Atomic!Init
  BY AtomicStarts
<1>2. IInv /\ IInv' /\ [Next]_vars => [Atomic!Next]_(Atomic!vars)
  BY AtomicStep
<1> QED
  BY <1>1, <1>2, Invariant, PTL DEF Spec, ImplementsAtomicStore, Atomic!Spec
=============================================================================
